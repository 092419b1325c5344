------------------------------- MODULE Catalogue -------------------------------
(***************************************************************************)
(* The reference base of the AI mentor: the Piscine exercises and the Go   *)
(* concepts of knowledge/exercises.go, exercises_checkpoint.go,            *)
(* exercises_extra.go, concepts.go and topics.go, in registry order.       *)
(*                                                                         *)
(* Of an entry the search reads its name, its display name, its keywords   *)
(* and the significant words of its description; signature, solution,      *)
(* example and samples are text for the model's prompt and are left out.   *)
(* Of a description only the words are kept that are a word of some name   *)
(* or keyword: no question of the model holds another. Russian is written  *)
(* in Latin letters, and a keyword in lower case, as the search sees it.   *)
(*                                                                         *)
(* A question is the set of the terms it mentions - names, display names   *)
(* and keywords - with filler around them. Words of the filler are in no   *)
(* entry, and no keyword stretches over two terms.                         *)
(***************************************************************************)
EXTENDS Sequences

\* An entry whose display name is a single word, other than its name.
Shown(name, display, keywords, description) ==
  [name |-> name, display |-> display, keywords |-> keywords, description |-> description]

\* An entry whose display name adds nothing to its name.
Entry(name, keywords, description) == Shown(name, name, keywords, description)

-----------------------------------------------------------------------------
(* The exercises *)

PointersAndArithmetic == <<
  Entry("pointone", <<"ukazatel'", "pointer", "razymenovanie", "dereference", "*int">>,
    <<"ukazatel'", "na", "po", "znachenie">>),
  Entry("ultimatepointone", <<"trojnoj ukazatel'", "***int", "triple pointer",
    "ukazatel' na ukazatel'">>, <<"trojnoj", "ukazatel'", "na", "znachenie">>),
  Entry("swap", <<"swap", "obmen", "ukazateli", "multiple assignment", "*int">>, <<>>),
  Entry("divmod", <<"delenie", "ostatok", "modul'", "div", "mod", "modulo">>, <<"na",
    "ostatok">>),
  Entry("ultimatedivmod", <<"delenie s ostatkom", "in-place", "ukazateli vkhod i vykhod">>,
    <<"ostatok", "ukazateli">>),
  Entry("isnegative", <<"otricatel'noe", "negative", "z01.printrune", "sravnenie", "if">>,
    <<"chislo">>),
  Entry("fibonacci", <<"fibonachchi", "fibonacci", "rekursija", "recursion", "bazovyj sluchaj">>,
    <<"chislo", "fibonachchi">>),
  Entry("iterativefactorial", <<"faktorial", "factorial", "cikl", "for", "perepolnenie",
    "overflow">>, <<"faktorial">>),
  Entry("iterativepower", <<"stepen'", "power", "vozvedenie", "cikl">>, <<"stepen'", "power">>)>>

NumbersAndLetters == <<
  Entry("recursivepower", <<"stepen' rekursivno", "recursion", "recursive power",
    "bazovyj sluchaj">>, <<"stepen'", "power", "bazovyj", "power">>),
  Entry("sqrt", <<"koren'", "sqrt", "kvadratnyj koren'", "perfect square">>, <<"kvadratnyj",
    "koren'">>),
  Entry("isprime", <<"prostoe chislo", "prime", "is prime", "delitel'", "proverit' prostoe",
    "proverka prostogo", "proverit' prime", "javljaetsja prostym">>, <<"javljaetsja", "prostym",
    "proverit'">>),
  Entry("findnextprime", <<"sledujushhee prostoe", "next prime", "find prime",
    "beskonechnyj cikl">>, <<"prostoe", "isprime">>),
  Entry("isalpha", <<"alphanumeric", "bukvy i cifry", "isalpha", "range string", "rune">>,
    <<"stroka", "bukv", "cifr", "stroka">>),
  Entry("islower", <<"strochnye", "lower case", "lowercase", "islower">>, <<"stroka">>),
  Entry("isupper", <<"zaglavnye", "upper case", "uppercase", "isupper">>, <<"stroka">>),
  Entry("isnumeric", <<"cifry", "numeric", "digits", "isnumeric">>, <<"stroka", "cifr">>)>>

StringInspection == <<
  Entry("isprintable", <<"printable", "pechataemyj", "ascii", "control characters">>,
    <<"stroki">>),
  Entry("tolower", <<"v nizhnij registr", "to lower", "tolower", "registr">>, <<"zaglavnye",
    "bukvy">>),
  Entry("toupper", <<"v verkhnij registr", "to upper", "toupper", "registr">>, <<"strochnye",
    "bukvy">>),
  Entry("capitalize", <<"capitalize", "pervaja bukva", "title case", "slova">>, <<"slova",
    "slova">>),
  Entry("strlen", <<"dlina stroki", "string length", "strlen", "rune count">>, <<"range", "ne">>),
  Entry("strrev", <<"reverse", "razvorot stroki", "strrev", "rune slice">>, <<>>),
  Entry("concat", <<"konkatenacija", "concat", "concatenation", "+", "skleit' stroki">>,
    <<"stroki">>),
  Entry("compare", <<"compare", "sravnenie strok", "leksikograficheski", "strcmp">>,
    <<"sravnenie">>)>>

StringConversion == <<
  Entry("index", <<"indeks podstroki", "index of", "substring", "najti podstroku", "indexof">>,
    <<"indeks", "podstroki", "ne">>),
  Entry("firstrune", <<"first rune", "pervaja runa", "pervyj simvol">>, <<"stroki">>),
  Entry("lastrune", <<"last rune", "poslednjaja runa", "poslednij simvol">>, <<"stroki">>),
  Entry("nrune", <<"n-ja runa", "nth rune", "po indeksu", "rune by index">>, <<"stroki",
    "diapazona">>),
  Entry("alphacount", <<"count letters", "schjot bukv", "alpha count", "alphabetic">>, <<"bukv",
    "cifry">>),
  Entry("basicjoin", <<"join", "skleit' slajs strok", "string slice", "concatenate slice">>,
    <<"strok">>),
  Entry("trimatoi", <<"trim atoi", "izvlech' chislo", "ascii to int", "parse int", "atoi">>,
    <<"cifry">>),
  Entry("atoibase", <<"atoi base", "sistema schislenija", "konvertacija", "base conversion",
    "radix">>, <<"schislenija">>)>>

PrintingAndSlices == <<
  Entry("printstr", <<"print string", "vyvod stroki", "z01.printrune", "pechat'">>, <<"po">>),
  Entry("printcomb", <<"print comb", "kombinacii", "trojnye cikly", "combinations">>,
    <<"kombinacii", "cifr">>),
  Entry("printcomb2", <<"print comb 2", "kombinacii par", "dvuznachnye chisla">>, <<>>),
  Entry("printnbrbase", <<"print number base", "sistema schislenija", "vyvod v sisteme",
    "recursion">>, <<"chislo", "sisteme", "schislenija", "base">>),
  Entry("printnbrinorder", <<"sort digits", "sortirovka cifr", "in order", "pechat' cifr">>,
    <<"cifry", "chisla">>),
  Entry("appendrange", <<"append range", "slajs diapazona", "range slice", "append">>,
    <<"slajs">>),
  Entry("makerange", <<"make range", "make slice", "preallocate", "slajs s make">>, <<"slajs",
    "make">>)>>

CheckpointAtoC == <<
  Shown("brackets", "checkbrackets", <<"brackets", "checkpoint", "exam">>, <<"proverka">>),
  Entry("cameltosnakecase", <<"cameltosnakecase", "checkpoint", "exam", "registr", "case">>,
    <<"konvertacija", "bukva">>),
  Entry("canjump", <<"canjump", "checkpoint", "exam">>, <<"dlina">>),
  Entry("checknumber", <<"checknumber", "checkpoint", "exam", "chislo", "number",
    "konvertacija">>, <<"proverka", "chisla", "na">>),
  Entry("concatalternate", <<"concatalternate", "checkpoint", "exam", "konkatenacija", "concat">>,
    <<>>)>>

CheckpointCtoI == <<
  Entry("concatslice", <<"concatslice", "checkpoint", "exam", "konkatenacija", "concat", "slajs",
    "slice">>, <<"bazovyj">>),
  Entry("countalpha", <<"countalpha", "checkpoint", "exam">>, <<>>),
  Entry("fifthandskip", <<"fifthandskip", "checkpoint", "exam">>, <<>>),
  Entry("grouping", <<"grouping", "checkpoint", "exam">>, <<"po">>),
  Entry("iscapitalized", <<"iscapitalized", "checkpoint", "exam", "proverka">>, <<"stroka">>)>>

CheckpointItoN == <<
  Entry("itoa", <<"itoa", "checkpoint", "exam", "chislo", "number", "konvertacija">>, <<>>),
  Entry("itoabase", <<"itoabase", "checkpoint", "exam", "chislo", "number", "konvertacija">>,
    <<"sisteme">>),
  Entry("notdecimal", <<"notdecimal", "checkpoint", "exam">>, <<"cifr">>)>>

CheckpointOtoR == <<
  Entry("only1", <<"only1", "checkpoint", "exam">>, <<"na">>),
  Entry("onlyb", <<"onlyb", "checkpoint", "exam">>, <<"bukvy">>),
  Entry("onlyf", <<"onlyf", "checkpoint", "exam">>, <<"bukvy">>),
  Entry("printrevcomb", <<"printrevcomb", "checkpoint", "exam", "pechat'", "print", "kombinacii",
    "combinations", "razvorot", "reverse">>, <<"kombinacii">>),
  Entry("revconcatalternate", <<"revconcatalternate", "checkpoint", "exam", "konkatenacija",
    "concat", "razvorot", "reverse">>, <<>>),
  Entry("rpncalc", <<"rpncalc", "checkpoint", "exam", "kal'kuljator", "calculator",
    "expression">>, <<"reverse">>)>>

CheckpointStoZ == <<
  Entry("saveandmiss", <<"saveandmiss", "checkpoint", "exam">>, <<"argumenty">>),
  Entry("slice", <<"slice", "checkpoint", "exam", "slajs">>, <<"podslajs">>),
  Entry("thirdtimeisacharm", <<"thirdtimeisacharm", "checkpoint", "exam">>, <<>>),
  Entry("weareunique", <<"weareunique", "checkpoint", "exam">>, <<>>),
  Entry("wordflip", <<"wordflip", "checkpoint", "exam">>, <<"slova">>),
  Entry("zipstring", <<"zipstring", "checkpoint", "exam", "stroka", "string">>, <<>>)>>

ExtraAtoC == <<
  Entry("abort", <<"abort">>, <<"znachenie">>),
  Entry("addfront", <<"addfront">>, <<>>),
  Entry("addprimesum", <<"addprimesum", "prostoe chislo", "prime">>, <<>>),
  Entry("alphamirror", <<"alphamirror", "alfavit", "alphabet", "bukvy">>, <<>>),
  Entry("any", <<"any", "higher-order function", "funkcija kak parametr">>, <<>>),
  Entry("atoi", <<"atoi", "konvertacija", "string to int">>, <<>>),
  Entry("basicatoi", <<"basicatoi", "atoi", "konvertacija", "string to int">>, <<"cifr">>),
  Entry("basicatoi2", <<"basicatoi2", "atoi", "konvertacija", "string to int">>, <<"atoi",
    "cifry">>),
  Entry("bitwise", <<"bitwise", "bity", "bits", "binary">>, <<"bitwise">>),
  Entry("boolean", <<"boolean">>, <<>>),
  Entry("capitalize2", <<"capitalize2">>, <<"capitalize2">>),
  Entry("cat", <<"cat">>, <<"vyvod">>),
  Entry("chunk", <<"chunk">>, <<"slajs", "na">>),
  Entry("cleanstr", <<"cleanstr", "stroka", "string">>, <<>>),
  Entry("collatzcountdown", <<"collatzcountdown">>, <<>>),
  Entry("concatparams", <<"concatparams", "argumenty", "os.args", "komandnaja stroka">>,
    <<"argumenty", "stroki">>),
  Entry("convertbase", <<"convertbase">>, <<"chislo", "schislenija">>),
  Entry("countdown", <<"countdown">>, <<>>),
  Entry("countif", <<"countif", "higher-order function", "funkcija kak parametr">>, <<>>)>>

ExtraDtoM == <<
  Entry("descendcomb", <<"descendcomb", "kombinacii", "combinations">>, <<"kombinacii", "cifr">>),
  Entry("displaya", <<"displaya">>, <<>>),
  Entry("displayalpham", <<"displayalpham", "alfavit", "alphabet", "bukvy">>, <<"alfavit">>),
  Entry("displayalrevm", <<"displayalrevm">>, <<"alfavit">>),
  Entry("displayfile", <<"displayfile", "fajl", "file", "io">>, <<>>),
  Entry("displayfirstparam", <<"displayfirstparam", "argumenty", "os.args", "komandnaja stroka">>,
    <<"pervyj">>),
  Entry("displaylastparam", <<"displaylastparam", "argumenty", "os.args", "komandnaja stroka">>,
    <<"poslednij">>),
  Entry("displayz", <<"displayz">>, <<>>),
  Entry("doop", <<"doop">>, <<"delenie", "na">>),
  Entry("expandstr", <<"expandstr", "stroka", "string">>, <<>>),
  Entry("expandstr2", <<"expandstr2", "stroka", "string">>, <<>>),
  Entry("findprevprime", <<"findprevprime", "prostoe chislo", "prime">>, <<"prostoe", "chislo">>),
  Entry("firstword", <<"firstword">>, <<"slova">>),
  Entry("flags", <<"flags">>, <<"stroki", "na">>),
  Entry("foldint", <<"foldint", "higher-order function", "funkcija kak parametr">>, <<>>),
  Entry("fooddeliverytime", <<"fooddeliverytime">>, <<"stroki">>),
  Entry("foreach", <<"foreach">>, <<>>),
  Entry("fprime", <<"fprime", "prostoe chislo", "prime">>, <<"na">>),
  Entry("fromto", <<"fromto">>, <<"chisla">>),
  Entry("gcd", <<"gcd">>, <<>>),
  Entry("hello", <<"hello">>, <<>>),
  Entry("hiddenp", <<"hiddenp">>, <<"javljaetsja", "stroka", "stroki", "bukvy", "ne">>),
  Entry("indexx", <<"indexx">>, <<"index", "podstroki">>),
  Entry("inter", <<"inter">>, <<>>),
  Entry("ispowerof2", <<"ispowerof2", "proverka", "is powerof2", "check">>, <<"javljaetsja",
    "chislo">>),
  Entry("issorted", <<"issorted", "proverka", "is sorted", "check">>, <<"slajs", "po">>),
  Entry("join", <<"join">>, <<"slajs", "strok">>),
  Entry("lastword", <<"lastword">>, <<>>),
  Entry("loafofbread", <<"loafofbread">>, <<>>),
  Entry("map", <<"map", "higher-order function", "funkcija kak parametr">>, <<>>),
  Entry("max", <<"max">>, <<"znachenie">>),
  Entry("maxminint", <<"maxminint">>, <<"minint">>)>>

ExtraNtoP == <<
  Entry("nbrconvertalpha", <<"nbrconvertalpha", "alfavit", "alphabet", "bukvy">>, <<"chisla",
    "bukvy">>),
  Entry("onlya", <<"onlya">>, <<"bukvy">>),
  Entry("onlyz", <<"onlyz">>, <<"bukvy">>),
  Entry("paramcount", <<"paramcount", "argumenty", "os.args", "komandnaja stroka">>, <<>>),
  Entry("piglatin", <<"piglatin">>, <<>>),
  Entry("point", <<"point">>, <<>>),
  Entry("print2complbits", <<"print2complbits", "pechat'", "vyvod", "print", "bity", "bits",
    "binary">>, <<"chisla">>),
  Entry("printalphabet", <<"printalphabet", "pechat'", "vyvod", "print", "alfavit", "alphabet",
    "bukvy">>, <<"alfavit">>),
  Entry("printbits", <<"printbits", "pechat'", "vyvod", "print", "bity", "bits", "binary">>,
    <<>>),
  Entry("printcomba", <<"printcomba", "pechat'", "vyvod", "print", "kombinacii", "combinations">>,
    <<"cifr", "po">>),
  Entry("printcombb", <<"printcombb", "printcomb", "pechat'", "vyvod", "print", "kombinacii",
    "combinations">>, <<"cifr">>),
  Entry("printdigits", <<"printdigits", "pechat'", "vyvod", "print">>, <<"cifry">>),
  Entry("printhex", <<"printhex", "pechat'", "vyvod", "print">>, <<>>),
  Entry("printmemory", <<"printmemory", "pechat'", "vyvod", "print", "bity", "bits", "binary">>,
    <<>>),
  Entry("printmemory2", <<"printmemory2", "pechat'", "vyvod", "print", "bity", "bits", "binary">>,
    <<"printmemory">>),
  Entry("printnbr", <<"printnbr", "pechat'", "vyvod", "print", "rekursija", "minint",
    "overflow">>, <<"chislo", "ne">>),
  Entry("printnbr2", <<"printnbr2", "pechat'", "vyvod", "print">>, <<"printnbr", "chislo">>),
  Entry("printnbr3", <<"printnbr3", "pechat'", "vyvod", "print">>, <<"printnbr", "pechat'",
    "chisla">>),
  Entry("printparams", <<"printparams", "pechat'", "vyvod", "print", "argumenty", "os.args",
    "komandnaja stroka">>, <<"argumenty", "stroki", "po", "na">>),
  Entry("printprogramname", <<"printprogramname", "pechat'", "vyvod", "print">>, <<>>),
  Entry("printreversealphabet", <<"printreversealphabet", "pechat'", "vyvod", "print", "alfavit",
    "alphabet", "bukvy">>, <<"alfavit">>),
  Entry("printwordstables", <<"printwordstables", "pechat'", "vyvod", "print">>,
    <<"formatirovanie">>)>>

ExtraRtoZ == <<
  Entry("reduceint", <<"reduceint", "higher-order function", "funkcija kak parametr">>,
    <<"reduceint">>),
  Entry("repeatalpha", <<"repeatalpha", "alfavit", "alphabet", "bukvy">>, <<"repeatalpha">>),
  Entry("reversebits", <<"reversebits", "bity", "bits", "binary">>, <<"reversebits">>),
  Entry("reversestrcap", <<"reversestrcap", "stroka", "string">>, <<"reversestrcap">>),
  Entry("revparams", <<"revparams", "argumenty", "os.args", "komandnaja stroka">>,
    <<"revparams">>),
  Entry("revwstr", <<"revwstr", "stroka", "string">>, <<"revwstr">>),
  Entry("romannumbers", <<"romannumbers">>, <<"romannumbers">>),
  Entry("rostring", <<"rostring", "stroka", "string">>, <<"rostring">>),
  Entry("rot13", <<"rot13">>, <<"rot13">>),
  Entry("rot14", <<"rot14">>, <<"rot14">>),
  Entry("searchreplace", <<"searchreplace">>, <<"searchreplace">>),
  Entry("sortintegertable", <<"sortintegertable">>, <<"sortintegertable">>),
  Entry("sortintegertable2", <<"sortintegertable2">>, <<"sortintegertable2">>),
  Entry("sortparams", <<"sortparams", "argumenty", "os.args", "komandnaja stroka">>,
    <<"sortparams">>),
  Entry("sortwordarr", <<"sortwordarr">>, <<"sortwordarr">>),
  Entry("split", <<"split">>, <<"split">>),
  Entry("split2", <<"split2">>, <<"split2">>),
  Entry("splitwhitespaces", <<"splitwhitespaces">>, <<"splitwhitespaces">>),
  Entry("strchunks", <<"strchunks", "stroka", "string">>, <<"strchunks">>),
  Entry("strrev2", <<"strrev2", "stroka", "string">>, <<"strrev2">>),
  Entry("swapbits", <<"swapbits", "bity", "bits", "binary">>, <<"swapbits">>),
  Entry("switchcase", <<"switchcase">>, <<"switchcase">>),
  Entry("tabmult", <<"tabmult", "tablica", "umnozhenie", "multiplication">>, <<"chisla", "strok",
    "ne", "ne">>),
  Entry("union", <<"union">>, <<"union">>),
  Entry("unmatch", <<"unmatch">>, <<"unmatch">>),
  Entry("wdmatch", <<"wdmatch">>, <<"wdmatch">>),
  Entry("ztail", <<"ztail">>, <<"ztail">>),
  Entry("quada", <<"quada", "prjamougol'nik", "rectangle", "kvad", "quad", "ramk">>,
    <<"prjamougol'nik", "ne">>),
  Entry("quadb", <<"quadb", "prjamougol'nik", "rectangle", "kvad", "quad", "ramk">>,
    <<"prjamougol'nik", "ne">>),
  Entry("quadc", <<"quadc", "prjamougol'nik", "rectangle", "kvad", "quad", "ramk">>,
    <<"prjamougol'nik", "ne">>),
  Entry("quadd", <<"quadd", "prjamougol'nik", "rectangle", "kvad", "quad", "ramk">>,
    <<"prjamougol'nik", "ne">>),
  Entry("quade", <<"quade", "prjamougol'nik", "rectangle", "kvad", "quad", "ramk">>,
    <<"prjamougol'nik", "ne">>)>>

\* The registry as the init functions leave it.
PiscineExercises ==
  PointersAndArithmetic \o NumbersAndLetters \o StringInspection \o StringConversion \o PrintingAndSlices
  \o CheckpointAtoC \o CheckpointCtoI \o CheckpointItoN \o CheckpointOtoR \o CheckpointStoZ
  \o ExtraAtoC \o ExtraDtoM \o ExtraNtoP \o ExtraRtoZ

-----------------------------------------------------------------------------
(* The concepts *)

BasicsAndBranches == <<
  Shown("variables", "peremennye", <<"peremennye", "variables", "var", ":=", "zero value",
    "type inference", "ob''javlenie">>, <<"funkcii", "na">>),
  Shown("constants", "konstanty", <<"konstanty", "const", "constants", "untyped",
    "compile-time">>, <<"const", "znachenie", "konstanty">>),
  Shown("types", "tipy", <<"tipy", "types", "type", "alias", "named type", "type definition">>,
    <<"tipy", "tip", "type", "bazovyj", "type", "bazovyj">>),
  Entry("loops", <<"cikl", "for", "loop", "range", "while", "iterate", "perebor", "iteracija">>,
    <<"while", "perebor">>),
  Entry("if_else", <<"esli", "if", "else", "uslovie", "branch", "scope">>, <<"ob''javlenie">>),
  Entry("switch", <<"switch", "case", "default", "branching", "vetvlenie">>, <<"switch", "ne",
    "po", "switch", "case", "neskol'ko">>)>>

CompositeTypes == <<
  Entry("arrays", <<"massiv", "array", "fixed length", "staticheskij massiv">>, <<"massiv",
    "znachenie", "dlina">>),
  Entry("slices", <<"slajs", "slice", "append", "len", "cap", "backing array", "podslajs",
    "make">>, <<"slice", "ukazatel'", "dlina", "na", "append">>),
  Entry("maps", <<"mapa", "map", "hash map", "dictionary", "slovar'", "delete",
    "ok-comma idiom">>, <<"make">>),
  Entry("structs", <<"struktura", "struct", "field", "pole", "exported", "kompozitnyj tip">>,
    <<"struct", "type", "struct", "bukvy", "po">>),
  Shown("pointers", "ukazateli", <<"ukazatel'", "pointer", "*", "&", "adres", "razymenovanie",
    "dereference", "address-of">>, <<"ukazatel'", "znachenie", "adres", "ne">>)>>

FunctionsAndInterfaces == <<
  Shown("functions", "funkcii", <<"funkcija", "function", "func", "return", "named return",
    "multiple return">>, <<"funkcija", "neskol'ko", "tip">>),
  Entry("variadic", <<"variadic", "peremennoe chislo", "args", "rest", "...">>, <<"variadic",
    "slice", "slice">>),
  Shown("closures", "zamykanija", <<"zamykanie", "closure", "pervoklassnaja funkcija",
    "first-class function", "capture">>, <<"funkcija", "zamykanie", "peremennye", "po">>),
  Shown("methods", "metody", <<"metod", "method", "receiver", "value receiver",
    "pointer receiver">>, <<"metod">>),
  Shown("interfaces", "interfejsy", <<"interfejs", "interface", "type assertion",
    "implicit interfaces", "polymorphism", "polimorfizm">>, <<"interfejs", "malen'kie",
    "interfejsy">>)>>

ChannelsAndErrors == <<
  Shown("goroutines", "gorutiny", <<"gorutina", "goroutine", "go", "concurrent", "concurrency",
    "konkurentnost'", "potok", "thread">>, <<"gorutina", "potok", "po", "gorutin", "ne">>),
  Entry("channels", <<"kanal", "channel", "chan", "buffered", "unbuffered", "close", "send",
    "receive", "gorutina svjaz'">>, <<"kanal", "ne", "zero", "value">>),
  Entry("select", <<"select", "tajmaut", "timeout", "wait multiple", "neskol'ko kanalov">>,
    <<"select", "switch", "case", "pervyj", "default">>),
  Entry("mutex", <<"m'juteks", "mutex", "lock", "unlock", "race condition", "shared state",
    "kriticheskaja sekcija">>, <<"shared", "defer">>),
  Entry("errors", <<"oshibka", "error", "errors", "errors.is", "errors.as", "wrap", "objortka",
    "sentinel error">>, <<"error", "vozvrashhaj">>)>>

ErrorsAndIdioms == <<
  Entry("defer", <<"defer", "otlozhennyj vyzov", "cleanup", "lifo", "resursy", "close">>,
    <<"defer", "vyzov", "funkcii">>),
  Entry("panic_recover", <<"panic", "recover", "panika", "vosstanovlenie", "stack unwinding">>,
    <<"panic", "gorutiny", "recover", "panic", "na">>),
  Entry("fmt_package", <<"fmt", "printf", "sprintf", "println", "formatirovanie", "format verbs",
    "%v", "%d", "%s">>, <<"println", "printf", "sprintf">>),
  Entry("strings_package", <<"strings", "contains", "split", "join", "replace", "trimspace",
    "stroki stdlib">>, <<"strings", "stroki">>),
  Entry("strconv_package", <<"strconv", "atoi", "itoa", "parsefloat", "parseint", "konvertacija",
    "string to int">>, <<"strconv", "konvertacija", "strok", "chisla">>)>>

BuildAndTest == <<
  Entry("ok_idiom", <<"ok-comma", "two-value return", "exists check",
    "proverka sushhestvovanija">>, <<"znachenie">>),
  Entry("zero_values", <<"zero value", "nulevoe znachenie", "default value", "nil", "init">>,
    <<"zero", "value", "string">>),
  Entry("modules", <<"moduli", "modules", "go mod", "go.mod", "go get", "zavisimosti",
    "dependencies">>, <<"init">>),
  Shown("testing", "testirovanie", <<"testy", "testing", "test", "table-driven", "subtests",
    "go test", "coverage">>, <<"testy", "funkcija", "ne">>)>>

Topics == <<
  Entry("naming", <<"naming", "imenovanie", "idiomy imjon", "naming convention", "geter",
    "exported", "unexported", "-er suffix">>, <<"po", "bukvy", "interfejsy">>),
  Entry("small_interfaces", <<"malen'kie interfejsy", "small interfaces", "interface design",
    "io.reader", "io.writer", "-er suffix">>, <<"interfejs", "po", "ne", "interfejs">>),
  Entry("accept_interfaces_return_structs", <<"accept interfaces", "return structs",
    "prinimaj interfejsy", "vozvrashhaj struktury", "go idiom", "api design">>, <<"interfejs",
    "na", "tip", "na", "metody">>),
  Entry("error_wrapping", <<"error wrapping", "objortka oshibok", "fmt.errorf", "%w", "errors.is",
    "errors.as", "error chain", "cepochka oshibok">>, <<"ne">>),
  Entry("share_by_communicating", <<"don't share, communicate", "share by communicating",
    "channels vs mutex", "go concurrency", "worker pool", "pul vorkerov">>, <<"communicate",
    "share", "mutex", "prostogo", "na", "pervyj">>),
  Entry("context_cancellation", <<"context", "context", "kontekst", "otmena", "cancellation",
    "timeout", "tajmaut", "graceful shutdown", "withtimeout", "withcancel">>, <<"withcancel",
    "otmena", "graceful">>),
  Entry("table_driven_tests", <<"table-driven", "table tests", "tablichnye testy", "subtests",
    "t.run", "t.parallel", "test cases">>, <<"testy", "cikl", "po", "case">>),
  Entry("goroutine_leaks", <<"goroutine leak", "utechka gorutin", "leak", "graceful shutdown",
    "gorutina ne zavershaetsja", "vechnaja gorutina">>, <<"gorutina", "funkcija", "ne", "na",
    "gorutina", "utechka">>)>>

GoConcepts == BasicsAndBranches \o CompositeTypes \o FunctionsAndInterfaces
              \o ChannelsAndErrors \o ErrorsAndIdioms \o BuildAndTest \o Topics

-----------------------------------------------------------------------------
(* What the text of a term holds *)

\* <<keyword, terms>>: the keyword is part of the text of each of these terms.
PartOf == {
  <<"accept interfaces", {"accept_interfaces_return_structs"}>>,
  <<"alphabet", {"alphabetic", "printalphabet", "printreversealphabet"}>>,
  <<"append", {"append range", "appendrange"}>>,
  <<"args", {"os.args"}>>,
  <<"array", {"arrays", "backing array"}>>,
  <<"ascii", {"ascii to int"}>>,
  <<"atoi", {"atoi base", "atoibase", "basicatoi", "basicatoi2", "trim atoi", "trimatoi"}>>,
  <<"basicatoi", {"basicatoi2"}>>,
  <<"bits", {"print2complbits", "printbits", "reversebits", "swapbits"}>>,
  <<"brackets", {"checkbrackets"}>>,
  <<"branch", {"branching"}>>,
  <<"buffered", {"unbuffered"}>>,
  <<"bukvy", {"bukvy i cifry"}>>,
  <<"cancellation", {"context_cancellation"}>>,
  <<"cap", {"capitalize", "capitalize2", "capture", "iscapitalized", "reversestrcap"}>>,
  <<"capitalize", {"capitalize2", "iscapitalized"}>>,
  <<"case", {"cameltosnakecase", "lower case", "lowercase", "switchcase", "test cases",
    "title case", "upper case", "uppercase"}>>,
  <<"cat", {"basicatoi", "basicatoi2", "concat", "concatalternate", "concatenate slice",
    "concatenation", "concatparams", "concatslice", "don't share, communicate", "multiplication",
    "preallocate", "revconcatalternate", "share by communicating", "share_by_communicating"}>>,
  <<"chan", {"channel", "channels", "channels vs mutex"}>>,
  <<"channel", {"channels", "channels vs mutex"}>>,
  <<"check", {"checkbrackets", "checknumber", "checkpoint", "exists check"}>>,
  <<"chislo", {"izvlech' chislo", "peremennoe chislo", "prostoe chislo"}>>,
  <<"chunk", {"strchunks"}>>,
  <<"cifry", {"bukvy i cifry"}>>,
  <<"cikl", {"beskonechnyj cikl", "trojnye cikly"}>>,
  <<"closure", {"closures"}>>,
  <<"concat", {"concatalternate", "concatenate slice", "concatenation", "concatparams",
    "concatslice", "revconcatalternate"}>>,
  <<"concatalternate", {"revconcatalternate"}>>,
  <<"concurrency", {"go concurrency"}>>,
  <<"const", {"constants"}>>,
  <<"context", {"context_cancellation"}>>,
  <<"countdown", {"collatzcountdown"}>>,
  <<"default", {"default value"}>>,
  <<"delenie", {"delenie s ostatkom"}>>,
  <<"digits", {"printdigits", "sort digits"}>>,
  <<"displaya", {"displayalpham", "displayalrevm"}>>,
  <<"div", {"divmod", "ultimatedivmod"}>>,
  <<"else", {"if_else"}>>,
  <<"error", {"error chain", "error wrapping", "error_wrapping", "errors", "errors.as",
    "errors.is", "fmt.errorf", "sentinel error"}>>,
  <<"error wrapping", {"error_wrapping"}>>,
  <<"errors", {"errors.as", "errors.is"}>>,
  <<"expandstr", {"expandstr2"}>>,
  <<"exported", {"unexported"}>>,
  <<"factorial", {"iterativefactorial"}>>,
  <<"file", {"displayfile"}>>,
  <<"fmt", {"fmt.errorf", "fmt_package"}>>,
  <<"for", {"foreach", "format verbs"}>>,
  <<"func", {"first-class function", "function", "functions", "higher-order function"}>>,
  <<"function", {"first-class function", "functions", "higher-order function"}>>,
  <<"funkcija", {"pervoklassnaja funkcija", "funkcija kak parametr"}>>,
  <<"go", {"go concurrency", "go get", "go idiom", "go mod", "go test", "go.mod", "goroutine",
    "goroutine leak", "goroutine_leaks", "goroutines"}>>,
  <<"go mod", {"go.mod"}>>,
  <<"goroutine", {"goroutine leak", "goroutine_leaks", "goroutines"}>>,
  <<"goroutine leak", {"goroutine_leaks"}>>,
  <<"gorutina", {"vechnaja gorutina", "gorutina ne zavershaetsja", "gorutina svjaz'"}>>,
  <<"if", {"countif", "fifthandskip", "if_else", "lifo"}>>,
  <<"init", {"type definition"}>>,
  <<"inter", {"accept interfaces", "accept_interfaces_return_structs", "implicit interfaces",
    "interface", "interface design", "interfaces", "pointer", "pointer receiver", "pointers",
    "small interfaces", "small_interfaces", "triple pointer"}>>,
  <<"interface", {"accept interfaces", "accept_interfaces_return_structs", "implicit interfaces",
    "interface design", "interfaces", "small interfaces", "small_interfaces"}>>,
  <<"interfejs", {"interfejsy", "malen'kie interfejsy", "prinimaj interfejsy"}>>,
  <<"io", {"base conversion", "cancellation", "combinations", "concatenation",
    "context_cancellation", "dictionary", "expression", "first-class function", "function",
    "functions", "go idiom", "higher-order function", "io.reader", "io.writer", "multiplication",
    "naming convention", "ok-comma idiom", "ok_idiom", "race condition", "recursion",
    "type assertion", "type definition", "union"}>>,
  <<"itoa", {"itoabase"}>>,
  <<"join", {"basicjoin"}>>,
  <<"kanal", {"neskol'ko kanalov"}>>,
  <<"kombinacii", {"kombinacii par"}>>,
  <<"koren'", {"kvadratnyj koren'"}>>,
  <<"kvad", {"kvadratnyj koren'"}>>,
  <<"leak", {"goroutine leak", "goroutine_leaks"}>>,
  <<"len", {"fixed length", "string length", "strlen"}>>,
  <<"lock", {"unlock"}>>,
  <<"loop", {"loops"}>>,
  <<"make", {"make range", "make slice", "makerange", "slajs s make"}>>,
  <<"map", {"hash map", "maps"}>>,
  <<"massiv", {"staticheskij massiv"}>>,
  <<"max", {"maxminint"}>>,
  <<"method", {"methods"}>>,
  <<"metod", {"metody"}>>,
  <<"minint", {"maxminint"}>>,
  <<"mod", {"divmod", "go mod", "go.mod", "modules", "modulo", "ultimatedivmod"}>>,
  <<"mutex", {"channels vs mutex"}>>,
  <<"naming", {"naming convention"}>>,
  <<"negative", {"isnegative"}>>,
  <<"number", {"checknumber", "print number base", "romannumbers"}>>,
  <<"numeric", {"alphanumeric", "isnumeric"}>>,
  <<"objortka", {"objortka oshibok"}>>,
  <<"panic", {"panic_recover"}>>,
  <<"pechat'", {"pechat' cifr"}>>,
  <<"point", {"checkpoint", "pointer", "pointer receiver", "pointers", "pointone",
    "triple pointer", "ultimatepointone"}>>,
  <<"pointer", {"pointer receiver", "pointers", "triple pointer"}>>,
  <<"power", {"is powerof2", "ispowerof2", "iterativepower", "recursive power",
    "recursivepower"}>>,
  <<"prime", {"addprimesum", "find prime", "findnextprime", "findprevprime", "fprime", "is prime",
    "isprime", "next prime", "proverit' prime"}>>,
  <<"print", {"isprintable", "print comb", "print comb 2", "print number base", "print string",
    "print2complbits", "printable", "printalphabet", "printbits", "printcomb", "printcomb2",
    "printcomba", "printcombb", "printdigits", "printf", "printhex", "println", "printmemory",
    "printmemory2", "printnbr", "printnbr2", "printnbr3", "printnbrbase", "printnbrinorder",
    "printparams", "printprogramname", "printrevcomb", "printreversealphabet", "printstr",
    "printwordstables", "sprintf", "z01.printrune"}>>,
  <<"print comb", {"print comb 2"}>>,
  <<"printable", {"isprintable"}>>,
  <<"printcomb", {"printcomb2", "printcomba", "printcombb"}>>,
  <<"printf", {"sprintf"}>>,
  <<"printmemory", {"printmemory2"}>>,
  <<"printnbr", {"printnbr2", "printnbr3", "printnbrbase", "printnbrinorder"}>>,
  <<"proverka", {"proverka prostogo", "proverka sushhestvovanija"}>>,
  <<"quad", {"quada", "quadb", "quadc", "quadd", "quade"}>>,
  <<"range", {"append range", "appendrange", "make range", "makerange", "range slice",
    "range string"}>>,
  <<"razvorot", {"razvorot stroki"}>>,
  <<"receive", {"pointer receiver", "receiver", "value receiver"}>>,
  <<"receiver", {"pointer receiver", "value receiver"}>>,
  <<"recover", {"panic_recover"}>>,
  <<"registr", {"v verkhnij registr", "v nizhnij registr"}>>,
  <<"replace", {"searchreplace"}>>,
  <<"return", {"accept_interfaces_return_structs", "multiple return", "named return",
    "return structs", "two-value return"}>>,
  <<"return structs", {"accept_interfaces_return_structs"}>>,
  <<"reverse", {"printreversealphabet", "reversebits", "reversestrcap"}>>,
  <<"rune", {"first rune", "firstrune", "last rune", "lastrune", "nrune", "nth rune",
    "rune by index", "rune count", "rune slice", "z01.printrune"}>>,
  <<"share by communicating", {"share_by_communicating"}>>,
  <<"slajs", {"podslajs", "skleit' slajs strok", "slajs diapazona", "slajs s make"}>>,
  <<"slice", {"concatenate slice", "concatslice", "make slice", "range slice", "rune slice",
    "slices", "string slice"}>>,
  <<"slova", {"slovar'"}>>,
  <<"small interfaces", {"small_interfaces"}>>,
  <<"sortintegertable", {"sortintegertable2"}>>,
  <<"split", {"split2", "splitwhitespaces"}>>,
  <<"sravnenie", {"sravnenie strok"}>>,
  <<"stepen'", {"stepen' rekursivno"}>>,
  <<"strconv", {"strconv_package"}>>,
  <<"string", {"print string", "range string", "rostring", "string length", "string slice",
    "string to int", "strings", "strings_package", "substring", "zipstring"}>>,
  <<"strings", {"strings_package"}>>,
  <<"stroka", {"komandnaja stroka"}>>,
  <<"strrev", {"strrev2"}>>,
  <<"struct", {"accept_interfaces_return_structs", "return structs", "structs"}>>,
  <<"swap", {"swapbits"}>>,
  <<"switch", {"switchcase"}>>,
  <<"test", {"go test", "subtests", "table tests", "table_driven_tests", "test cases",
    "testing"}>>,
  <<"testy", {"tablichnye testy"}>>,
  <<"timeout", {"withtimeout"}>>,
  <<"type", {"named type", "type assertion", "type definition", "type inference", "types",
    "untyped"}>>,
  <<"ukazatel'", {"trojnoj ukazatel'", "ukazatel' na ukazatel'"}>>,
  <<"ukazateli", {"ukazateli vkhod i vykhod"}>>,
  <<"var", {"variables", "variadic"}>>,
  <<"vyvod", {"vyvod v sisteme", "vyvod stroki"}>>,
  <<"wrap", {"error wrapping", "error_wrapping"}>>,
  <<"zero value", {"zero_values"}>>}

\* <<term, words>>: a term of several words, and those of them an entry may look for.
PhraseWords == {
  <<"%d", {}>>, <<"%s", {}>>, <<"%v", {}>>, <<"%w", {}>>, <<"&", {}>>, <<"*", {}>>, <<"***int",
  {}>>, <<"*int", {}>>, <<"+", {}>>, <<"-er suffix", {}>>, <<"...", {}>>, <<":=", {}>>,
  <<"accept interfaces", {"interfaces"}>>, <<"accept_interfaces_return_structs", {"interfaces",
  "structs"}>>, <<"address-of", {}>>, <<"alpha count", {}>>, <<"api design", {}>>,
  <<"append range", {"append", "range"}>>, <<"ascii to int", {}>>, <<"atoi base", {"atoi",
  "base"}>>, <<"backing array", {}>>, <<"base conversion", {"base"}>>, <<"channels vs mutex",
  {"channels", "mutex"}>>, <<"compile-time", {}>>, <<"concatenate slice", {"slice"}>>,
  <<"context_cancellation", {}>>, <<"control characters", {}>>, <<"count letters", {}>>,
  <<"default value", {"default", "value"}>>, <<"don't share, communicate", {"share",
  "communicate"}>>, <<"error chain", {"error"}>>, <<"error wrapping", {"error"}>>,
  <<"error_wrapping", {"error"}>>, <<"errors.as", {"errors"}>>, <<"errors.is", {"errors"}>>,
  <<"exists check", {}>>, <<"find prime", {}>>, <<"first rune", {}>>, <<"first-class function",
  {}>>, <<"fixed length", {}>>, <<"fmt.errorf", {}>>, <<"fmt_package", {}>>, <<"format verbs",
  {}>>, <<"go concurrency", {}>>, <<"go get", {}>>, <<"go idiom", {}>>, <<"go mod", {}>>,
  <<"go test", {}>>, <<"go.mod", {}>>, <<"goroutine leak", {}>>, <<"goroutine_leaks", {}>>,
  <<"graceful shutdown", {"graceful"}>>, <<"hash map", {"map"}>>, <<"higher-order function", {}>>,
  <<"if_else", {}>>, <<"implicit interfaces", {"interfaces"}>>, <<"in order", {}>>, <<"in-place",
  {}>>, <<"index of", {"index"}>>, <<"interface design", {}>>, <<"io.reader", {}>>, <<"io.writer",
  {}>>, <<"is powerof2", {}>>, <<"is prime", {}>>, <<"is sorted", {}>>, <<"last rune", {}>>,
  <<"lower case", {"case"}>>, <<"make range", {"make", "range"}>>, <<"make slice", {"make",
  "slice"}>>, <<"multiple assignment", {}>>, <<"multiple return", {}>>, <<"n-ja runa", {}>>,
  <<"named return", {}>>, <<"named type", {"type"}>>, <<"naming convention", {"naming"}>>,
  <<"next prime", {}>>, <<"nth rune", {}>>, <<"ok-comma", {}>>, <<"ok-comma idiom", {}>>,
  <<"ok_idiom", {}>>, <<"os.args", {}>>, <<"panic_recover", {"panic", "recover"}>>, <<"parse int",
  {}>>, <<"perfect square", {}>>, <<"pointer receiver", {}>>, <<"print comb", {}>>,
  <<"print comb 2", {}>>, <<"print number base", {"base"}>>, <<"print string", {"string"}>>,
  <<"race condition", {}>>, <<"range slice", {"range", "slice"}>>, <<"range string", {"range",
  "string"}>>, <<"recursive power", {"power"}>>, <<"return structs", {"structs"}>>,
  <<"rune by index", {"index"}>>, <<"rune count", {}>>, <<"rune slice", {"slice"}>>,
  <<"sentinel error", {"error"}>>, <<"share by communicating", {"share"}>>,
  <<"share_by_communicating", {"share"}>>, <<"shared state", {"shared"}>>, <<"small interfaces",
  {"interfaces"}>>, <<"small_interfaces", {"interfaces"}>>, <<"sort digits", {}>>,
  <<"stack unwinding", {}>>, <<"strconv_package", {"strconv"}>>, <<"string length", {"string"}>>,
  <<"string slice", {"string", "slice"}>>, <<"string to int", {"string"}>>, <<"strings_package",
  {"strings"}>>, <<"t.parallel", {}>>, <<"t.run", {}>>, <<"table tests", {}>>, <<"table-driven",
  {}>>, <<"table_driven_tests", {}>>, <<"test cases", {}>>, <<"title case", {"case"}>>,
  <<"to lower", {}>>, <<"to upper", {}>>, <<"trim atoi", {"atoi"}>>, <<"triple pointer", {}>>,
  <<"two-value return", {"value"}>>, <<"type assertion", {"type"}>>, <<"type definition",
  {"type"}>>, <<"type inference", {"type"}>>, <<"upper case", {"case"}>>, <<"value receiver",
  {"value"}>>, <<"wait multiple", {}>>, <<"worker pool", {}>>, <<"z01.printrune", {}>>,
  <<"zero value", {"zero", "value"}>>, <<"zero_values", {"zero"}>>, <<"bazovyj sluchaj",
  {"bazovyj"}>>, <<"beskonechnyj cikl", {"cikl"}>>, <<"bukvy i cifry", {"bukvy", "cifry"}>>,
  <<"v verkhnij registr", {}>>, <<"v nizhnij registr", {}>>, <<"vechnaja gorutina",
  {"gorutina"}>>, <<"vozvrashhaj struktury", {"vozvrashhaj"}>>, <<"vyvod v sisteme", {"vyvod",
  "sisteme"}>>, <<"vyvod stroki", {"vyvod", "stroki"}>>, <<"gorutina ne zavershaetsja",
  {"gorutina", "ne"}>>, <<"gorutina svjaz'", {"gorutina"}>>, <<"dvuznachnye chisla", {"chisla"}>>,
  <<"delenie s ostatkom", {"delenie"}>>, <<"dlina stroki", {"dlina", "stroki"}>>,
  <<"idiomy imjon", {}>>, <<"izvlech' chislo", {"chislo"}>>, <<"indeks podstroki", {"indeks",
  "podstroki"}>>, <<"kvadratnyj koren'", {"kvadratnyj", "koren'"}>>, <<"komandnaja stroka",
  {"stroka"}>>, <<"kombinacii par", {"kombinacii"}>>, <<"kompozitnyj tip", {"tip"}>>,
  <<"kriticheskaja sekcija", {}>>, <<"malen'kie interfejsy", {"malen'kie", "interfejsy"}>>,
  <<"najti podstroku", {}>>, <<"neskol'ko kanalov", {"neskol'ko"}>>, <<"nulevoe znachenie",
  {"znachenie"}>>, <<"objortka oshibok", {}>>, <<"otlozhennyj vyzov", {"vyzov"}>>,
  <<"pervaja bukva", {"bukva"}>>, <<"pervaja runa", {}>>, <<"pervoklassnaja funkcija",
  {"funkcija"}>>, <<"pervyj simvol", {"pervyj"}>>, <<"peremennoe chislo", {"chislo"}>>,
  <<"pechat' cifr", {"pechat'", "cifr"}>>, <<"po indeksu", {"po"}>>, <<"poslednij simvol",
  {"poslednij"}>>, <<"poslednjaja runa", {}>>, <<"prinimaj interfejsy", {"interfejsy"}>>,
  <<"proverit' prime", {"proverit'"}>>, <<"proverit' prostoe", {"proverit'", "prostoe"}>>,
  <<"proverka prostogo", {"proverka", "prostogo"}>>, <<"proverka sushhestvovanija",
  {"proverka"}>>, <<"prostoe chislo", {"prostoe", "chislo"}>>, <<"pul vorkerov", {}>>,
  <<"razvorot stroki", {"stroki"}>>, <<"sistema schislenija", {"schislenija"}>>,
  <<"skleit' slajs strok", {"slajs", "strok"}>>, <<"skleit' stroki", {"stroki"}>>,
  <<"slajs diapazona", {"slajs", "diapazona"}>>, <<"slajs s make", {"slajs", "make"}>>,
  <<"sledujushhee prostoe", {"prostoe"}>>, <<"sortirovka cifr", {"cifr"}>>, <<"sravnenie strok",
  {"sravnenie", "strok"}>>, <<"staticheskij massiv", {"massiv"}>>, <<"stepen' rekursivno",
  {"stepen'"}>>, <<"stroki stdlib", {"stroki"}>>, <<"schjot bukv", {"bukv"}>>,
  <<"tablichnye testy", {"testy"}>>, <<"trojnoj ukazatel'", {"trojnoj", "ukazatel'"}>>,
  <<"trojnye cikly", {}>>, <<"ukazateli vkhod i vykhod", {"ukazateli"}>>,
  <<"ukazatel' na ukazatel'", {"ukazatel'", "na"}>>, <<"utechka gorutin", {"utechka",
  "gorutin"}>>, <<"funkcija kak parametr", {"funkcija"}>>, <<"cepochka oshibok", {}>>,
  <<"javljaetsja prostym", {"javljaetsja", "prostym"}>>}

\* Keywords with a character normalize takes out of every question: none ever
\* holds them, not even a question that quotes them.
Punctuated == {
  "%d", "%s", "%v", "%w", "&", "*", "***int", "*int", "+", "-er suffix", "...", ":=",
  "address-of", "compile-time", "don't share, communicate", "errors.as", "errors.is",
  "first-class function", "fmt.errorf", "go.mod", "higher-order function", "in-place",
  "io.reader", "io.writer", "n-ja runa", "ok-comma", "ok-comma idiom", "os.args", "t.parallel",
  "t.run", "table-driven", "two-value return", "z01.printrune"}

-----------------------------------------------------------------------------
(* Questions *)

Names == {PiscineExercises[i].name : i \in DOMAIN PiscineExercises}

KeywordsOf(entry) == {entry.keywords[i] : i \in DOMAIN entry.keywords}

Terms ==
  LET registry == PiscineExercises \o GoConcepts
  IN  UNION {{e.name, e.display} \cup KeywordsOf(e) : e \in {registry[i] : i \in DOMAIN registry}}

WordsTable ==
  [t \in Terms |-> IF \E p \in PhraseWords : p[1] = t
                     THEN (CHOOSE p \in PhraseWords : p[1] = t)[2]
                     ELSE {t}]

KeywordTable ==
  [t \in Terms |-> {p[1] : p \in {r \in PartOf : t \in r[2]}} \cup ({t} \ Punctuated)]

\* What normalize and tokenize leave of a question: its words.
WordsOf(q) == UNION {WordsTable[t] : t \in q}

\* The keywords that are part of its text, inside a longer word or not.
HeardIn(q) == UNION {KeywordTable[t] : t \in q}
=============================================================================
