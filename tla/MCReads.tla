-------------------------------- MODULE MCReads --------------------------------
(* Three parts that only read: the search of the knowledge base, the delivery  *)
(* of an answer and the listings. They do not meet: while one is looked at, the *)
(* other two rest where they began.                                            *)
EXTENDS Catalogue, Knowledge, Replies, Listing, FiniteSetsExt

CONSTANTS
  MaxRunes,     \* the longest rendering
  AskedLimits   \* page limits a reader asks for

\* A limit asked for is a positive number, or the request is refused.
ASSUME ReadsAssumption ==
  MaxRunes \in Nat /\ AskedLimits # {} /\ AskedLimits \subseteq Nat \ {0}

VARIABLE part  \* the part looked at

vars == <<part, searchVars, replyVars, listVars>>

\* How many entries have a term among their keywords.
Sharing == [k \in Terms |-> Cardinality({i \in DOMAIN Registry : k \in KeywordsOf(Registry[i])})]

SharedKeywords(several) == {k \in Terms : Sharing[k] >= several}

\* The concepts a question can name; an underscore is taken out of every question.
ConceptNames == {n \in {GoConcepts[i].name : i \in DOMAIN GoConcepts} : n \in WordsOf({n})}

\* Those of them that score most for their own name: it contains two of their keywords.
LoudConcepts ==
  {n \in ConceptNames : \E i \in DOMAIN GoConcepts :
      GoConcepts[i].name = n /\ Cardinality(KeywordsOf(GoConcepts[i]) \cap HeardIn({n})) >= 2}

\* What a question may mention beside a name: another name, a keyword of several
\* entries, two concepts that score most, two of the keywords that most entries share.
Mentions ==
  {{t} : t \in Names \cup ConceptNames \cup SharedKeywords(2)}
  \cup kSubset(2, LoudConcepts) \cup kSubset(2, SharedKeywords(8))

Asked(question) == SearchInit(WordsOf(question), HeardIn(question))

\* Every term alone, and every name with whatever may be mentioned beside it.
AnyQuestion ==
  \/ \E t \in Terms : Asked({t})
  \/ \E n \in Names \cup ConceptNames, m \in Mentions : Asked({n} \cup m)

NoRowYet == [r \in RowId |-> Ghost]
\* The first n rows are there.
Stamps == UNION {{[r \in RowId |-> IF r \in DOMAIN f THEN f[r] ELSE Ghost] :
                     f \in [{r \in RowId : r <= n} -> Instant]} : n \in {0} \cup RowId}

Init ==
  /\ part \in {"search", "reply", "list"}
  /\ IF part = "search" THEN AnyQuestion ELSE Asked({})
  /\ ReplyInit(IF part = "reply" THEN Texts(MaxRunes) ELSE Texts(0))
  /\ IF part = "list" THEN ListInit(Stamps, AskedLimits)
                      ELSE ListInit({NoRowYet}, {CHOOSE l \in AskedLimits : TRUE})

Next ==
  \/ part = "reply" /\ ReplyNext /\ UNCHANGED <<part, searchVars, listVars>>
  \/ part = "list" /\ ListNext /\ UNCHANGED <<part, searchVars, replyVars>>

Spec == Init /\ [][Next]_vars

\* NamedReferenced of Knowledge, for the question asked.
NamedAreReferenced == part = "search" => NamedReferenced

\* ChoiceFair of Knowledge, for the question asked.
ChoicesAreFair == part = "search" => ChoiceFair
=============================================================================
