-------------------------------- MODULE Replies --------------------------------
(***************************************************************************)
(* How an answer of the AI mentor reaches the chat (handlers/ask.go): the  *)
(* HTML rendering is cut into messages Telegram accepts and sent one after *)
(* another; the first one that is refused makes the handler send the whole *)
(* answer once more, as plain text and in one piece.                       *)
(*                                                                         *)
(* A text is its length and the positions behind its newlines. The plain   *)
(* answer is never longer than its rendering.                              *)
(***************************************************************************)
EXTENDS Integers, Sequences, FiniteSetsExt

CONSTANT Limit  \* runes of one message, 4096 in the code and at Telegram

ASSUME LimitAssumption == Limit \in Nat \ {0}

VARIABLES
  text,    \* the rendering, and whether the plain answer fits one message
  at,      \* how far the rendering has been sent
  shown,   \* the chunks the student has received, as <<from, to>>
  plain,   \* the student has received the plain answer
  outcome  \* of askAI: "none" while it runs

replyVars == <<text, at, shown, plain, outcome>>

\* Texts of up to n runes.
Texts(n) ==
  UNION {{t \in [len : {l}, breaks : SUBSET (1..l), plainFits : BOOLEAN] :
            l <= Limit => t.plainFits} : l \in 0..n}

ReplyInit(texts) ==
  /\ text \in texts
  /\ at = 0 /\ shown = <<>> /\ plain = FALSE /\ outcome = "none"

\* Mutant of CutAfter: the newline itself no longer fits.
CutBehind(i) ==
  LET near == {b \in text.breaks : i + (Limit * 3) \div 4 < b /\ b <= i + Limit} IN
  IF i + Limit >= text.len THEN text.len
  ELSE IF near # {} THEN Max(near) + 1
  ELSE i + Limit

\* splitForTelegram: where the chunk that begins at i ends. Behind the last newline
\* of its last quarter, if there is one.
CutAfter(i) ==
  LET near == {b \in text.breaks : i + (Limit * 3) \div 4 < b /\ b <= i + Limit} IN
  IF i + Limit >= text.len THEN text.len
  ELSE IF near # {} THEN Max(near)
  ELSE i + Limit

\* Telegram takes messages of 1 to Limit runes.
Fits(n) == n \in 1..Limit

Delivers == shown' = Append(shown, <<at, CutAfter(at)>>)

\* A chunk is accepted. Behind the last one askAI returns nil.
Accepted ==
  /\ outcome = "none" /\ Fits(CutAfter(at) - at)
  /\ Delivers
  /\ at' = CutAfter(at)
  /\ outcome' = IF at' = text.len THEN "nil" ELSE "none"
  /\ UNCHANGED <<text, plain>>

\* Mutant of Refused: a chunk that was refused is only logged.
Skipped ==
  /\ outcome = "none"
  /\ Delivers \/ UNCHANGED shown
  /\ at' = CutAfter(at)
  /\ outcome' = IF at' = text.len THEN "nil" ELSE "none"
  /\ UNCHANGED <<text, plain>>

\* A chunk is refused - a tag cut in half, a lost connection, nothing to show - or
\* its acceptance is lost. The plain answer is sent instead.
Refused ==
  /\ outcome = "none"
  /\ (Fits(CutAfter(at) - at) /\ Delivers) \/ UNCHANGED shown
  /\ \/ text.len > 0 /\ text.plainFits /\ plain' = TRUE /\ outcome' = "nil"
     \/ plain' \in {FALSE, text.len > 0 /\ text.plainFits} /\ outcome' = "error"
  /\ UNCHANGED <<text, at>>

ReplyNext == Accepted \/ Refused

-----------------------------------------------------------------------------
(* Properties *)

\* However a text is cut, what is sent next is a message Telegram can take (it is not
\* empty and not too long, or the answer is never shown), and what the student has
\* received is the text in order, without a gap and without an overlap
\* (ask.go:157-194).
ChunksFit ==
  /\ outcome = "none" /\ text.len > 0 => Fits(CutAfter(at) - at)
  /\ \A k \in DOMAIN shown :
        /\ Fits(shown[k][2] - shown[k][1])
        /\ shown[k][1] = IF k = 1 THEN 0 ELSE shown[k - 1][2]

\* "So the student still receives the answer" (ask.go:88-89), as far as it goes: askAI
\* reports success only when the student has the whole answer, as the last chunk of
\* all or as plain text. An answer that is too long for one message and cut inside a
\* tag is lost with an error, and an empty one always is.
AnswerArrives ==
  outcome = "nil" => plain \/ (shown # <<>> /\ shown[Len(shown)][2] = text.len)
=============================================================================
