------------------------------- MODULE Knowledge -------------------------------
(***************************************************************************)
(* The search that finds reference entries for a student's question, and   *)
(* the decision to ask back instead of answering (knowledge/knowledge.go). *)
(*                                                                         *)
(* Of a question the search sees its words, and which keywords are part of *)
(* its text.                                                               *)
(***************************************************************************)
EXTENDS Integers, Sequences, FiniteSets

CONSTANTS
  Exercises,  \* the exercises of the reference base, in registry order
  Concepts    \* its concepts

EntryType == [name : STRING, display : STRING, keywords : Seq(STRING), description : Seq(STRING)]

ASSUME RegistryAssumption == Exercises \in Seq(EntryType) /\ Concepts \in Seq(EntryType)

VARIABLES
  words,   \* the words of the question
  scores   \* what each entry of the registry scores for it

searchVars == <<words, scores>>

Registry == Exercises \o Concepts

\* Points for every element of a list that was found, each time it occurs.
Credit(points, list, found) == points * Cardinality({n \in DOMAIN list : list[n] \in found})

\* Mutant of NameHit: a name is matched like a keyword, inside other words.
NameHeard(entry, said, heard) == IF entry.name \in said \cup heard THEN 100 ELSE 0

\* A name counts only as a word of its own ("point" is not asked for by "pointone").
NameHit(entry, said, heard) == IF entry.name \in said THEN 100 ELSE 0

\* scoreEntry: the names, the keywords heard and the words of the description said.
Score(entry, said, heard) ==
  NameHit(entry, said, heard)
  + (IF entry.display # entry.name /\ entry.display \in said THEN 50 ELSE 0)
  + Credit(10, entry.keywords, heard)
  + Credit(2, entry.description, said)

\* A question is asked.
SearchInit(said, heard) ==
  /\ words = said
  /\ scores = [i \in DOMAIN Registry |-> Score(Registry[i], said, heard)]

\* Mutant of Ahead: ties fall out in the order of an unstable sort.
AheadUnstable(i, j) == scores[i] > scores[j] \/ (scores[i] = scores[j] /\ i > j)

\* sort.SliceStable by descending score.
Ahead(i, j) == scores[i] > scores[j] \/ (scores[i] = scores[j] /\ i < j)

\* The place of entry i among those of S, counted from 0.
Rank(i, S) == Cardinality({j \in S : Ahead(j, i)})

\* The entries of S, best first.
InOrder(S) == [k \in 1..Cardinality(S) |-> CHOOSE i \in S : Rank(i, S) = k - 1]

\* The best entries, best first, and no entry without a point.
Search(maxResults) ==
  LET hits == {i \in DOMAIN scores : scores[i] > 0}
  IN  [k \in {n \in 1..Cardinality(hits) : n <= maxResults} |-> InOrder(hits)[k]]

IsExercise(i) == i <= Len(Exercises)

directNameScore == 100
ambiguityFloor == 10

\* The exercises the student is asked to choose from, or none: the question is
\* answered at once. The first result with fewer points than the top ends the tie.
Disambiguate ==
  LET matches == Search(5)
      top     == scores[matches[1]]
      tie     == {n \in DOMAIN matches : \A h \in 1..n : scores[matches[h]] = top}
      tied    == InOrder({i \in {matches[n] : n \in tie} : IsExercise(i)})
  IN  IF /\ Cardinality(DOMAIN matches) >= 2
         /\ top \in ambiguityFloor..(directNameScore - 1)
         /\ Len(tied) >= 2
        THEN tied ELSE <<>>

-----------------------------------------------------------------------------
(* Properties *)

\* The entries the question asks for by name.
Named == {i \in DOMAIN Registry : Registry[i].name \in words}

\* Entries asked for by name come first: the reference block the model is shown has room
\* for two (ai_service.go:512), and as many of the named ones as fit stand first in it,
\* whatever keywords their names contain. Of three that are named one is left out, for
\* another name and not for a keyword. Ten keywords of one entry would outweigh a name:
\* the questions asked here mention fewer.
NamedReferenced ==
  LET shown == Search(2)
  IN  \A k \in 1..2 : k <= Cardinality(Named) => k \in DOMAIN shown /\ shown[k] \in Named

\* The student is asked back only when nothing was named, and then to choose among
\* exercises no entry of the whole registry beats, in registry order, starting with the
\* first of them: two runs of the same question offer the same choice, although only
\* five results were looked at.
ChoiceFair ==
  LET offered == Disambiguate
      best    == {i \in DOMAIN Exercises : \A j \in DOMAIN Registry : scores[j] <= scores[i]}
  IN  offered # <<>> =>
        /\ Named = {}
        /\ Len(offered) >= 2
        /\ \A k \in DOMAIN offered :
              /\ offered[k] \in best
              /\ {i \in best : i < offered[k]} = {offered[h] : h \in 1..(k - 1)}
=============================================================================
