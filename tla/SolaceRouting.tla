----------------------------- MODULE SolaceRouting -----------------------------
(***************************************************************************)
(* The table a Solace message is dispatched to: on_message of              *)
(* VortexMessageHandler (vortex/connectors/solace.py), which compares the  *)
(* beginning of two strings, against the subscriptions the broker matches  *)
(* level by level.                                                         *)
(*                                                                         *)
(* A level is a sequence of fragments, so that one level can begin with    *)
(* another; a topic is a sequence of levels; a pattern is the levels of a  *)
(* subscription and whether "/>" follows them.                             *)
(***************************************************************************)
EXTENDS Naturals, SequencesExt

Separator == <<"/">>
Star == <<"*">>

(* The string of some levels, as the sequence of its fragments.                *)
Text(levels) ==
    FlattenSeq([ i \in 1 .. 2 * Len(levels) - 1 |->
                 IF i % 2 = 1 THEN levels[(i + 1) \div 2] ELSE Separator ])

(* pattern.rstrip(">").rstrip("/") leaves the levels.                          *)
Prefix(pattern) == Text(pattern.levels)

\* Mutant: a pattern is looked for anywhere in the topic.
Route_Anywhere(patterns, topic) ==
    LET hits == { i \in DOMAIN patterns : \E suffix \in Suffixes(Text(topic)) :
                    IsPrefix(Prefix(patterns[i]), suffix) }
    IN  IF hits = {} THEN 0 ELSE Min(hits)

(* The table, by its place in the registry, of a message on that topic: the    *)
(* first pattern whose prefix begins the topic, and of the tables with that    *)
(* pattern the last, which overwrote the others in name_map; 0 for none.       *)
Route(patterns, topic) ==
    LET hits == { i \in DOMAIN patterns : IsPrefix(Prefix(patterns[i]), Text(topic)) }
    IN  IF hits = {} THEN 0
        ELSE Max({ i \in DOMAIN patterns : patterns[i] = patterns[Min(hits)] })

(* The broker's view: "*" stands for one level, ">" for one level or more.     *)
Matches(pattern, topic) ==
    LET n == Len(pattern.levels)
    IN  /\ IF pattern.rest THEN Len(topic) > n ELSE Len(topic) = n
        /\ \A i \in 1 .. n : pattern.levels[i] \in {Star, topic[i]}

(* Patterns that a comparison of prefixes tells apart: none begins another,    *)
(* and none has a "*", which the comparison takes literally.                   *)
Distinguishable(patterns) ==
    /\ \A i, j \in DOMAIN patterns :
         i # j => ~IsPrefix(Prefix(patterns[i]), Prefix(patterns[j]))
    /\ \A i \in DOMAIN patterns : ~Contains(patterns[i].levels, Star)

================================================================================
