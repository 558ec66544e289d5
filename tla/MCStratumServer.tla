-------------------------- MODULE MCStratumServer ---------------------------
(* Few connections, jobs and solutions; the bounds are in the cfg files. *)
EXTENDS StratumServer, TLC

(* With the first template a solution is a block on the first connection   *)
(* and a share on the others; with a later one it is still a share on the  *)
(* first connection and good for nothing on the others.                    *)
MCGrade ==
  [w \in Work |-> CASE w.tpl = 1 /\ w.en1 = 1 -> "block"
                    [] w.tpl = 1 /\ w.en1 > 1 -> "share"
                    [] w.tpl > 1 /\ w.en1 = 1 -> "share"
                    [] OTHER -> "low"]

(* the first solution in two spellings *)
MCDecode == [s \in Solutions |-> CHOOSE first \in Solutions : TRUE]

(* bound: only the first connection uses the other spelling, for one job *)
MCOneSpeller ==
  \A c \in Conns :
    key[c] # None /\ key[c].sol # Decode[key[c].sol] => en1[c] = 1 /\ key[c].id = 1

MCSymmetry == Permutations(Conns)
=============================================================================
