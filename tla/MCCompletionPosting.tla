------------------------ MODULE MCCompletionPosting -------------------------
(***************************************************************************)
(* A small instance of CompletionPosting for TLC.                          *)
(***************************************************************************)
EXTENDS CompletionPosting, TLC

ThreadsAreAlike == Permutations(Threads)

(* Bound: two requests at a time, and two pieces of scrap.  Only a         *)
(* complete operation is scheduled, once, and only if no requests have     *)
(* overlapped so far; from then on they come one after another, and there  *)
(* is one piece of scrap.                                                  *)
Active == {s \in Sessions : session[s].pc # "idle"}
Scrap(s) == job.scrapped + session[s].bad

SmallInstance ==
    /\ Cardinality(Active) <= 2
    /\ \A s \in Sessions :
          /\ Scrap(s) <= 2
          /\ session[s].kind = "schedule" =>
                session[s].seen.op = "complete" /\ ~session[s].seen.reopened /\ ~overlapped
    /\ job.reopened =>
          /\ ~overlapped /\ Cardinality(Active) <= 1
          /\ \A s \in Sessions : Scrap(s) <= 1
=============================================================================
