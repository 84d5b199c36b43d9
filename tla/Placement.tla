----------------------------- MODULE Placement -----------------------------
(***************************************************************************)
(* What one run of the scheduler promises, without caches, pages, lookups  *)
(* or machine words: requests are answered in order, each once.  A request *)
(* is placed on a node that suits it and still has its capacity in a       *)
(* ledger of what is left, from which it is then taken; or it is delegated *)
(* to the bot of the farm it names; or the run gives up.                   *)
(***************************************************************************)
EXTENDS Integers, Sequences

CONSTANTS Node, Farm, NoFarm, Unit, Info, Total, RequestLists

VARIABLES
  asked,    \* the list of requests
  answered, \* how many of them have a node
  placed,   \* name -> node
  left,     \* known node -> capacity left, by unit
  verdict   \* "open", "done" or "failed"

promise == <<asked, answered, placed, left, verdict>>

Current == asked[answered + 1]

\* The nodes any request already has.
InUse == {placed[nm] : nm \in DOMAIN placed}

SuitsCurrent(n) ==
  /\ Current.farm # NoFarm => Info[n].farm = Current.farm
  /\ Current.domain => Info[n].domain
  /\ Current.dedicated => Info[n].dedicated
  /\ Current.certified => Info[n].certified
  /\ n \notin Current.exclude
  /\ Current.distinct => n \notin InUse

Answer(n) ==
  /\ verdict = "open" /\ answered < Len(asked)
  /\ SuitsCurrent(n)
  /\ placed' = [nm \in DOMAIN placed \cup {Current.name} |->
                  IF nm = Current.name THEN n ELSE placed[nm]]
  /\ answered' = answered + 1
  /\ UNCHANGED <<asked, verdict>>

Place ==
  /\ answered < Len(asked)
  /\ \E n \in DOMAIN left :
    /\ \A u \in Unit : Current.cap[u] <= left[n][u]
    /\ Answer(n)
    /\ left' = [left EXCEPT ![n] = [u \in Unit |-> @[u] - Current.cap[u]]]

Delegate ==
  /\ answered < Len(asked)
  /\ Current.farm # NoFarm
  /\ \E n \in Node : Answer(n)
  /\ UNCHANGED left

\* More of the grid is learnt; what is known of the rest stays.
Learn ==
  /\ verdict = "open" /\ answered < Len(asked)
  /\ DOMAIN left \subseteq DOMAIN left' /\ DOMAIN left' \subseteq Node
  /\ \A n \in DOMAIN left' :
       IF n \in DOMAIN left
       THEN left'[n] = left[n]
       ELSE \A u \in Unit : 0 <= left'[n][u] /\ left'[n][u] <= Total[n][u]
  /\ UNCHANGED <<asked, answered, placed, verdict>>

Complete ==
  /\ verdict = "open" /\ answered = Len(asked)
  /\ verdict' = "done"
  /\ UNCHANGED <<asked, answered, placed, left>>

GiveUp ==
  /\ verdict = "open" /\ answered < Len(asked)
  /\ verdict' = "failed"
  /\ UNCHANGED <<asked, answered, placed, left>>

Init ==
  /\ asked \in RequestLists /\ answered = 0
  /\ left = [n \in {} |-> 0] /\ verdict = "open"

Next == Place \/ Delegate \/ Learn \/ Complete \/ GiveUp

Spec == Init /\ [][Next]_promise
============================================================================
