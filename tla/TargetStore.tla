----------------------------- MODULE TargetStore -----------------------------
(***************************************************************************)
(* What saved targets promise: a table from names to targets that changes  *)
(* by what a client asked for, all of it or nothing, one client at a time. *)
(* Once the table is damaged nothing more is promised.                     *)
(***************************************************************************)
CONSTANTS Clients, Names, Targets, Nothing

VARIABLES
    store,    \* name -> target, for the names saved
    asked,    \* what each client asks for: Nothing, or a request
    damaged

vars == <<store, asked, damaged>>

Tables   == UNION {[S -> Targets] : S \in SUBSET Names}
Requests == [op : {"save"}, name : Names, target : Targets]
            \cup [op : {"delete"}, name : Names]

Init ==
    /\ store \in Tables
    /\ asked = [c \in Clients |-> Nothing]
    /\ damaged = FALSE

Ask(c) ==
    /\ asked[c] = Nothing
    /\ asked'[c] \in Requests
    /\ asked' = [asked EXCEPT ![c] = asked'[c]]
    /\ UNCHANGED <<store, damaged>>

Put(name, target) ==
    store' = [n \in DOMAIN store \cup {name} |-> IF n = name THEN target ELSE store[n]]

Remove(name) == store' = [n \in DOMAIN store \ {name} |-> store[n]]

Done(c) == asked' = [asked EXCEPT ![c] = Nothing]

Commit(c) ==
    /\ asked[c] # Nothing
    /\ IF asked[c].op = "save" THEN Put(asked[c].name, asked[c].target)
                               ELSE Remove(asked[c].name)
    /\ Done(c)
    /\ UNCHANGED damaged

Cancel(c) ==
    /\ Done(c)
    /\ UNCHANGED <<store, damaged>>

Damage ==
    /\ damaged' = TRUE
    /\ store' \in Tables
    /\ UNCHANGED asked \/ \E c \in Clients : Done(c)

Next ==
    \/ \E c \in Clients : Ask(c) \/ Commit(c) \/ Cancel(c)
    \/ Damage

Spec == Init /\ [][Next]_vars
=============================================================================
