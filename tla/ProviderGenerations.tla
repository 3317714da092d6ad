------------------------ MODULE ProviderGenerations ------------------------
(***************************************************************************)
(* What the slot of a plugin provider promises about the generations of    *)
(* the provider, without leases, teardowns and commands: a generation is   *)
(* prepared, may serve once, and is then retired for good, and at most one *)
(* generation serves at a time.                                            *)
(***************************************************************************)
CONSTANT Generations

VARIABLE life

GenerationLife == {"absent", "preparing", "serving", "retiring", "retired", "failed"}

Init == life = [g \in Generations |-> "absent"]

Prepare(g) ==
  /\ life[g] = "absent"
  /\ life' = [life EXCEPT ![g] = "preparing"]

\* The new generation serves in the very step in which the old one stops.
Swap(g) ==
  /\ life[g] = "preparing"
  /\ life' = [h \in Generations |-> IF h = g THEN "serving"
                                    ELSE IF life[h] = "serving" THEN "retiring" ELSE life[h]]

Fail(g) ==
  /\ life[g] \in {"preparing", "serving"}
  /\ life' = [life EXCEPT ![g] = "failed"]

Withdraw(g) ==
  /\ life[g] = "serving"
  /\ life' = [life EXCEPT ![g] = "retiring"]

Retired(g) ==
  /\ life[g] = "retiring"
  /\ life' = [life EXCEPT ![g] = "retired"]

Next == \E g \in Generations : Prepare(g) \/ Swap(g) \/ Fail(g) \/ Withdraw(g) \/ Retired(g)

Spec == Init /\ [][Next]_life
=============================================================================
