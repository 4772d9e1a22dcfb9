----------------------------- MODULE MCServices -----------------------------
(* An instance of Services for TLC. *)
EXTENDS Services, TLC

CONSTANTS i1, i2, n1, n2, day, t0

MCTableIds == {i1, i2}
MCCarrierNames == {n1, n2}
MCShiftTypes == {day}
MCMachineSlots == {t0}
MCImports == {t0}

\* Of the configured stations only those with two ids are told apart.
MCStoredLists == {{[id |-> 2, prefixed |-> TRUE]}}
MCDeployEnvs == {None, {[id |-> 1, prefixed |-> FALSE]}}

\* A client that calls an alarm sent itself, and one that takes an acknowledgement
\* back.  Other statuses are not told apart, and a PATCH that acknowledges does what
\* acknowledge does.
MCPostBodies == [delivery : {"pending", "sent"}]
MCPatchBodies ==
  {[delivery |-> "sent", ack |-> "keep"], [delivery |-> "keep", ack |-> "clear"]}

\* No definition tells the requests or the uuids apart.
Symmetric == Permutations(Slots) \cup Permutations(MCTableIds)

\* Bound: of the second name, the page of the carriers and their flags one is in use
\* at a time, the flags with one carrier.
Seen == {tRows[i] : i \in TableIds} \cup {tJob[s] : s \in Slots}
NamesSeen == excused \cup {x.name : x \in {y \in Seen : y # Absent /\ "name" \in DOMAIN y}}
SecondName == ~(NamesSeen \subseteq {n1})
PageInUse == listed \cup told # {} \/ fetching # Carrier!Page!NoFetch
FlagsInUse ==
  \/ \E i \in TableIds : tRows[i] # Absent /\ tRows[i].flags # Carrier!NewCarrier([name |-> n1]).flags
  \/ \E s \in Slots : tJob[s] # Absent /\ tJob[s].handler \in {"error", "advanceManual", "handshake"}
OneInUse ==
  /\ SecondName => ~PageInUse /\ ~FlagsInUse
  /\ PageInUse => ~FlagsInUse
  /\ FlagsInUse => Cardinality(tUsed) = 1
\* Bound: of an alarm that a client called sent, neither the page nor a PATCH that
\* takes an acknowledgement back is looked at.
MoreThanSent ==
  \/ coming # Absent \/ shown # NothingListed
  \/ \E s \in Slots : job[s] # Absent /\ TakesBack(job[s])
MCBound ==
  /\ part = "carriers" => OneInUse
  /\ part = "alarms" /\ MoreThanSent => claimed = {}
=============================================================================
