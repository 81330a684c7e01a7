-------------------------- MODULE FingerprintStore --------------------------
(***************************************************************************)
(* The fingerprint table as the gate and the command line see it.  The     *)
(* table itself lives in the store library; what is written here is what   *)
(* the calls in src/ rely on, as its tests pin it down                     *)
(* (gatekit_upgrade_test.go, approval_scopes_test.go, main_test.go).       *)
(*                                                                         *)
(* A table is a function d from fingerprints to entries.  An entry's scope *)
(* is the set of source addresses its approval admits; Addrs stands for an *)
(* approval without ranges.                                                *)
(***************************************************************************)
EXTENDS Integers, FiniteSets

CONSTANTS
  Fps,      \* fingerprints
  Addrs,    \* client source addresses
  Limit     \* max_fingerprints of the serving process, -1 for unlimited

ASSUME LimitAssumption == Limit \in Nat \cup {-1}

Entry == [status : {"absent", "pending", "blocked", "approved"},
          scope  : SUBSET Addrs]

NoEntry == [status |-> "absent", scope |-> Addrs]

Table == [Fps -> Entry]

Known(d)    == {f \in Fps : d[f].status # "absent"}
Approved(d) == {f \in Fps : d[f].status = "approved"}

-----------------------------------------------------------------------------
(***************************************************************************)
(* The tables PruneToLimit may leave.  Approved entries all stay, even     *)
(* above the limit; of the others the oldest go first.  Age is not kept    *)
(* here: any choice of victims is allowed, except that an entry in newest  *)
(* (the one just inserted) outlives the rest.                              *)
(***************************************************************************)
Trims(d, newest) ==
  LET unapproved == Known(d) \ Approved(d)
      room == Limit - Cardinality(Approved(d))
      Keeping(kept) ==
        [f \in Fps |-> IF f \in Approved(d) \cup kept THEN d[f] ELSE NoEntry]
  IN  IF Limit = -1 \/ Cardinality(Known(d)) <= Limit THEN {d}
      ELSE IF room <= 0 THEN {Keeping({})}
      ELSE {Keeping(kept) : kept \in {k \in SUBSET unapproved :
                                       /\ Cardinality(k) = room
                                       /\ newest \cap unapproved \subseteq k}}

\* The table with f recorded: an unknown fingerprint enters blocked or pending
\* as the caller asks, a known one keeps its status.
Recorded(d, f, blockUnknown) ==
  IF d[f].status # "absent" THEN d
  ELSE [d EXCEPT ![f] = [status |-> IF blockUnknown THEN "blocked" ELSE "pending",
                         scope  |-> Addrs]]

\* Observe: the insertion and the cap are one transaction.
Observed(d, f, blockUnknown) ==
  IF d[f].status # "absent" THEN {d} ELSE Trims(Recorded(d, f, blockUnknown), {f})

-----------------------------------------------------------------------------
\* SetStatus and UpsertStatus refuse to widen a scoped approval.  Whether a
\* blocked entry keeps its scope is the library's affair: both are allowed.
MaySetStatus(d, f, status) == status = "approved" => d[f].scope = Addrs

Ranked(d, f, status) ==
  {[d EXCEPT ![f] = [status |-> status, scope |-> scope]] :
     scope \in {d[f].scope, Addrs}}

\* ApplyDecisions creates or replaces the entry, scope included.
Decided(d, f, status, scope) == [d EXCEPT ![f] = [status |-> status, scope |-> scope]]

Deleted(d, fs) == [f \in Fps |-> IF f \in fs THEN NoEntry ELSE d[f]]
=============================================================================
