------------------------------- MODULE ResetGate -------------------------------
(***************************************************************************)
(* What the harness does to the targets around its runs: it restarts them, *)
(* runs their reset command, compares the digest the command prints with   *)
(* an earlier one, refuses to open a run that does not pass, resets them   *)
(* once more afterwards, and keeps the digests in the run's record, where  *)
(* later runs find them.                                                   *)
(* Sources: runners/_lib/reset.py, runners/orchestrate.py (_reset,         *)
(* _reference_digests, _digests_after, _import_into), dockerctl.py.        *)
(*                                                                         *)
(* A target's state is what its disk holds and what the processes of its   *)
(* services hold; the digest is that of the disk.  A reset command may     *)
(* fail, and one that exits 0 may have left something behind.              *)
(***************************************************************************)
EXTENDS Integers, Sequences, FiniteSets, FiniteSetsExt

CONSTANTS
  Apps,      \* targets, numbered in the order of apps.yaml
  Pinnable,  \* those that may have an expected_digest there
  Services,  \* the containers of all targets
  Restarted, \* the services of each that are restarted; {} is restart_services: []
  MaxRuns    \* bound: runs of the harness that open

ASSUME ResetAssumption ==
  /\ Apps \subseteq Nat /\ IsFiniteSet(Apps)
  /\ Pinnable \subseteq Apps /\ Restarted \in [Apps -> SUBSET Services] /\ MaxRuns \in Nat

VARIABLES
  pinned,  \* targets with an expected_digest, which is that of the seeded state
  phase,   \* where the harness is
  run,     \* runs opened so far
  scope,   \* --app
  skip,    \* --skip-reset
  left,    \* targets still to be reset
  before,  \* the digests printed so far
  bad,     \* a check of some target failed
  disk,    \* what each target's storage holds
  memory,  \* services in whose processes there is residue
  records, \* results/*/run.json in the order of their mtime
  unread,  \* history: those this reset has not restarted, with no StartedAt to tell
  imported \* history: has --import-into written a record again

vars == <<pinned, phase, run, scope, skip, left, before, bad, disk, memory, records, unread,
          imported>>
targets == <<disk, memory>>

States == {"seeded", "residue"}
None == [a \in {} |-> "none"]
PartialTo(S) == UNION {[D -> S] : D \in SUBSET Apps}
Current == Min(left)
With(f, a, v) == [b \in DOMAIN f \cup {a} |-> IF b = a THEN v ELSE f[b]]

TypeOK ==
  /\ pinned \subseteq Pinnable /\ phase \in {"idle", "reset", "verified", "scan", "after"}
  /\ run \in 0..MaxRuns /\ scope \subseteq Apps /\ left \subseteq scope
  /\ skip \in BOOLEAN /\ bad \in BOOLEAN /\ imported \in BOOLEAN
  /\ before \in PartialTo(States)
  /\ disk \in [Apps -> States] /\ memory \subseteq Services /\ unread \subseteq Services
  /\ records \in Seq([run : 1..MaxRuns, digests : PartialTo(States)])

Init ==
  /\ pinned \in SUBSET Pinnable
  /\ phase = "idle" /\ run = 0 /\ scope = {} /\ skip = FALSE /\ left = {}
  /\ before = None /\ bad = FALSE
  /\ disk \in [Apps -> States] /\ memory \in SUBSET Services /\ unread = {}
  /\ records = <<>> /\ imported = FALSE

Leave ==
  /\ phase' = "idle" /\ scope' = {} /\ skip' = FALSE /\ left' = {}
  /\ before' = None /\ bad' = FALSE /\ unread' = {}
-----------------------------------------------------------------------------
Begin ==
  /\ phase = "idle" /\ run < MaxRuns
  /\ scope' \in (SUBSET Apps) \ {{}}
  /\ \/ phase' = "reset" /\ left' = scope' /\ UNCHANGED skip
     \/ phase' = "verified" /\ skip' = TRUE /\ UNCHANGED left
  /\ UNCHANGED <<pinned, run, before, bad, targets, records, unread, imported>>

(* Mutant: the records are gone through from the oldest.                   *)
LookedUpOldest ==
  LET enough == {k \in DOMAIN records : pinned \cap scope # {} \/ records[k].digests # None}
  IN {k \in enough : \A j \in enough : k <= j}

(* The record that the search ends at, going back from the newest: the     *)
(* first that leaves it with any digest at all, so the very first if a     *)
(* target in scope is pinned.                                              *)
LookedUp ==
  LET enough == {k \in DOMAIN records : pinned \cap scope # {} \/ records[k].digests # None}
  IN {k \in enough : \A j \in enough : j <= k}

(* _reference_digests(): a pin wins.                                       *)
References ==
  [a \in (pinned \cap scope) \cup UNION {DOMAIN records[k].digests : k \in LookedUp} |->
     IF a \in pinned THEN "seeded" ELSE records[CHOOSE k \in LookedUp : TRUE].digests[a]]

(* Mutant: nobody looks whether a target has restarted.                    *)
PassesUnmoved(moved, digest) ==
  digest # "none" /\ (Current \in DOMAIN References => digest = References[Current])

(* Whether all the checks of a reset whose command exited 0 have passed.   *)
Passes(moved, digest) ==
  /\ moved /\ digest # "none"
  /\ Current \in DOMAIN References => digest = References[Current]

(* compose_restart(): `real` are the services it has restarted, `dark`     *)
(* those whose StartedAt before could not be read, which counts as one     *)
(* that has moved on (_restart_advanced).  The one after may be unreadable *)
(* or not later all the same, if anything is restarted.                    *)
Restart(moved) ==
  \E real \in SUBSET Restarted[Current], dark \in SUBSET Restarted[Current] :
    /\ moved => Restarted[Current] \subseteq real \cup dark
    /\ ~moved => Restarted[Current] # {}
    /\ memory' = memory \ real
    /\ unread' = unread \cup (dark \ real)

(* wait_healthy() gives up, and the command is not run.                    *)
ResetUnhealthy ==
  /\ phase = "reset" /\ left # {} /\ Restarted[Current] # {}
  /\ \E moved \in BOOLEAN : Restart(moved)
  /\ left' = left \ {Current} /\ bad' = TRUE
  /\ UNCHANGED <<pinned, phase, run, scope, skip, before, disk, records, imported>>

(* The command exits other than 0, having done part of its work perhaps.   *)
ResetFails ==
  /\ phase = "reset" /\ left # {}
  /\ \E moved \in BOOLEAN : Restart(moved)
  /\ \E d \in States : disk' = [disk EXCEPT ![Current] = d]
  /\ left' = left \ {Current} /\ bad' = TRUE
  /\ UNCHANGED <<pinned, phase, run, scope, skip, before, records, imported>>

(* It exits 0 and prints the digest, or nothing that looks like one.       *)
(* Whatever comes of it, the other targets are reset as well.              *)
ResetRuns ==
  /\ phase = "reset" /\ left # {}
  /\ \E moved, prints \in BOOLEAN, d \in States : LET digest == IF prints THEN d ELSE "none" IN
       /\ Restart(moved)
       /\ disk' = [disk EXCEPT ![Current] = d]
       /\ before' = IF digest = "none" THEN before ELSE With(before, Current, digest)
       /\ bad' = (bad \/ ~Passes(moved, digest))
  /\ left' = left \ {Current}
  /\ UNCHANGED <<pinned, phase, run, scope, skip, records, imported>>

(* ResetError, or docker that raised.                                      *)
Refuse ==
  /\ phase = "reset" /\ (left = {} => bad) /\ Leave
  /\ UNCHANGED <<pinned, run, targets, records, imported>>

Verified ==
  /\ phase = "reset" /\ left = {} /\ ~bad /\ phase' = "verified"
  /\ UNCHANGED <<pinned, run, scope, skip, left, before, bad, targets, records, unread, imported>>

Open ==
  /\ phase = "verified" /\ phase' = "scan" /\ run' = run + 1 /\ unread' = {}
  /\ UNCHANGED <<pinned, scope, skip, left, before, bad, targets, records, imported>>

(* Anything that ends the harness before it has a record to write, or      *)
(* leaves a record that cannot be parsed.                                  *)
Abandon ==
  /\ phase \in {"verified", "scan", "after"} /\ Leave
  /\ UNCHANGED <<pinned, run, targets, records, imported>>

(* The tool at work on any target, in scope or not, and any service.       *)
Scan ==
  /\ phase = "scan"
  /\ \/ \E a \in Apps : disk' = [disk EXCEPT ![a] = "residue"] /\ UNCHANGED memory
     \/ \E c \in Services : memory' = memory \cup {c} /\ UNCHANGED disk
  /\ UNCHANGED <<pinned, phase, run, scope, skip, left, before, bad, records, unread, imported>>

(* _digests_after(): the command once more; what it prints is not checked. *)
ResetAfter ==
  /\ phase = "scan" /\ phase' = "after"
  /\ IF skip THEN UNCHANGED disk
     ELSE disk' \in {[a \in Apps |-> IF a \in scope THEN d[a] ELSE disk[a]] : d \in [scope -> States]}
  /\ UNCHANGED <<pinned, run, scope, skip, left, before, bad, memory, records, unread, imported>>

WriteRecord ==
  /\ phase = "after" /\ Leave
  /\ records' = Append(records, [run |-> run, digests |-> before])
  /\ UNCHANGED <<pinned, run, targets, imported>>

(* --import-into a run that has a directory: its record is written again,  *)
(* with the digests it had, if there is one, or else without.              *)
ImportInto(r) ==
  /\ phase = "idle" /\ r \in 1..run
  /\ \/ \E k \in DOMAIN records :
          /\ records[k].run = r
          /\ records' = Append(SubSeq(records, 1, k - 1) \o SubSeq(records, k + 1, Len(records)),
                               records[k])
     \/ /\ \A k \in DOMAIN records : records[k].run # r
        /\ records' = Append(records, [run |-> r, digests |-> None])
  /\ imported' = TRUE
  /\ UNCHANGED <<pinned, phase, run, scope, skip, left, before, bad, targets, unread>>

Next ==
  \/ Begin \/ ResetUnhealthy \/ ResetFails \/ ResetRuns \/ Refuse \/ Verified \/ Open
  \/ Abandon \/ Scan \/ ResetAfter \/ WriteRecord
  \/ \E r \in 1..MaxRuns : ImportInto(r)

Spec == Init /\ [][Next]_vars
-----------------------------------------------------------------------------
(* A run opens on what an earlier tool left behind only where nothing      *)
(* could have told: in the processes of a service that is not restarted or *)
(* whose StartedAt was not there to compare with, or on the disk of a      *)
(* target that has no pin and whose reference is missing or was itself     *)
(* taken from such a state.  (Or with --skip-reset.)                       *)
ResidueOnlyUnseen ==
  phase = "verified" /\ ~skip => \A a \in scope :
    /\ memory \cap Restarted[a] \subseteq unread
    /\ disk[a] = "residue" =>
         /\ a \notin pinned
         /\ a \in DOMAIN References =>
              \E k \in DOMAIN records : a \in DOMAIN records[k].digests
                                        /\ records[k].digests[a] = "residue"

(* When the digest of a target changes from one record to the next that    *)
(* has one, so that the two runs are not runs against the same application,*)
(* there is a record between the two that the search for a reference ended *)
(* at although it knows nothing of that target, or an import has put an    *)
(* older record before newer ones.  Every other drift is refused, whatever *)
(* failed and whichever targets the runs had in scope.                     *)
UnlikeRecordsHaveAGap ==
  \A i, j \in DOMAIN records : \A a \in DOMAIN records[i].digests \cap DOMAIN records[j].digests :
    /\ i < j /\ records[i].digests[a] # records[j].digests[a]
    /\ \A k \in (i + 1)..(j - 1) : a \notin DOMAIN records[k].digests
    => \/ imported
       \/ \E k \in (i + 1)..(j - 1) :
            records[k].digests # None \/ pinned \cap DOMAIN records[j].digests # {}
=============================================================================
