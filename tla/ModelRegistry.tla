--------------------------- MODULE ModelRegistry ---------------------------
(***************************************************************************)
(* demand_forecasting_pipeline/services/model_registry.py: versioned       *)
(* snapshots of the live model artifacts, and rollback to one of them.     *)
(*                                                                         *)
(* The unit of a step is one path of the file system.  A version is copied *)
(* path by path into a staging folder, published by one rename, pointed at *)
(* by one atomic replace of current.json, and old versions are deleted one *)
(* folder at a time; a rollback replaces the live paths one at a time and  *)
(* moves the pointer last.  All of this happens under the process-wide     *)
(* _REGISTRY_LOCK, but training deletes and rewrites the live paths, and   *)
(* deletes current.json with them, without taking it, and an I/O error or  *)
(* the death of the process may come between any two steps.  Clients are   *)
(* the threads that call the registry.                                     *)
(***************************************************************************)
EXTENDS Naturals, FiniteSets

CONSTANTS
    Files,         \* top-level children of artifacts_dir
    Contents,      \* what a training may write into one of them
    Absent,        \* a path that does not exist
    Clients,       \* threads that call record_version or a rollback
    NoClient,      \* _REGISTRY_LOCK is free
    Scores,        \* accuracies a manifest may record
    Cap,           \* model_retention_max_versions
    MaxVersions,   \* bound: versions minted in a behaviour
    MaxFaults,     \* bound: I/O errors and process deaths in a behaviour
    WritersWait    \* TRUE when no training interferes with a call that may move the pointer

ASSUME ContentsAssumption == Absent \notin Contents
ASSUME ClientsAssumption == NoClient \notin Clients
ASSUME ScoresAssumption == Scores # {}
ASSUME CapAssumption == Cap \in Nat \ {0}
ASSUME BoundsAssumption == MaxVersions \in Nat /\ MaxFaults \in Nat
ASSUME WritersAssumption == WritersWait \in BOOLEAN

VARIABLES
    live,      \* artifacts_dir: path -> content
    kept,      \* the folders under versions/
    snap,      \* their contents and manifests
    current,   \* current.json, NoVersion when there is none
    lock,      \* holder of _REGISTRY_LOCK
    op,        \* the registry call each client is in
    minted,    \* the last version id minted; ids are timestamps, so they grow
    spared,    \* folders the sweep in progress tried to delete and could not
    faults

registryVars == <<live, kept, snap, current, lock, op, minted, spared, faults>>

NoVersion == 0
VersionIds == 1 .. MaxVersions
AnyVersion == 0      \* rollback() has no expectation about the pointer

Tree == [Files -> Contents \cup {Absent}]
EmptyTree == [f \in Files |-> Absent]
Present(tree) == {f \in Files : tree[f] # Absent}

(* Every path the version holds is in place.  Live paths the version does  *)
(* not hold are left alone by a rollback, so nothing is said of them.      *)
Restored(tree, saved) == \A f \in Present(saved) : tree[f] = saved[f]

Stages == {"idle", "copy", "point", "prune", "restore", "settled"}
Results == {"none", "ok", "deferred", "error"}

Ops == [at : Stages, ver : 0 .. MaxVersions, todo : SUBSET Files, stage : Tree,
        upd : BOOLEAN, score : Scores, expect : 0 .. MaxVersions, res : Results]
Manifests == [files : Tree, score : Scores, promoted : BOOLEAN]

SomeScore == CHOOSE s \in Scores : TRUE

(* A client between calls: it keeps the result of the last one. *)
Returned(result) ==
    [at |-> "idle", ver |-> NoVersion, todo |-> {}, stage |-> EmptyTree, upd |-> FALSE,
     score |-> SomeScore, expect |-> AnyVersion, res |-> result]

NoManifest == [files |-> EmptyTree, score |-> SomeScore, promoted |-> FALSE]

RegistryTypeOK ==
    /\ live \in Tree
    /\ kept \subseteq VersionIds
    /\ snap \in [VersionIds -> Manifests]
    /\ current \in 0 .. MaxVersions
    /\ lock \in Clients \cup {NoClient}
    /\ op \in [Clients -> Ops]
    /\ minted \in 0 .. MaxVersions
    /\ spared \subseteq VersionIds
    /\ faults \in 0 .. MaxFaults

RegistryInit ==
    /\ live = EmptyTree
    /\ kept = {}
    /\ snap = [v \in VersionIds |-> NoManifest]
    /\ current = NoVersion
    /\ lock = NoClient
    /\ op = [c \in Clients |-> Returned("none")]
    /\ minted = 0
    /\ spared = {}
    /\ faults = 0
-----------------------------------------------------------------------------
(* The training pipeline rewrites a live path.  It never takes the lock.   *)
Overwrite(f, x) ==
    /\ WritersWait => lock = NoClient
    /\ live' = [live EXCEPT ![f] = x]
    /\ UNCHANGED <<kept, snap, current, lock, op, minted, spared, faults>>

(* _reset_artifact_dirs, the first thing a training does, deletes every    *)
(* file below artifacts_dir but those of versions/, in any order: the live *)
(* paths (Overwrite with Absent), what a call has staged, current.json.    *)
WipeStaged(c, f) ==
    /\ op[c].at = "copy"
    /\ WritersWait => ~op[c].upd
    /\ op' = [op EXCEPT ![c].stage[f] = Absent]
    /\ UNCHANGED <<live, kept, snap, current, lock, minted, spared, faults>>

WipePointer ==
    /\ WritersWait => lock = NoClient
    /\ current' = NoVersion
    /\ UNCHANGED <<live, kept, snap, lock, op, minted, spared, faults>>

(* Mutant: two versions minted within one tick of the clock share an id. *)
RecordBeginSameId(c, upd, score) ==
    /\ op[c].at = "idle" /\ lock = NoClient
    /\ minted < MaxVersions
    /\ lock' = c
    /\ op' = [op EXCEPT ![c] =
                [at |-> "copy", ver |-> minted + 1, todo |-> Present(live), stage |-> EmptyTree,
                 upd |-> upd, score |-> score, expect |-> AnyVersion, res |-> "none"]]
    /\ UNCHANGED <<live, kept, snap, current, minted, spared, faults>>

(* record_version: take the lock, mint an id, list the live paths. *)
RecordBegin(c, upd, score) ==
    /\ op[c].at = "idle" /\ lock = NoClient
    /\ minted < MaxVersions
    /\ minted' = minted + 1
    /\ lock' = c
    /\ op' = [op EXCEPT ![c] =
                [at |-> "copy", ver |-> minted + 1, todo |-> Present(live), stage |-> EmptyTree,
                 upd |-> upd, score |-> score, expect |-> AnyVersion, res |-> "none"]]
    /\ UNCHANGED <<live, kept, snap, current, spared, faults>>

(* _copy_live_artifacts: one path into the staging folder. *)
RecordCopy(c, f) ==
    /\ op[c].at = "copy" /\ f \in op[c].todo
    /\ op' = [op EXCEPT ![c].todo = @ \ {f}, ![c].stage[f] = live[f]]
    /\ UNCHANGED <<live, kept, snap, current, lock, minted, spared, faults>>

(* The manifest is complete: rename staging -> versions/<id>. *)
RecordPublish(c) ==
    /\ op[c].at = "copy" /\ op[c].todo = {}
    /\ kept' = kept \cup {op[c].ver}
    /\ snap' = [snap EXCEPT ![op[c].ver] = [files |-> op[c].stage, score |-> op[c].score,
                                            promoted |-> op[c].upd]]
    /\ op' = [op EXCEPT ![c].at = IF op[c].upd THEN "point" ELSE "prune"]
    /\ UNCHANGED <<live, current, lock, minted, spared, faults>>

(* _write_pointer for a version that passed the gate. *)
RecordPoint(c) ==
    /\ op[c].at = "point"
    /\ current' = op[c].ver
    /\ op' = [op EXCEPT ![c].at = "prune"]
    /\ UNCHANGED <<live, kept, snap, lock, minted, spared, faults>>

(* prune(): a sweep on its own, under the lock. *)
PruneBegin(c) ==
    /\ op[c].at = "idle" /\ lock = NoClient
    /\ lock' = c
    /\ op' = [op EXCEPT ![c] = [Returned("none") EXCEPT !.at = "prune"]]
    /\ UNCHANGED <<live, kept, snap, current, minted, spared, faults>>

(* Mutants: the sweep may take the version in force; it keeps one too many. *)
PrunableCurrent(v) ==
    /\ v \in kept \ spared
    /\ Cardinality(kept \ spared) > Cap
    /\ \A w \in kept \ spared : v <= w

PrunableLate(v) ==
    /\ v \in kept \ (spared \cup {current})
    /\ Cardinality(kept \ spared) > Cap + 1
    /\ \A w \in kept \ (spared \cup {current}) : v <= w

(* _prune_locked deletes the oldest folders beyond the cap, except the     *)
(* one current.json names.                                                 *)
Prunable(v) ==
    /\ v \in kept \ (spared \cup {current})
    /\ Cardinality(kept \ spared) > Cap
    /\ \A w \in kept \ (spared \cup {current}) : v <= w

PruneOne(c, v) ==
    /\ op[c].at = "prune"
    /\ Prunable(v)
    /\ kept' = kept \ {v}
    /\ snap' = [snap EXCEPT ![v] = NoManifest]
    /\ UNCHANGED <<live, current, lock, op, minted, spared, faults>>

(* rmtree(ignore_errors=True) gives up inside a folder: what is left of it *)
(* stays listed, counts as deleted, and waits for the next sweep.          *)
PruneHalf(c, v, f) ==
    /\ op[c].at = "prune"
    /\ Prunable(v)
    /\ faults < MaxFaults /\ faults' = faults + 1
    /\ snap' = [snap EXCEPT ![v].files[f] = Absent]
    /\ spared' = spared \cup {v}
    /\ UNCHANGED <<live, kept, current, lock, op, minted>>

RecordEnd(c) ==
    /\ op[c].at = "prune"
    /\ \A v \in kept : ~Prunable(v)
    /\ lock' = NoClient
    /\ op' = [op EXCEPT ![c] = Returned("ok")]
    /\ spared' = {}
    /\ UNCHANGED <<live, kept, snap, current, minted, faults>>

(* Mutant: a failed call also deletes the folder it has published.         *)
RecordFailsCleansUp(c) ==
    /\ op[c].at \in {"copy", "point", "prune"}
    /\ faults < MaxFaults /\ faults' = faults + 1
    /\ lock' = NoClient
    /\ op' = [op EXCEPT ![c] = Returned("error")]
    /\ spared' = {}
    /\ kept' = kept \ {op[c].ver}
    /\ UNCHANGED <<live, snap, current, minted>>

(* An exception before the rename drops the staging folder; one after it   *)
(* leaves the published folder behind, pointed at or not.                  *)
RecordFails(c) ==
    /\ op[c].at \in {"copy", "point", "prune"}
    /\ faults < MaxFaults /\ faults' = faults + 1
    /\ lock' = NoClient
    /\ op' = [op EXCEPT ![c] = Returned("error")]
    /\ spared' = {}
    /\ UNCHANGED <<live, kept, snap, current, minted>>
-----------------------------------------------------------------------------
(* rollback(v), and rollback_if_current(v, expected_current) when expect   *)
(* is a version: the comparison is made under the lock.                    *)
RestoreDefers(c, v, expect) ==
    /\ op[c].at = "idle" /\ lock = NoClient
    /\ expect # AnyVersion /\ current # expect
    /\ op' = [op EXCEPT ![c] = Returned("deferred")]
    /\ UNCHANGED <<live, kept, snap, current, lock, minted, spared, faults>>

RestoreUnknown(c, v, expect) ==
    /\ op[c].at = "idle" /\ lock = NoClient
    /\ expect \in {AnyVersion, current}
    /\ v \notin kept
    /\ op' = [op EXCEPT ![c] = Returned("error")]
    /\ UNCHANGED <<live, kept, snap, current, lock, minted, spared, faults>>

(* Mutants: a rollback that does not take the lock; a conditional one that *)
(* does not look at the pointer.                                           *)
RestoreBeginUnlocked(c, v, expect) ==
    /\ op[c].at = "idle"
    /\ expect \in {AnyVersion, current}
    /\ v \in kept
    /\ op' = [op EXCEPT ![c] =
                [at |-> "restore", ver |-> v, todo |-> Present(snap[v].files),
                 stage |-> EmptyTree, upd |-> FALSE, score |-> SomeScore,
                 expect |-> expect, res |-> "none"]]
    /\ UNCHANGED <<live, kept, snap, current, lock, minted, spared, faults>>

RestoreBeginUnconditional(c, v, expect) ==
    /\ op[c].at = "idle" /\ lock = NoClient
    /\ v \in kept
    /\ lock' = c
    /\ op' = [op EXCEPT ![c] =
                [at |-> "restore", ver |-> v, todo |-> Present(snap[v].files),
                 stage |-> EmptyTree, upd |-> FALSE, score |-> SomeScore,
                 expect |-> expect, res |-> "none"]]
    /\ UNCHANGED <<live, kept, snap, current, minted, spared, faults>>

RestoreBegin(c, v, expect) ==
    /\ op[c].at = "idle" /\ lock = NoClient
    /\ expect \in {AnyVersion, current}
    /\ v \in kept
    /\ lock' = c
    /\ op' = [op EXCEPT ![c] =
                [at |-> "restore", ver |-> v, todo |-> Present(snap[v].files),
                 stage |-> EmptyTree, upd |-> FALSE, score |-> SomeScore,
                 expect |-> expect, res |-> "none"]]
    /\ UNCHANGED <<live, kept, snap, current, minted, spared, faults>>

(* _replace_path: each path is swapped atomically. *)
RestoreFile(c, f) ==
    /\ op[c].at = "restore" /\ f \in op[c].todo
    /\ live' = [live EXCEPT ![f] = snap[op[c].ver].files[f]]
    /\ op' = [op EXCEPT ![c].todo = @ \ {f}]
    /\ UNCHANGED <<kept, snap, current, lock, minted, spared, faults>>

(* Mutant: the pointer moves before the last path is in place. *)
RestorePointEarly(c) ==
    /\ op[c].at = "restore"
    /\ current' = op[c].ver
    /\ op' = [op EXCEPT ![c].at = "settled"]
    /\ UNCHANGED <<live, kept, snap, lock, minted, spared, faults>>

RestorePoint(c) ==
    /\ op[c].at = "restore" /\ op[c].todo = {}
    /\ current' = op[c].ver
    /\ op' = [op EXCEPT ![c].at = "settled"]
    /\ UNCHANGED <<live, kept, snap, lock, minted, spared, faults>>

(* Mutant: a rollback that returns with the lock. *)
RestoreEndLocked(c) ==
    /\ op[c].at = "settled"
    /\ op' = [op EXCEPT ![c] = Returned("ok")]
    /\ UNCHANGED <<live, kept, snap, current, lock, minted, spared, faults>>

RestoreEnd(c) ==
    /\ op[c].at = "settled"
    /\ lock' = NoClient
    /\ op' = [op EXCEPT ![c] = Returned("ok")]
    /\ UNCHANGED <<live, kept, snap, current, minted, spared, faults>>

(* An I/O error while a path is staged or swapped, or while the pointer is *)
(* written: what was already replaced stays replaced.  After the pointer   *)
(* has moved, an unreadable manifest still fails the call.                 *)
RestoreFails(c) ==
    /\ op[c].at \in {"restore", "settled"}
    /\ faults < MaxFaults /\ faults' = faults + 1
    /\ lock' = NoClient
    /\ op' = [op EXCEPT ![c] = Returned("error")]
    /\ UNCHANGED <<live, kept, snap, current, minted, spared>>

(* The process dies: the lock and every call go with it, the files stay.   *)
(* A leftover staging folder is never listed.                              *)
RegistryDies ==
    /\ faults < MaxFaults /\ faults' = faults + 1
    /\ lock' = NoClient
    /\ op' = [c \in Clients |-> Returned("none")]
    /\ spared' = {}
    /\ UNCHANGED <<live, kept, snap, current, minted>>
-----------------------------------------------------------------------------
RecordWork(c) ==
    \/ \E f \in Files : RecordCopy(c, f)
    \/ RecordPublish(c)
    \/ RecordPoint(c)
    \/ \E v \in VersionIds : PruneOne(c, v)

RestoreWork(c) ==
    \/ \E f \in Files : RestoreFile(c, f)
    \/ RestorePoint(c)

RecordStep(c) == RecordWork(c) \/ RecordEnd(c)
RestoreStep(c) == RestoreWork(c) \/ RestoreEnd(c)

RegistryCall(c) ==
    \/ \E upd \in BOOLEAN, score \in Scores : RecordBegin(c, upd, score)
    \/ \E v \in VersionIds, expect \in 0 .. MaxVersions :
          RestoreDefers(c, v, expect) \/ RestoreUnknown(c, v, expect) \/ RestoreBegin(c, v, expect)
    \/ PruneBegin(c)

RegistryNext ==
    \/ \E f \in Files, x \in Contents \cup {Absent} : Overwrite(f, x)
    \/ \E c \in Clients, f \in Files : WipeStaged(c, f)
    \/ WipePointer
    \/ \E c \in Clients : RegistryCall(c) \/ RecordStep(c) \/ RestoreStep(c)
                          \/ RecordFails(c) \/ RestoreFails(c)
    \/ \E c \in Clients, v \in VersionIds, f \in Files : PruneHalf(c, v, f)
    \/ RegistryDies

RegistrySpec == RegistryInit /\ [][RegistryNext]_registryVars
-----------------------------------------------------------------------------
(* current.json never dangles: a version it names is on disk, through      *)
(* retention sweeps, failed calls and deaths of the process.               *)
CurrentIsRetained == current = NoVersion \/ current \in kept

(* A version being restored is not pruned under the restore's feet.        *)
TargetIsRetained == \A c \in Clients : op[c].at \in {"restore", "settled"} => op[c].ver \in kept

(* The retention sweep bounds the disk: with the lock free, a folder       *)
(* beyond the cap is the leftover of a call that failed.                   *)
RetentionBound == lock = NoClient => Cardinality(kept) <= Cap + faults

(* When a promotion or a rollback is about to release the lock, the live   *)
(* paths are those of the version in force, whatever earlier calls left    *)
(* half done (the claim holds when no training writes meanwhile).          *)
InForce(c) == op[c].at = "settled" \/ (op[c].at = "prune" /\ op[c].upd)
SettledIsLive ==
    WritersWait => \A c \in Clients :
        InForce(c) => op[c].ver = current /\ Restored(live, snap[current].files)

(* rollback_if_current never overrides a pointer somebody else moved: when *)
(* it moves the pointer, the pointer still had the value its caller saw,   *)
(* or a training that has started meanwhile has deleted it.                *)
ConditionalRollback ==
    [][\A c \in Clients :
          op[c].at = "restore" /\ op[c].expect # AnyVersion /\ op'[c].at = "settled"
             => current \in {op[c].expect, NoVersion}]_registryVars

(* Published snapshots are immutable: the files and the manifest of a      *)
(* retained version change only when a sweep fails inside its folder, and  *)
(* then it is neither in force nor being restored.                         *)
SnapshotsImmutable ==
    [][\A v \in kept \cap kept' : snap'[v] # snap[v] =>
          /\ faults' > faults /\ v # current
          /\ \A c \in Clients : op[c].at \in {"restore", "settled"} => op[c].ver # v]_registryVars

(* The registry implements the version store it is documented to be.       *)
Store == INSTANCE VersionStore WITH MaxVersions <- MaxVersions, kept <- kept, current <- current
ImplementsVersionStore == Store!Spec
=============================================================================
