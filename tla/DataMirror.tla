------------------------------ MODULE DataMirror ------------------------------
(***************************************************************************)
(* One dataset of data_import: the CSV mirror of an upstream table, the     *)
(* imports that merge new pulls into it, and the two caches of EdaService   *)
(* that are filled from it in one worker of data_import: the parsed-frame   *)
(* memo and the answers.  Imports of the dataset do not overlap here.       *)
(*                                                                          *)
(* Rows are followed per date.  A row is a version: upstream overwrites it  *)
(* with a larger one or deletes it.                                         *)
(***************************************************************************)
EXTENDS Naturals, FiniteSetsExt

CONSTANTS
    Dates,        \* dates of the dataset, oldest first
    WindowStart,  \* first date of a refresh-window pull (lookback_days)
    RetainFrom,   \* rows of earlier dates are pruned at every import
    MaxEdits,     \* bound: what happens upstream
    MaxFaults,    \* bound: failed queries, restarts
    Readers,      \* threads that serve EDA requests
    Importers,    \* TRUE: imports in the worker followed; FALSE: in another
    Signatures,   \* what stat() can return; only equality matters
    Nothing       \* no row, no cache entry

ASSUME MirrorAssumption ==
    /\ Dates \subseteq Nat /\ Dates # {} /\ IsFiniteSet(Dates)
    /\ WindowStart \in Nat /\ RetainFrom \in Nat
    /\ MaxEdits \in Nat /\ MaxFaults \in Nat
    /\ Importers \subseteq BOOLEAN
    /\ Signatures \subseteq Nat \ {0, 1}
    /\ Nothing \notin Nat

Versions == 1..(MaxEdits + 1)
Frames   == [Dates -> Versions \cup {Nothing}]

VARIABLES
    src,       \* the upstream table
    edits,
    file,      \* the CSV
    mtime,     \* its signature; every os.replace makes one nobody remembers
    import,    \* the import in flight
    memo,      \* EdaService._df_memo
    answers,   \* EdaService._cache, one key
    request,   \* the EDA request each reader is in
    faults

upstream == <<src, edits>>
mirror   == <<file, mtime>>
eda      == <<memo, answers, request>>
vars     == <<src, edits, file, mtime, import, memo, answers, request, faults>>

NoRows  == [d \in Dates |-> Nothing]
NoPull  == [pc |-> "idle", mode |-> "full", here |-> TRUE, new |-> NoRows]
NoCall  == [pc |-> "idle", seen |-> 0, frame |-> NoRows]
NoMemo  == [seen |-> 0, frame |-> NoRows]
Has(f)  == {d \in Dates : f[d] # Nothing}

Init ==
    /\ src = [d \in Dates |-> 1] /\ edits = 0
    /\ file = src /\ mtime = 1
    /\ import = NoPull
    /\ memo = NoMemo
    /\ answers = Nothing
    /\ request = [r \in Readers |-> NoCall]
    /\ faults = 0

-----------------------------------------------------------------------------
(* Upstream: rows are inserted, overwritten and deleted.                    *)

Edit(d) ==
    /\ edits < MaxEdits /\ edits' = edits + 1
    /\ \E v \in {edits + 2, Nothing} : src' = [src EXCEPT ![d] = v]
    /\ UNCHANGED <<mirror, import, eda, faults>>

-----------------------------------------------------------------------------
(* import_dataset.                                                          *)

\* what the query asks for: everything, the refresh window, or only dates
\* after the newest one the CSV has
Asked(mode) ==
    CASE mode = "full"   -> Dates
      [] mode = "window" -> {d \in Dates : d >= WindowStart}
      [] mode = "since"  -> {d \in Dates : \A e \in Has(file) : d > e}

\* "here": in the worker whose caches are followed, or in another one
Pull(mode, here) ==
    /\ import.pc = "idle"
    /\ import' = [pc |-> "merge", mode |-> mode, here |-> here,
                  new |-> [d \in Dates |-> IF d \in Asked(mode) THEN src[d] ELSE Nothing]]
    /\ UNCHANGED <<upstream, mirror, eda, faults>>

\* the query raises; the caches are cleared all the same when another
\* dataset of the call succeeded, or when the cron made it
PullFails ==
    /\ import.pc = "merge" /\ faults < MaxFaults /\ faults' = faults + 1
    /\ \E pc \in {"idle", "invalidate"} :
          import' = [NoPull EXCEPT !.pc = pc, !.here = import.here]
    /\ UNCHANGED <<upstream, mirror, eda>>

\* an empty pull writes nothing; it is a success all the same
EmptyPull ==
    /\ import.pc = "merge" /\ Has(import.new) = {}
    /\ import' = [import EXCEPT !.pc = "invalidate", !.new = NoRows]
    /\ UNCHANGED <<upstream, mirror, eda, faults>>

\* Mutants: an incremental pull replaces the CSV; the concat and dedup by key
\* of the legacy path keeps rows upstream has deleted.
MergeReplacing(old, new) == new
MergeByKey(old, new) == [d \in Dates |-> IF new[d] = Nothing THEN old[d] ELSE new[d]]

\* existing rows strictly before the first new date are kept, later ones go
Merge(old, new) ==
    LET windowMin == Min(Has(new))
    IN  [d \in Dates |-> IF d < windowMin THEN old[d] ELSE new[d]]

Pruned(f) == [d \in Dates |-> IF d >= RetainFrom THEN f[d] ELSE Nothing]

Remembered == {mtime, memo.seen} \cup {request[r].seen : r \in Readers}

\* merge, prune, write a temporary file and rename it over the CSV
Save ==
    /\ import.pc = "merge" /\ Has(import.new) # {}
    /\ file' = Pruned(IF import.mode = "full" THEN import.new ELSE Merge(file, import.new))
    /\ Signatures \ Remembered # {}
    /\ mtime' = CHOOSE s \in Signatures : s \notin Remembered
    /\ import' = [import EXCEPT !.pc = "invalidate", !.new = NoRows]
    /\ UNCHANGED <<upstream, eda, faults>>

\* the route clears the caches of the worker it runs in
Invalidate ==
    /\ import.pc = "invalidate"
    /\ IF import.here
       THEN memo' = NoMemo /\ answers' = Nothing
       ELSE UNCHANGED <<memo, answers>>
    /\ import' = NoPull
    /\ UNCHANGED <<upstream, mirror, request, faults>>

-----------------------------------------------------------------------------
(* EdaService: _cached around a computation around _load_df_memo.           *)

Step(r, call) == request' = [request EXCEPT ![r] = call]

\* a hit changes nothing; a miss runs the loader without the lock: stat the CSV
Miss(r) ==
    /\ request[r].pc = "idle" /\ answers = Nothing
    /\ Step(r, [NoCall EXCEPT !.pc = "parse", !.seen = mtime])
    /\ UNCHANGED <<upstream, mirror, import, memo, answers, faults>>

\* a memo under the same signature saves the parse
Recall(r) ==
    /\ request[r].pc = "parse" /\ memo.seen = request[r].seen
    /\ Step(r, [request[r] EXCEPT !.pc = "answer", !.frame = memo.frame])
    /\ UNCHANGED <<upstream, mirror, import, memo, answers, faults>>

Parse(r) ==
    /\ request[r].pc = "parse" /\ memo.seen # request[r].seen
    /\ Step(r, [request[r] EXCEPT !.pc = "memo", !.frame = file])
    /\ UNCHANGED <<upstream, mirror, import, memo, answers, faults>>

\* Mutant: the signature is read when the frame is stored, not before the parse.
RememberNow(r) ==
    /\ request[r].pc = "memo"
    /\ memo' = [seen |-> mtime, frame |-> request[r].frame]
    /\ Step(r, [request[r] EXCEPT !.pc = "answer"])
    /\ UNCHANGED <<upstream, mirror, import, answers, faults>>

Remember(r) ==
    /\ request[r].pc = "memo"
    /\ memo' = [seen |-> request[r].seen, frame |-> request[r].frame]
    /\ Step(r, [request[r] EXCEPT !.pc = "answer"])
    /\ UNCHANGED <<upstream, mirror, import, answers, faults>>

Answer(r) ==
    /\ request[r].pc = "answer"
    /\ answers' = request[r].frame
    /\ Step(r, NoCall)
    /\ UNCHANGED <<upstream, mirror, import, memo, faults>>

\* the TTL of the entry ends
Expire ==
    /\ answers # Nothing
    /\ answers' = Nothing
    /\ UNCHANGED <<upstream, mirror, import, memo, request, faults>>

-----------------------------------------------------------------------------
\* the worker of data_import dies and comes back with empty caches
Restart ==
    /\ faults < MaxFaults /\ faults' = faults + 1
    /\ memo' = NoMemo /\ answers' = Nothing
    /\ request' = [r \in Readers |-> NoCall]
    /\ import' = IF import.here THEN NoPull ELSE import
    /\ UNCHANGED <<upstream, mirror>>

Importing == EmptyPull \/ Save \/ Invalidate
Serving(r) == Miss(r) \/ Recall(r) \/ Parse(r) \/ Remember(r) \/ Answer(r)

Next ==
    \/ \E d \in Dates : Edit(d)
    \/ \E mode \in {"full", "window", "since"}, here \in Importers : Pull(mode, here)
    \/ PullFails \/ Importing
    \/ \E r \in Readers : Serving(r)
    \/ Expire
    \/ Restart

Spec == Init /\ [][Next]_vars

\* the nightly cron pulls the window again and again, and an import ends
Fairness ==
    /\ SF_vars(\E here \in Importers : Pull("window", here))
    /\ WF_vars(Importing)

FairSpec == Spec /\ Fairness

-----------------------------------------------------------------------------
(* Properties.                                                              *)

Call == [pc : {"idle", "parse", "memo", "answer"},
         seen : Signatures \cup {0, 1}, frame : Frames]
Memo == [seen : Signatures \cup {0, 1}, frame : Frames]

\* The types, and what each caller holds: only a caller in flight carries a
\* frame, and an import carries rows only until they are saved (importer.py,
\* eda_service.py).
MirrorTypeOK ==
    /\ src \in Frames /\ edits \in 0..MaxEdits
    /\ file \in Frames /\ mtime \in Signatures \cup {1}
    /\ import \in [pc : {"idle", "merge", "invalidate"}, mode : {"full", "window", "since"},
                   here : BOOLEAN, new : Frames]
    /\ memo \in Memo
    /\ answers \in Frames \cup {Nothing}
    /\ request \in [Readers -> Call]
    /\ faults \in 0..MaxFaults
    /\ import.pc # "merge" => import.new = NoRows
    /\ \A r \in Readers : request[r].pc \in {"idle", "parse"} => request[r].frame = NoRows

\* The parsed-frame memo never passes an older CSV off as the current one,
\* whatever imports and invalidations happen between the stat, the parse and
\* the store: a request that finds the signature it just read gets the rows
\* that are on disk (_load_df_memo stats before it parses).
MemoNeverStale == memo.seen = mtime => memo.frame = file

\* No import takes the CSV back: a date's row changes to a newer version, and
\* it goes only for its age or because upstream no longer has that row
\* (import_dataset keeps what the pull did not ask for).
RowsMoveForward ==
    [][\A d \in Dates : file'[d] # file[d] /\ file[d] # Nothing =>
          IF file'[d] = Nothing
          THEN d < RetainFrom \/ src[d] # file[d]
          ELSE file'[d] > file[d]]_vars

\* dates of the refresh window that upstream has
InWindow == {d \in Has(src) : d >= WindowStart /\ d >= RetainFrom}

\* When upstream comes to rest the window of the CSV becomes what upstream
\* has and stays so, the deletions after the window's first row included,
\* whatever full and incremental imports run in between.
WindowCatchesUp ==
    <>[](\A d \in Dates : InWindow # {} /\ d >= Min(InWindow) => file[d] = src[d])
=============================================================================
