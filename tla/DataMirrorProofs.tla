--------------------------- MODULE DataMirrorProofs ---------------------------
(***************************************************************************)
(* Theorems of DataMirror, for any dates, readers, windows and bounds.      *)
(* PullInv carries what an import in flight knows across upstream's edits:  *)
(* a row it brings is not older than the CSV's, and a row it drops is not   *)
(* upstream's any more.  MemoInv is MemoNeverStale one step earlier, when   *)
(* the parsed frame is still in the reader's hands.                         *)
(***************************************************************************)
EXTENDS DataMirror, TLAPS, WellFoundedInduction

\* rows of f are upstream's or older
NotAhead(f) == \A d \in Dates : f[d] # Nothing /\ src[d] # Nothing => f[d] <= src[d]

\* upstream has no version it has not made yet
VersionsMade(f) == \A d \in Dates : f[d] # Nothing => f[d] <= edits + 1

\* upstream does not have the row the CSV has for e
Gone(e) == file[e] # Nothing => src[e] # file[e]

PullInv ==
    /\ NotAhead(file) /\ VersionsMade(file) /\ VersionsMade(src)
    /\ import.pc = "merge" =>
         /\ NotAhead(import.new) /\ VersionsMade(import.new)
         /\ \A d \in Dates : file[d] # Nothing /\ import.new[d] # Nothing => file[d] <= import.new[d]
         /\ \A d, e \in Dates : import.new[d] # Nothing /\ e >= d /\ import.new[e] = Nothing => Gone(e)
         /\ import.mode = "full" => \A e \in Dates : import.new[e] = Nothing => Gone(e)

MemoInv ==
    /\ MemoNeverStale
    /\ \A r \in Readers : request[r].pc = "memo" /\ request[r].seen = mtime => request[r].frame = file

-----------------------------------------------------------------------------
(* The oldest date of a pull exists: import_dataset takes the minimum.      *)
LEMMA OldestExists ==
  ASSUME NEW S, S \subseteq Nat, S # {}
  PROVE  Min(S) \in S /\ \A y \in S : Min(S) <= y
  <1>1. \E x \in S : \A y \in S : ~ (<<y, x>> \in OpToRel(<, Nat))
    BY NatLessThanWellFounded, WFMin
  <1>2. PICK x \in S : \A y \in S : ~ (<<y, x>> \in OpToRel(<, Nat))
    BY <1>1
  <1>3. \A y \in S : x <= y
    <2> TAKE y \in S
    <2>1. x \in Nat /\ y \in Nat
      OBVIOUS
    <2>2. ~ (y < x)
      BY <1>2, <2>1 DEF OpToRel
    <2> QED
      BY <2>1, <2>2
  <1> QED
    BY <1>3 DEF Min

(* An upstream row lives on a date the model knows.                         *)
LEMMA FramesAreRows ==
  ASSUME NEW f \in Frames, NEW d \in Dates
  PROVE  f[d] # Nothing => f[d] \in Nat
  BY MirrorAssumption DEF Frames, Versions

LEMMA HasDates == \A f : Has(f) \subseteq Nat /\ Has(f) \subseteq Dates
  BY MirrorAssumption DEF Has

LEMMA NoRowsType == NoRows \in Frames
  BY DEF NoRows, Frames

LEMMA RecordsType == NoCall \in Call /\ NoMemo \in Memo
  BY NoRowsType DEF NoCall, Call, NoMemo, Memo

(* An import that saves: every row of the CSV is an old or a pulled one; it  *)
(* drops a row for its age or because upstream no longer has it.            *)
LEMMA SavedRow ==
  ASSUME MirrorTypeOK, PullInv, Save, NEW d \in Dates
  PROVE  /\ file' \in Frames
         /\ file'[d] \in {Nothing, file[d], import.new[d]}
         /\ file'[d] = Nothing => d < RetainFrom \/ Gone(d)
  <1> DEFINE new    == import.new
             merged == IF import.mode = "full" THEN new ELSE Merge(file, new)
             min    == Min(Has(new))
  <1>1. file \in Frames /\ new \in Frames
    BY DEF MirrorTypeOK
  <1>2. import.pc = "merge" /\ file' = Pruned(merged)
    BY DEF Save
  <1>3. Has(new) # {}
    BY DEF Save
  <1>4. min \in Dates /\ min \in Nat /\ new[min] # Nothing
    <2>1. min \in Has(new)
      BY <1>3, OldestExists, HasDates
    <2> QED
      BY <2>1, HasDates DEF Has
  <1> HIDE DEF min
  <1>5. ASSUME NEW e \in Dates
        PROVE  /\ merged[e] \in {file[e], new[e]}
               /\ merged[e] = Nothing => Gone(e)
    <2>1. CASE import.mode = "full"
      BY <2>1, <1>2 DEF PullInv
    <2>2. CASE import.mode # "full"
      <3>1. merged[e] = IF e < min THEN file[e] ELSE new[e]
        BY <2>2 DEF Merge, min
      <3>2. CASE e < min
        BY <3>1, <3>2 DEF Gone
      <3>3. CASE ~ (e < min)
        <4>1. e \in Nat
          BY MirrorAssumption
        <4>2. e >= min
          BY <4>1, <3>3, <1>4
        <4>3. merged[e] = new[e]
          BY <3>1, <3>3
        <4> QED
          BY <4>2, <4>3, <1>2, <1>4 DEF PullInv
      <3> QED
        BY <3>2, <3>3
    <2> QED
      BY <2>1, <2>2
  <1> HIDE DEF merged
  <1>6. file' = [e \in Dates |-> IF e >= RetainFrom THEN merged[e] ELSE Nothing]
    BY <1>2 DEF Pruned
  <1>7. file' \in Frames
    BY <1>1, <1>5, <1>6 DEF Frames
  <1>8. d \in Nat /\ RetainFrom \in Nat
    BY MirrorAssumption
  <1> QED
    BY <1>5, <1>6, <1>7, <1>8

(* A saved CSV has a signature nobody remembers.                            *)
LEMMA FreshSignature ==
  ASSUME Save
  PROVE  /\ mtime' \in Signatures
         /\ mtime' # memo.seen /\ \A r \in Readers : mtime' # request[r].seen
  <1>1. \E s \in Signatures : s \notin Remembered
    BY DEF Save
  <1>2. mtime' = CHOOSE s \in Signatures : s \notin Remembered
    BY DEF Save
  <1>3. mtime' \in Signatures /\ mtime' \notin Remembered
    BY <1>1, <1>2
  <1> QED
    BY <1>3 DEF Remembered

-----------------------------------------------------------------------------
(* The shape of the state.                                                  *)
THEOREM MirrorInitSafe == Init => MirrorTypeOK /\ MemoInv /\ PullInv
  <1> SUFFICES ASSUME Init PROVE MirrorTypeOK /\ MemoInv /\ PullInv
    OBVIOUS
  <1>1. src \in Frames /\ file = src /\ \A d \in Dates : src[d] = 1
    BY MirrorAssumption DEF Init, Frames, Versions
  <1>2. MirrorTypeOK
    BY <1>1, NoRowsType, RecordsType, MirrorAssumption
       DEF Init, MirrorTypeOK, NoPull, NoCall, Call
  <1>3. MemoInv
    BY DEF Init, MemoInv, MemoNeverStale, NoMemo, NoCall
  <1>4. PullInv
    BY <1>1, MirrorAssumption DEF Init, PullInv, NotAhead, VersionsMade, NoPull
  <1> QED
    BY <1>2, <1>3, <1>4

LEMMA ImportType ==
  ASSUME MirrorTypeOK
  PROVE  /\ import.pc \in {"idle", "merge", "invalidate"}
         /\ import.mode \in {"full", "window", "since"}
         /\ import.here \in BOOLEAN /\ import.new \in Frames
  BY DEF MirrorTypeOK

(* A step that only moves one reader.                                       *)
LEMMA ReaderType ==
  ASSUME MirrorTypeOK, NEW r \in Readers, NEW call \in Call, Step(r, call),
         call.pc \in {"idle", "parse"} => call.frame = NoRows,
         memo' \in Memo, answers' \in Frames \cup {Nothing},
         UNCHANGED <<upstream, mirror, import, faults>>
  PROVE  MirrorTypeOK'
  <1>1. request' \in [Readers -> Call]
    BY DEF MirrorTypeOK, Step
  <1>2. \A q \in Readers : request'[q].pc \in {"idle", "parse"} => request'[q].frame = NoRows
    BY DEF MirrorTypeOK, Step
  <1> QED
    BY <1>1, <1>2 DEF MirrorTypeOK, upstream, mirror, NoRows, Versions, Frames

(* What each step of a reader leaves it with.                               *)
LEMMA ServingType ==
  ASSUME MirrorTypeOK, NEW r \in Readers, Serving(r)
  PROVE  MirrorTypeOK'
  <1>1. /\ request[r] \in Call /\ memo \in Memo /\ file \in Frames
        /\ mtime \in Signatures \cup {0, 1} /\ answers \in Frames \cup {Nothing}
        /\ request[r].pc \in {"idle", "parse"} => request[r].frame = NoRows
    BY DEF MirrorTypeOK
  <1>2. CASE Miss(r)
    <2>1. [NoCall EXCEPT !.pc = "parse", !.seen = mtime] \in Call
      BY <1>1, NoRowsType DEF NoCall, Call
    <2>2. [NoCall EXCEPT !.pc = "parse", !.seen = mtime].frame = NoRows
      BY DEF NoCall
    <2> QED
      BY <1>1, <1>2, <2>1, <2>2, ReaderType DEF Miss
  <1>3. CASE Recall(r)
    <2>1. [request[r] EXCEPT !.pc = "answer", !.frame = memo.frame] \in Call
      BY <1>1 DEF Call, Memo
    <2>2. [request[r] EXCEPT !.pc = "answer", !.frame = memo.frame].pc = "answer"
      BY <1>1 DEF Call
    <2> QED
      BY <1>1, <1>3, <2>1, <2>2, ReaderType DEF Recall
  <1>4. CASE Parse(r)
    <2>1. [request[r] EXCEPT !.pc = "memo", !.frame = file] \in Call
      BY <1>1 DEF Call
    <2>2. [request[r] EXCEPT !.pc = "memo", !.frame = file].pc = "memo"
      BY <1>1 DEF Call
    <2> QED
      BY <1>1, <1>4, <2>1, <2>2, ReaderType DEF Parse
  <1>5. CASE Remember(r)
    <2>1. [request[r] EXCEPT !.pc = "answer"] \in Call
      BY <1>1 DEF Call
    <2>2. [request[r] EXCEPT !.pc = "answer"].pc = "answer"
      BY <1>1 DEF Call
    <2>3. [seen |-> request[r].seen, frame |-> request[r].frame] \in Memo
      BY <1>1 DEF Call, Memo
    <2> QED
      BY <1>1, <1>5, <2>1, <2>2, <2>3, ReaderType DEF Remember
  <1>6. CASE Answer(r)
    <2>1. NoCall \in Call /\ NoCall.frame = NoRows
      BY RecordsType DEF NoCall
    <2>2. request[r].frame \in Frames
      BY <1>1 DEF Call
    <2> QED
      BY <1>1, <1>6, <2>1, <2>2, ReaderType DEF Answer
  <1> QED
    BY <1>2, <1>3, <1>4, <1>5, <1>6 DEF Serving

LEMMA PulledType ==
  ASSUME MirrorTypeOK, NEW mode \in {"full", "window", "since"}, NEW here \in Importers,
         Pull(mode, here)
  PROVE  MirrorTypeOK'
  <1>1. [d \in Dates |-> IF d \in Asked(mode) THEN src[d] ELSE Nothing] \in Frames
    BY DEF MirrorTypeOK, Frames
  <1>2. here \in BOOLEAN
    BY MirrorAssumption
  <1> QED
    BY <1>1, <1>2
       DEF MirrorTypeOK, Pull, upstream, mirror, eda, NoRows, Versions, Frames

LEMMA EditedType ==
  ASSUME MirrorTypeOK, NEW d \in Dates, Edit(d)
  PROVE  MirrorTypeOK'
  <1>1. edits' \in 0 .. MaxEdits /\ edits + 2 \in Versions
    BY MirrorAssumption DEF MirrorTypeOK, Edit, Versions
  <1>2. src' \in Frames
    BY <1>1 DEF MirrorTypeOK, Edit, Frames
  <1> QED
    BY <1>1, <1>2 DEF MirrorTypeOK, Edit, mirror, eda, NoRows, Versions, Frames

Imports == [pc : {"idle", "merge", "invalidate"}, mode : {"full", "window", "since"},
            here : BOOLEAN, new : Frames]

LEMMA NoPullType == NoPull \in Imports /\ NoPull.new = NoRows
  BY NoRowsType DEF NoPull, Imports

(* Every step keeps the shape of the state.                                 *)
LEMMA MirrorNextType ==
  ASSUME MirrorTypeOK, PullInv, [Next]_vars
  PROVE  MirrorTypeOK'
  <1>1. CASE \E d \in Dates : Edit(d)
    BY <1>1, EditedType
  <1>2. CASE \E mode \in {"full", "window", "since"}, here \in Importers : Pull(mode, here)
    BY <1>2, PulledType
  <1>3. CASE PullFails
    <2>1. faults' \in 0 .. MaxFaults
      BY <1>3, MirrorAssumption DEF PullFails, MirrorTypeOK
    <2>2. /\ import' \in Imports /\ import'.new = NoRows
      BY <1>3, ImportType, NoPullType DEF PullFails, Imports
    <2> QED
      BY <1>3, <2>1, <2>2
         DEF Imports, MirrorTypeOK, PullFails, upstream, mirror, eda, NoRows, Versions, Frames
  <1>4. CASE EmptyPull
    <2>1. import' = [pc |-> "invalidate", mode |-> import.mode, here |-> import.here, new |-> NoRows]
      BY <1>4 DEF EmptyPull, MirrorTypeOK
    <2> QED
      BY <1>4, <2>1, ImportType, NoRowsType
         DEF MirrorTypeOK, EmptyPull, upstream, mirror, eda, NoRows, Versions, Frames
  <1>5. CASE Save
    <2>1. import' = [pc |-> "invalidate", mode |-> import.mode, here |-> import.here, new |-> NoRows]
      BY <1>5 DEF Save, MirrorTypeOK
    <2>2. file' \in Frames
      BY <1>5, SavedRow, MirrorAssumption
    <2>3. mtime' \in Signatures
      BY <1>5, FreshSignature
    <2> QED
      BY <1>5, <2>1, <2>2, <2>3, ImportType, NoRowsType
         DEF MirrorTypeOK, Save, upstream, eda, NoRows, Versions, Frames
  <1>6. CASE Invalidate
    <2>1. memo' \in Memo /\ answers' \in Frames \cup {Nothing}
      BY <1>6, RecordsType DEF Invalidate, MirrorTypeOK
    <2>2. import' = [pc |-> "idle", mode |-> "full", here |-> TRUE, new |-> NoRows]
      BY <1>6 DEF Invalidate, NoPull
    <2> QED
      BY <1>6, <2>1, <2>2, NoRowsType
         DEF MirrorTypeOK, Invalidate, upstream, mirror, NoRows, Versions, Frames
  <1>7. CASE \E r \in Readers : Serving(r)
    BY <1>7, ServingType
  <1>8. CASE Expire
    BY <1>8 DEF MirrorTypeOK, Expire, upstream, mirror, NoRows, Versions, Frames
  <1>9. CASE Restart
    <2>1. faults' \in 0 .. MaxFaults
      BY <1>9, MirrorAssumption DEF Restart, MirrorTypeOK
    <2>2. memo' \in Memo /\ answers' = Nothing
      BY <1>9, RecordsType DEF Restart
    <2>3. /\ request' \in [Readers -> Call]
          /\ \A r \in Readers : request'[r].frame = NoRows
      BY <1>9, RecordsType DEF Restart, NoCall
    <2>4. import' = import \/ import' = NoPull
      BY <1>9 DEF Restart
    <2>5. /\ import' \in [pc : {"idle", "merge", "invalidate"}, mode : {"full", "window", "since"},
                          here : BOOLEAN, new : Frames]
          /\ import'.pc # "merge" => import'.new = NoRows
      BY <2>4, NoPullType DEF MirrorTypeOK, Imports
    <2>6. src' = src /\ edits' = edits /\ file' = file /\ mtime' = mtime
      BY <1>9 DEF Restart, upstream, mirror
    <2> QED
      BY <2>1, <2>2, <2>3, <2>5, <2>6 DEF MirrorTypeOK
  <1>10. CASE UNCHANGED vars
    BY <1>10 DEF MirrorTypeOK, vars, NoRows, Versions, Frames
  <1> QED
    BY <1>1, <1>2, <1>3, <1>4, <1>5, <1>6, <1>7, <1>8, <1>9, <1>10 DEF Next, Importing

-----------------------------------------------------------------------------
(* The memo: a signature is read before the rows it stands for, so a CSV    *)
(* replaced in between leaves a signature that is never current again.      *)
LEMMA MemoNext ==
  ASSUME MirrorTypeOK, MemoInv, [Next]_vars
  PROVE  MemoInv'
  <1>1. /\ mtime # 0 /\ NoMemo.seen = 0 /\ NoCall.pc = "idle"
        /\ \A r \in Readers : request[r] \in Call
    BY MirrorAssumption DEF MirrorTypeOK, NoMemo, NoCall
  <1>2. CASE \E d \in Dates : Edit(d)
    BY <1>2 DEF Edit, MemoInv, MemoNeverStale, mirror, eda
  <1>3. CASE \E mode \in {"full", "window", "since"}, here \in Importers : Pull(mode, here)
    BY <1>3 DEF Pull, MemoInv, MemoNeverStale, mirror, eda
  <1>4. CASE PullFails \/ EmptyPull
    BY <1>4 DEF PullFails, EmptyPull, MemoInv, MemoNeverStale, mirror, eda
  <1>5. CASE Save
    BY <1>5, FreshSignature DEF Save, MemoInv, MemoNeverStale, eda
  <1>6. CASE Invalidate
    BY <1>1, <1>6 DEF Invalidate, MemoInv, MemoNeverStale, mirror
  <1>7. ASSUME NEW r \in Readers, Serving(r)
        PROVE  MemoInv'
    <2>1. CASE Miss(r)
      <3>1. /\ file' = file /\ mtime' = mtime /\ memo' = memo
            /\ request' = [request EXCEPT ![r] = [NoCall EXCEPT !.pc = "parse", !.seen = mtime]]
        BY <2>1 DEF Miss, Step, mirror
      <3>2. [NoCall EXCEPT !.pc = "parse", !.seen = mtime].pc = "parse"
        BY DEF NoCall
      <3> QED
        BY <3>1, <3>2 DEF MemoInv, MemoNeverStale, MirrorTypeOK
    <2>2. CASE Recall(r)
      <3>1. [request[r] EXCEPT !.pc = "answer", !.frame = memo.frame].pc = "answer"
        BY <1>1 DEF Call
      <3> QED
        BY <2>2, <3>1 DEF Recall, Step, mirror, MemoInv, MemoNeverStale, MirrorTypeOK
    <2>3. CASE Parse(r)
      <3>1. [request[r] EXCEPT !.pc = "memo", !.frame = file].frame = file
        BY <1>1 DEF Call
      <3> QED
        BY <2>3, <3>1 DEF Parse, Step, mirror, MemoInv, MemoNeverStale, MirrorTypeOK
    <2>4. CASE Remember(r)
      <3>1. [request[r] EXCEPT !.pc = "answer"].pc = "answer"
        BY <1>1 DEF Call
      <3>2. /\ file' = file /\ mtime' = mtime /\ request[r].pc = "memo"
            /\ memo' = [seen |-> request[r].seen, frame |-> request[r].frame]
            /\ request' = [request EXCEPT ![r] = [request[r] EXCEPT !.pc = "answer"]]
        BY <2>4 DEF Remember, Step, mirror
      <3>3. memo'.seen = mtime' => memo'.frame = file'
        BY <3>2 DEF MemoInv
      <3>4. \A q \in Readers : request'[q].pc = "memo" /\ request'[q].seen = mtime'
                                  => request'[q].frame = file'
        BY <3>1, <3>2 DEF MemoInv, MirrorTypeOK
      <3> QED
        BY <3>3, <3>4 DEF MemoInv, MemoNeverStale
    <2>5. CASE Answer(r)
      BY <1>1, <2>5 DEF Answer, Step, mirror, MemoInv, MemoNeverStale, MirrorTypeOK
    <2> QED
      BY <1>7, <2>1, <2>2, <2>3, <2>4, <2>5 DEF Serving
  <1>8. CASE Expire
    BY <1>8 DEF Expire, MemoInv, MemoNeverStale, mirror
  <1>9. CASE Restart
    BY <1>1, <1>9 DEF Restart, MemoInv, MemoNeverStale, mirror
  <1>10. CASE UNCHANGED vars
    BY <1>10 DEF vars, MemoInv, MemoNeverStale
  <1> QED
    BY <1>2, <1>3, <1>4, <1>5, <1>6, <1>7, <1>8, <1>9, <1>10 DEF Next, Importing

-----------------------------------------------------------------------------
(* The pull: what it asks for is everything from some date on, so a row     *)
(* missing from it after a row it has is missing upstream.                  *)
LEMMA AskedUpward ==
  ASSUME NEW mode \in {"full", "window", "since"}, NEW d \in Asked(mode), NEW e \in Dates, e >= d
  PROVE  e \in Asked(mode)
  <1>1. d \in Dates /\ Dates \subseteq Nat /\ WindowStart \in Nat
    BY MirrorAssumption DEF Asked
  <1>2. CASE mode = "full"
    BY <1>2 DEF Asked
  <1>3. CASE mode = "window"
    BY <1>1, <1>3 DEF Asked
  <1>4. CASE mode = "since"
    <2>1. \A x \in Has(file) : d > x
      BY <1>4 DEF Asked
    <2>2. \A x \in Has(file) : e > x
      BY <1>1, <2>1, HasDates
    <2> QED
      BY <1>4, <2>2 DEF Asked
  <1> QED
    BY <1>2, <1>3, <1>4

LEMMA PulledKnows ==
  ASSUME MirrorTypeOK, PullInv, NEW mode \in {"full", "window", "since"}, NEW here \in Importers,
         Pull(mode, here)
  PROVE  PullInv'
  <1> DEFINE new == [d \in Dates |-> IF d \in Asked(mode) THEN src[d] ELSE Nothing]
  <1>1. /\ src' = src /\ edits' = edits /\ file' = file
        /\ import' = [pc |-> "merge", mode |-> mode, here |-> here, new |-> new]
    BY DEF Pull, upstream, mirror
  <1>2. import'.new = new /\ import'.mode = mode
    BY <1>1
  <1>3. \A d \in Dates : new[d] # Nothing => d \in Asked(mode) /\ new[d] = src[d]
    OBVIOUS
  <1>4. \A d \in Dates : d \in Asked(mode) => new[d] = src[d]
    OBVIOUS
  <1>5. mode = "full" => \A d \in Dates : d \in Asked(mode)
    BY DEF Asked
  <1> HIDE DEF new
  <1>6. \A d \in Dates : src[d] # Nothing => src[d] \in Nat
    BY FramesAreRows DEF MirrorTypeOK
  <1>7. NotAhead(new) /\ VersionsMade(new)
    BY <1>3, <1>6 DEF NotAhead, VersionsMade, PullInv
  <1>8. \A d \in Dates : file[d] # Nothing /\ new[d] # Nothing => file[d] <= new[d]
    BY <1>3 DEF NotAhead, PullInv
  <1>9. \A d, e \in Dates : new[d] # Nothing /\ e >= d /\ new[e] = Nothing => Gone(e)
    BY <1>3, <1>4, AskedUpward DEF Gone
  <1>10. mode = "full" => \A e \in Dates : new[e] = Nothing => Gone(e)
    BY <1>4, <1>5 DEF Gone
  <1> QED
    BY <1>1, <1>2, <1>7, <1>8, <1>9, <1>10 DEF PullInv, NotAhead, VersionsMade, Gone

LEMMA EditedKnows ==
  ASSUME MirrorTypeOK, PullInv, NEW x \in Dates, Edit(x)
  PROVE  PullInv'
  <1>1. /\ edits' = edits + 1 /\ edits \in Nat
        /\ file' = file /\ import' = import
    BY MirrorAssumption DEF Edit, MirrorTypeOK, mirror
  <1>2. \A d \in Dates : src'[d] \in {src[d], edits + 2, Nothing}
    BY DEF Edit, MirrorTypeOK, Frames
  <1>3. ASSUME NEW f \in Frames, NotAhead(f), VersionsMade(f)
        PROVE  /\ \A d \in Dates : f[d] # Nothing /\ src'[d] # Nothing => f[d] <= src'[d]
               /\ \A d \in Dates : f[d] # Nothing => f[d] <= edits' + 1
    <2> SUFFICES ASSUME NEW d \in Dates, f[d] # Nothing
                 PROVE  /\ src'[d] # Nothing => f[d] <= src'[d]
                        /\ f[d] <= edits' + 1
      OBVIOUS
    <2>1. f[d] \in Nat /\ f[d] <= edits + 1
      BY <1>3, FramesAreRows DEF VersionsMade
    <2>2. src[d] # Nothing => f[d] <= src[d]
      BY <1>3 DEF NotAhead
    <2> QED
      BY <1>1, <1>2, <2>1, <2>2
  <1>4. ASSUME NEW d \in Dates, src'[d] # Nothing
        PROVE  src'[d] <= edits' + 1
    <2>1. src[d] # Nothing => src[d] \in Nat /\ src[d] <= edits + 1
      BY FramesAreRows DEF PullInv, VersionsMade, MirrorTypeOK
    <2> QED
      BY <1>1, <1>2, <1>4, <2>1
  <1>5. ASSUME NEW e \in Dates, Gone(e)
        PROVE  file[e] # Nothing => src'[e] # file[e]
    <2> SUFFICES ASSUME file[e] # Nothing PROVE src'[e] # file[e]
      OBVIOUS
    <2>1. file[e] \in Nat /\ file[e] <= edits + 1
      BY FramesAreRows DEF PullInv, VersionsMade, MirrorTypeOK
    <2> QED
      BY <1>1, <1>2, <1>5, <2>1 DEF Gone
  <1>6. file \in Frames /\ import.new \in Frames
    BY DEF MirrorTypeOK
  <1>7. NotAhead(file)' /\ VersionsMade(file)' /\ VersionsMade(src)'
    BY <1>1, <1>3, <1>4, <1>6 DEF PullInv, NotAhead, VersionsMade
  <1>8. ASSUME import.pc = "merge"
        PROVE  /\ NotAhead(import.new)' /\ VersionsMade(import.new)'
               /\ \A d, e \in Dates : import.new[d] # Nothing /\ e >= d /\ import.new[e] = Nothing
                                          => Gone(e)'
               /\ import.mode = "full" => \A e \in Dates : import.new[e] = Nothing => Gone(e)'
    <2>1. NotAhead(import.new)' /\ VersionsMade(import.new)'
      BY <1>1, <1>3, <1>6, <1>8 DEF PullInv, NotAhead, VersionsMade
    <2>2. \A e \in Dates : Gone(e) => Gone(e)'
      BY <1>1, <1>5 DEF Gone
    <2> QED
      BY <2>1, <2>2, <1>8 DEF PullInv
  <1> QED
    BY <1>1, <1>7, <1>8 DEF PullInv

LEMMA SavedKnows ==
  ASSUME MirrorTypeOK, PullInv, Save
  PROVE  PullInv'
  <1>1. import.pc = "merge" /\ src' = src /\ edits' = edits /\ import'.pc = "invalidate"
    BY DEF Save, MirrorTypeOK, upstream
  <1>2. \A d \in Dates : file'[d] \in {Nothing, file[d], import.new[d]}
    BY SavedRow
  <1>3. NotAhead(file)' /\ VersionsMade(file)' /\ VersionsMade(src)'
    BY <1>1, <1>2 DEF PullInv, NotAhead, VersionsMade
  <1> QED
    BY <1>1, <1>3 DEF PullInv

(* Every step keeps what an import knows.                                   *)
LEMMA PullNext ==
  ASSUME MirrorTypeOK, PullInv, [Next]_vars
  PROVE  PullInv'
  <1>1. CASE \E d \in Dates : Edit(d)
    BY <1>1, EditedKnows
  <1>2. CASE \E mode \in {"full", "window", "since"}, here \in Importers : Pull(mode, here)
    BY <1>2, PulledKnows
  <1>3. CASE Save
    BY <1>3, SavedKnows
  <1>4. CASE PullFails \/ EmptyPull \/ Invalidate \/ Restart
    <2>1. src' = src /\ edits' = edits /\ file' = file
      BY <1>4 DEF PullFails, EmptyPull, Invalidate, Restart, upstream, mirror
    <2>2. import' = import \/ import'.pc # "merge"
      <3>1. NoPull \in Imports /\ NoPull.pc = "idle" /\ import \in Imports
        BY NoPullType DEF NoPull, MirrorTypeOK, Imports
      <3>2. CASE PullFails
        BY <3>1, <3>2 DEF PullFails, Imports
      <3>3. CASE EmptyPull
        BY <3>1, <3>3 DEF EmptyPull, Imports
      <3>4. CASE Invalidate \/ Restart
        BY <3>1, <3>4 DEF Invalidate, Restart
      <3> QED
        BY <1>4, <3>2, <3>3, <3>4
    <2> QED
      BY <2>1, <2>2 DEF PullInv, NotAhead, VersionsMade, Gone
  <1>5. CASE \/ Expire
             \/ UNCHANGED vars
             \/ \E r \in Readers : Serving(r)
    <2>1. src' = src /\ edits' = edits /\ file' = file /\ import' = import
      BY <1>5 DEF Expire, vars, Serving, Miss, Recall, Parse, Remember, Answer, upstream, mirror
    <2> QED
      BY <2>1 DEF PullInv, NotAhead, VersionsMade, Gone
  <1> QED
    BY <1>1, <1>2, <1>3, <1>4, <1>5 DEF Next, Importing

-----------------------------------------------------------------------------
MirrorSafe == MirrorTypeOK /\ MemoInv /\ PullInv

LEMMA MirrorAlwaysSafe == Spec => []MirrorSafe
  <1>1. Init => MirrorSafe
    BY MirrorInitSafe DEF MirrorSafe
  <1>2. MirrorSafe /\ [Next]_vars => MirrorSafe'
    BY MirrorNextType, MemoNext, PullNext DEF MirrorSafe
  <1> QED
    BY <1>1, <1>2, PTL DEF Spec

(* The mirror keeps its shape: only an import that has pulled carries rows, *)
(* only a request that has parsed carries a frame.                          *)
THEOREM MirrorTypeCorrect == Spec => []MirrorTypeOK
  <1>1. MirrorSafe => MirrorTypeOK
    BY DEF MirrorSafe
  <1> QED
    BY <1>1, MirrorAlwaysSafe, PTL

(* For any number of concurrent readers, a memo found under the signature   *)
(* just read holds the rows that are on disk.                               *)
THEOREM MemoIsCurrent == Spec => []MemoNeverStale
  <1>1. MirrorSafe => MemoNeverStale
    BY DEF MirrorSafe, MemoInv
  <1> QED
    BY <1>1, MirrorAlwaysSafe, PTL

(* No import, full or incremental, takes the CSV back to an older row or    *)
(* drops a row that upstream still has and the retention keeps.             *)
THEOREM RowsNeverGoBack == Spec => RowsMoveForward
  <1>1. ASSUME MirrorSafe, [Next]_vars, NEW d \in Dates, file'[d] # file[d], file[d] # Nothing
        PROVE  IF file'[d] = Nothing THEN d < RetainFrom \/ src[d] # file[d] ELSE file'[d] > file[d]
    <2>1. Save
      BY <1>1 DEF Next, Importing, vars, Edit, Pull, PullFails, EmptyPull, Invalidate, Serving,
                  Miss, Recall, Parse, Remember, Answer, Expire, Restart, upstream, mirror
    <2>2. /\ file'[d] \in {Nothing, file[d], import.new[d]}
          /\ file'[d] = Nothing => d < RetainFrom \/ Gone(d)
      BY <1>1, <2>1, SavedRow DEF MirrorSafe
    <2>3. CASE file'[d] = Nothing
      BY <1>1, <2>2, <2>3 DEF Gone
    <2>4. CASE file'[d] # Nothing
      <3>1. file'[d] = import.new[d] /\ import.new[d] # Nothing
        BY <1>1, <2>2, <2>4
      <3>2. import.pc = "merge"
        BY <2>1 DEF Save
      <3>3. file[d] <= import.new[d]
        BY <1>1, <3>1, <3>2 DEF MirrorSafe, PullInv
      <3>4. file[d] \in Nat /\ import.new[d] \in Nat
        BY <1>1, <3>1, FramesAreRows DEF MirrorSafe, MirrorTypeOK
      <3> QED
        BY <1>1, <2>4, <3>1, <3>3, <3>4
    <2> QED
      BY <2>3, <2>4
  <1>2. MirrorSafe /\ [Next]_vars
        => [\A d \in Dates : file'[d] # file[d] /\ file[d] # Nothing =>
              IF file'[d] = Nothing THEN d < RetainFrom \/ src[d] # file[d] ELSE file'[d] > file[d]]_vars
    BY <1>1
  <1> QED
    BY <1>2, MirrorAlwaysSafe, PTL DEF Spec, RowsMoveForward
=============================================================================
