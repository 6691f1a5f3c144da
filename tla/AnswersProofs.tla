----------------------------- MODULE AnswersProofs -----------------------------
(***************************************************************************)
(* Theorems about the four components that MCAnswers puts together.        *)
(* 1. ByteRange, for every file size and every pair of numbers: the three  *)
(*    replies of file_response are the ones RFC 9110 asks for.             *)
(* 2. DeviceCache, for every number of receivers, panels and scans: while  *)
(*    a connect is under way, what may be written to the list, and by      *)
(*    whom, never takes from the lookup a receiver that answers.           *)
(* 3. ReceiverScan, for every list of records: what merge makes of them.   *)
(*    Sums says what a list has to say of the records merged so far; one   *)
(*    turn of merge's loop keeps it, and by induction the whole fold.      *)
(* 4. CueTiming, for every track and every start of a stream: shift_vtt    *)
(*    makes of the blocks before a line just those that remain of them,    *)
(*    vtt_to_srt of those just their cues.  BlockShifts and BlockConverts  *)
(*    take each loop over one block, by induction on the lines of its      *)
(*    body; ShiftIsExact and ConvertIsExact go block by block.             *)
(*                                                                         *)
(* The induction theorems of the library take an operator, which the       *)
(* provers cannot instantiate; Induction takes a set.  A lemma about folds *)
(* cannot be stated for every operator either: FoldExists and FoldGoes are *)
(* about a function, and each fold of a module has a lemma that applies    *)
(* them to its own operator and names the states of the loop.              *)
(***************************************************************************)
EXTENDS MCAnswers, Sequences, SequenceTheorems, WellFoundedInduction, FiniteSetTheorems, TLAPS

-------------------------------------------------------------------------------
(* ByteRange *)

\* The parts of a header and the size, as the leaves below need them.
LEMMA InputTypes ==
    ASSUME TypeOK
    PROVE  /\ MaxU64 \in Nat
           /\ size \in Nat /\ size <= MaxU64
           /\ range.usable \in BOOLEAN
           /\ range.first = Missing \/ range.first \in Nat
           /\ range.second = Missing \/ range.second \in Nat
           /\ Missing \notin Nat
  <1>1. size \in Sizes /\ range \in Headers
    BY DEF TypeOK
  <1>2. MaxU64 \in Nat /\ size \in 0..MaxU64
    BY <1>1, SizesAssumption
  <1>3. /\ range.usable \in BOOLEAN
        /\ range.first \in Numbers \cup {Missing}
        /\ range.second \in Numbers \cup {Missing}
    BY <1>1 DEF Headers
  <1>4. /\ range.first = Missing \/ range.first \in Nat
        /\ range.second = Missing \/ range.second \in Nat
    BY <1>3, SizesAssumption
  <1> QED BY <1>2, <1>3, <1>4, MissingAssumption

\* What parse_range returns lies within the file unless the reply is a 416.
LEMMA RangeWithinFile ==
    ASSUME TypeOK, Valid(range)
    PROVE  /\ Low(range, size) \in Nat /\ Low(range, size) <= MaxU64
           /\ High(range, size) \in Nat
           /\ size > 0 => High(range, size) < size
  <1>1. CASE range.first = Missing
    BY <1>1, InputTypes DEF Low, High, Sat, Valid, Parses
  <1>2. CASE range.first # Missing /\ range.second = Missing
    BY <1>2, InputTypes DEF Low, High, Sat, Valid, Parses
  <1>3. CASE range.first # Missing /\ range.second # Missing
    BY <1>3, InputTypes DEF Low, High, Sat, Valid, Parses
  <1> QED BY <1>1, <1>2, <1>3

\* A position lies between Low and High just if it is in the file and asked for.
LEMMA RangeIsWhatIsAskedFor ==
    ASSUME TypeOK, Valid(range), size > 0, NEW p \in Nat
    PROVE  Low(range, size) <= p /\ p <= High(range, size)
              <=> p < size /\ AskedFor(range, p, size)
  <1>1. CASE range.first = Missing
    BY <1>1, InputTypes DEF Low, High, Sat, Valid, Parses, AskedFor
  <1>2. CASE range.first # Missing /\ range.second = Missing
    BY <1>2, InputTypes DEF Low, High, Sat, Valid, Parses, AskedFor
  <1>3. CASE range.first # Missing /\ range.second # Missing
    BY <1>3, InputTypes DEF Low, High, Sat, Valid, Parses, AskedFor
  <1> QED BY <1>1, <1>2, <1>3

\* The invariant of the replies.
Exact ==
    /\ TypeOK
    /\ PartialIsExact
    /\ UnsatisfiableIsRefused
    /\ WholeFileOtherwise

LEMMA RepliesAreTyped ==
    ASSUME TypeOK
    PROVE  Respond(range, size) \in [status : Statuses, start : 0..MaxU64, length : 0..MaxU64]
  <1>1. CASE ~Valid(range)
    BY <1>1, InputTypes DEF Respond, Statuses
  <1>2. CASE /\ Valid(range)
             /\ Low(range, size) > High(range, size) \/ Low(range, size) >= size
    BY <1>2, InputTypes DEF Respond, Statuses
  <1>3. CASE /\ Valid(range)
             /\ ~(Low(range, size) > High(range, size) \/ Low(range, size) >= size)
    <2>1. /\ Low(range, size) \in 0..MaxU64
          /\ High(range, size) - Low(range, size) + 1 \in 0..MaxU64
      BY <1>3, RangeWithinFile, InputTypes
    <2>2. Respond(range, size) =
             [status |-> 206, start |-> Low(range, size),
              length |-> High(range, size) - Low(range, size) + 1]
      BY <1>3 DEF Respond
    <2> QED BY <2>1, <2>2 DEF Statuses
  <1> QED BY <1>1, <1>2, <1>3

LEMMA AnswerIsExact ==
    ASSUME Exact, Answer
    PROVE  Exact'
  <1> USE DEF Exact
  <1>0. size' = size /\ range' = range /\ reply' = Respond(range, size)
    BY DEF Answer
  <1>1. TypeOK'
    BY <1>0, RepliesAreTyped DEF TypeOK
  <1>2. CASE ~Valid(range)
    <2>1. reply' = [status |-> 200, start |-> 0, length |-> size]
      BY <1>0, <1>2 DEF Respond
    <2>2. WholeFileOtherwise'
      BY <1>0, <1>2, <2>1, InputTypes DEF WholeFileOtherwise, Valid, Parses
    <2> QED BY <1>1, <2>1, <2>2 DEF PartialIsExact, UnsatisfiableIsRefused
  <1>3. CASE /\ Valid(range)
             /\ Low(range, size) > High(range, size) \/ Low(range, size) >= size
    <2>1. reply' = [status |-> 416, start |-> 0, length |-> 0]
      BY <1>0, <1>3 DEF Respond
    <2>2. ASSUME NEW p \in 0..MaxU64, p < size
          PROVE  ~AskedFor(range, p, size)
      BY <1>3, <2>2, RangeIsWhatIsAskedFor, RangeWithinFile, InputTypes
    <2>3. range.usable /\ (Missing \in {range.first, range.second} \/ range.first <= range.second)
      BY <1>3 DEF Valid
    <2>4. UnsatisfiableIsRefused'
      BY <1>0, <2>2, <2>3 DEF UnsatisfiableIsRefused, AskedFor
    <2> QED BY <1>1, <2>1, <2>4 DEF PartialIsExact, WholeFileOtherwise
  <1>4. CASE /\ Valid(range)
             /\ ~(Low(range, size) > High(range, size) \/ Low(range, size) >= size)
    <2> DEFINE lo == Low(range, size)
               hi == High(range, size)
    <2>1. reply' = [status |-> 206, start |-> lo, length |-> hi - lo + 1]
      BY <1>0, <1>4 DEF Respond
    <2>2. lo \in Nat /\ hi \in Nat /\ lo <= hi /\ size > 0
      BY <1>4, RangeWithinFile, InputTypes
    <2>3. ASSUME NEW p \in 0..MaxU64
          PROVE  p \in lo..(lo + (hi - lo + 1) - 1)
                    <=> p < size /\ AskedFor(range, p, size)
      <3>1. p \in lo..(lo + (hi - lo + 1) - 1) <=> lo <= p /\ p <= hi
        BY <2>2, InputTypes
      <3> QED BY <3>1, <1>4, <2>2, RangeIsWhatIsAskedFor, InputTypes
    <2>4. PartialIsExact'
      <3>1. /\ reply'.status = 206 /\ reply'.start = lo /\ reply'.length = hi - lo + 1
            /\ size' = size /\ range' = range
        BY <1>0, <2>1
      <3>2. hi - lo + 1 > 0
        BY <2>2
      <3> HIDE DEF lo, hi
      <3> QED BY <2>3, <3>1, <3>2 DEF PartialIsExact, AskedFor
    <2> QED BY <1>1, <2>1, <2>4 DEF UnsatisfiableIsRefused, WholeFileOtherwise
  <1> QED BY <1>2, <1>3, <1>4

LEMMA ExactInit == Init => Exact
  BY SizesAssumption
  DEF Init, Exact, TypeOK, Statuses, NoReply, PartialIsExact,
      UnsatisfiableIsRefused, WholeFileOtherwise

LEMMA ExactNext == Exact /\ [Next]_vars => Exact'
  <1>1. ASSUME Exact, Answer PROVE Exact'
    BY <1>1, AnswerIsExact
  <1>2. ASSUME Exact, UNCHANGED vars PROVE Exact'
    BY <1>2 DEF vars, Exact, TypeOK, PartialIsExact, UnsatisfiableIsRefused,
                WholeFileOtherwise, AskedFor
  <1> QED BY <1>1, <1>2 DEF Next, Done

LEMMA ExactInvariant == Spec => []Exact
  BY ExactInit, ExactNext, PTL DEF Spec

\* Whatever the size of the file and the header, a receiver is sent just the bytes
\* it asked for, refused only what the file does not have, and sent the whole file
\* only for a header that is to be ignored (file_response, parse_range).
THEOREM RepliesAreExactHolds == Spec => []RepliesAreExact
  <1>1. Exact => RepliesAreExact
    BY DEF Exact, RepliesAreExact
  <1> QED BY <1>1, ExactInvariant, PTL

-------------------------------------------------------------------------------
(* DeviceCache *)

\* A receiver that has answered ever since the lookup began answers now.
SteadyAnswers ==
    task[Cache!Lookup].steady => task[Cache!Lookup].ip \in reach

CacheInv == Cache!TypeOK /\ SteadyAnswers /\ SteadyIsFound

LEMMA CacheInvInit == MCInit => CacheInv
<1> SUFFICES ASSUME MCInit PROVE CacheInv
  OBVIOUS
<1>1. /\ cache = {} /\ fresh = FALSE /\ reach \in SUBSET KnownIps /\ scans = 0
      /\ task \in [Cache!Tasks -> {[at |-> "idle", ip |-> ip, heard |-> {}, steady |-> FALSE] :
                                    ip \in KnownIps}]
  <2>1. CASE part = "cache"
    BY <2>1 DEF MCInit, Cache!Init
  <2>2. CASE part # "cache"
    <3>1. (CHOOSE ip \in KnownIps : TRUE) \in KnownIps
      BY CacheAssumption DEF Cache!BoundsAssumption
    <3> QED
      BY <2>2, <3>1 DEF MCInit, CacheRests
  <2> QED
    BY <2>1, <2>2
<1>2. ASSUME NEW t \in Cache!Tasks
      PROVE  task[t] \in Cache!Task /\ task[t].at = "idle" /\ task[t].steady = FALSE
  <2>1. PICK ip \in KnownIps :
           task[t] = [at |-> "idle", ip |-> ip, heard |-> {}, steady |-> FALSE]
    BY <1>1
  <2>2. "idle" \in Cache!Steps
    BY DEF Cache!Steps
  <2> QED
    BY <2>1, <2>2 DEF Cache!Task
<1>3. task \in [Cache!Tasks -> Cache!Task]
  BY <1>1, <1>2
<1>4. Cache!Lookup \in Cache!Tasks
  BY DEF Cache!Tasks
<1>5. MaxScans \in Nat
  BY CacheAssumption DEF Cache!BoundsAssumption
<1>6. Cache!TypeOK
  <2>1. cache \subseteq Cache!Entry /\ fresh \in BOOLEAN /\ reach \subseteq KnownIps
    BY <1>1
  <2>2. scans \in 0..MaxScans
    BY <1>1, <1>5
  <2> QED
    BY <1>3, <2>1, <2>2 DEF Cache!TypeOK
<1>7. SteadyAnswers /\ SteadyIsFound
  BY <1>2, <1>4 DEF SteadyAnswers, SteadyIsFound, Cache!SteadyIsFound
<1> QED
  BY <1>6, <1>7 DEF CacheInv

\* What the list and a task may hold.
LEMMA CacheTyped ==
    ASSUME CacheInv
    PROVE  /\ cache \subseteq Cache!Entry /\ fresh \in BOOLEAN /\ reach \subseteq KnownIps
           /\ task \in [Cache!Tasks -> Cache!Task] /\ scans \in 0..MaxScans
           /\ Cache!Lookup \in Cache!Tasks /\ Cache!Lookup \notin Clients
           /\ Clients \subseteq Cache!Tasks
           /\ \A t \in Cache!Tasks :
                task[t].at \in Cache!Steps /\ task[t].heard \subseteq Cache!Entry
  BY CacheAssumption DEF CacheInv, Cache!TypeOK, Cache!Tasks, Cache!Task, Cache!BoundsAssumption

\* What a scan hears is of its own number.
LEMMA ScannedTyped ==
    ASSUME CacheInv, scans < MaxScans, scans' = scans + 1, NEW ips \in SUBSET KnownIps
    PROVE  scans' \in 0..MaxScans /\ Cache!Scanned(ips) \subseteq Cache!Entry
<1>1. scans' \in 0..MaxScans /\ scans' \in 1..MaxScans
  BY CacheTyped, CacheAssumption DEF Cache!BoundsAssumption
<1> QED
  BY <1>1 DEF Cache!Scanned, Cache!Entry

\* One task goes to a step with what it heard, and the addresses stay.
LEMMA TaskMoves ==
    ASSUME CacheInv, NEW t \in Cache!Tasks,
           NEW step \in Cache!Steps, NEW heard \in SUBSET Cache!Entry,
           \/ task' = [task EXCEPT ![t].at = step, ![t].heard = heard]
           \/ task' = [task EXCEPT ![t].heard = heard, ![t].at = step]
           \/ task' = [task EXCEPT ![t].at = step] /\ heard = task[t].heard
           \/ task' = [task EXCEPT ![t].heard = heard] /\ step = task[t].at
    PROVE  /\ task' \in [Cache!Tasks -> Cache!Task]
           /\ task'[t].at = step
           /\ \A u \in Cache!Tasks : /\ task'[u].ip = task[u].ip
                                     /\ task'[u].steady = task[u].steady
                                     /\ u # t => task'[u] = task[u]
<1>1. task \in [Cache!Tasks -> Cache!Task] /\ task[t] \in Cache!Task
  BY CacheTyped
<1> DEFINE r == [task[t] EXCEPT !.at = step, !.heard = heard]
<1>2. /\ r \in Cache!Task /\ r.at = step
      /\ r.ip = task[t].ip /\ r.steady = task[t].steady
  BY <1>1 DEF Cache!Task
<1>3. task' = [task EXCEPT ![t] = r]
  <2>1. /\ [task[t] EXCEPT !.heard = heard, !.at = step] = r
        /\ heard = task[t].heard => [task[t] EXCEPT !.at = step] = r
        /\ step = task[t].at => [task[t] EXCEPT !.heard = heard] = r
    BY <1>1 DEF Cache!Task
  <2>2. CASE task' = [task EXCEPT ![t].at = step, ![t].heard = heard]
    BY <1>1, <2>2
  <2>3. CASE task' = [task EXCEPT ![t].heard = heard, ![t].at = step]
    BY <1>1, <2>1, <2>3
  <2>4. CASE task' = [task EXCEPT ![t].at = step] /\ heard = task[t].heard
    BY <1>1, <2>1, <2>4
  <2>5. CASE task' = [task EXCEPT ![t].heard = heard] /\ step = task[t].at
    BY <1>1, <2>1, <2>5
  <2> QED
    BY <2>2, <2>3, <2>4, <2>5
<1> HIDE DEF r
<1> QED
  BY <1>1, <1>2, <1>3

\* Such a step keeps the invariant unless it calls a receiver unknown that answers.
LEMMA MoveKeeps ==
    ASSUME CacheInv, NEW t \in Cache!Tasks,
           NEW step \in Cache!Steps, NEW heard \in SUBSET Cache!Entry,
           \/ task' = [task EXCEPT ![t].at = step, ![t].heard = heard]
           \/ task' = [task EXCEPT ![t].heard = heard, ![t].at = step]
           \/ task' = [task EXCEPT ![t].at = step] /\ heard = task[t].heard
           \/ task' = [task EXCEPT ![t].heard = heard] /\ step = task[t].at,
           cache' \subseteq Cache!Entry, fresh' \in BOOLEAN, reach' = reach,
           scans' \in 0..MaxScans,
           step # "unknown" \/ (t = Cache!Lookup /\ task[t].ip \notin reach \cap Renderers)
    PROVE  CacheInv'
<1>1. /\ task' \in [Cache!Tasks -> Cache!Task]
      /\ task'[t].at = step
      /\ \A u \in Cache!Tasks : /\ task'[u].ip = task[u].ip
                                /\ task'[u].steady = task[u].steady
                                /\ u # t => task'[u] = task[u]
  BY TaskMoves
<1>2. Cache!Lookup \in Cache!Tasks /\ reach \subseteq KnownIps
  BY CacheTyped
<1>3. Cache!TypeOK'
  BY <1>1, <1>2 DEF Cache!TypeOK
<1>4. SteadyAnswers'
  BY <1>1, <1>2 DEF CacheInv, SteadyAnswers
<1>5. SteadyIsFound'
  <2>1. CASE t # Cache!Lookup
    BY <1>1, <1>2, <2>1 DEF CacheInv, SteadyIsFound, Cache!SteadyIsFound
  <2>2. CASE t = Cache!Lookup
    BY <1>1, <1>2, <2>2 DEF CacheInv, SteadyAnswers, SteadyIsFound, Cache!SteadyIsFound
  <2> QED
    BY <2>1, <2>2
<1> QED
  BY <1>3, <1>4, <1>5 DEF CacheInv

\* The list is read: by a request of the panel, or by connect.
LEMMA ReadsKeep ==
    ASSUME CacheInv, NEW t \in Cache!Tasks,
           \/ \E force \in BOOLEAN : Cache!Ask(t, force)
           \/ Cache!AskForConnect(t)
    PROVE  CacheInv'
<1>1. /\ UNCHANGED <<cache, fresh, reach, scans>>
      /\ \/ task' = [task EXCEPT ![t].at = "answered", ![t].heard = cache]
         \/ task' = [task EXCEPT ![t].at = "scanning"]
  BY DEF Cache!Ask, Cache!AskForConnect, Cache!Goto
<1>2. {"answered", "scanning"} \subseteq Cache!Steps
  BY DEF Cache!Steps
<1>3. CASE task' = [task EXCEPT ![t].at = "answered", ![t].heard = cache]
  BY <1>1, <1>2, <1>3, CacheTyped, MoveKeeps
<1>4. CASE task' = [task EXCEPT ![t].at = "scanning"]
  <2> DEFINE heard == task[t].heard
  <2>1. heard \in SUBSET Cache!Entry
    BY CacheTyped
  <2> HIDE DEF heard
  <2>2. task' = [task EXCEPT ![t].at = "scanning"] /\ heard = task[t].heard
    BY <1>4 DEF heard
  <2> QED
    BY <1>1, <1>2, <2>1, <2>2, CacheTyped, MoveKeeps
<1> QED
  BY <1>1, <1>3, <1>4

LEMMA ScanKeeps ==
    ASSUME CacheInv, NEW t \in Cache!Tasks, Cache!Scan(t)
    PROVE  CacheInv'
<1>1. PICK ips \in SUBSET reach : task' = [task EXCEPT ![t].heard = Cache!Scanned(ips)]
  BY DEF Cache!Scan
<1>2. /\ UNCHANGED <<cache, fresh, reach>> /\ scans < MaxScans /\ scans' = scans + 1
      /\ task[t].at = "scanning"
  BY DEF Cache!Scan
<1>3. ips \in SUBSET KnownIps
  BY CacheTyped
<1> DEFINE heard == Cache!Scanned(ips)
<1>4. scans' \in 0..MaxScans /\ heard \in SUBSET Cache!Entry
  BY <1>2, <1>3, ScannedTyped
<1> HIDE DEF heard
<1>5. "scanning" \in Cache!Steps
  BY DEF Cache!Steps
<1>6. task' = [task EXCEPT ![t].heard = heard] /\ "scanning" = task[t].at
  BY <1>1, <1>2 DEF heard
<1> QED
  BY <1>2, <1>4, <1>5, <1>6, CacheTyped, MoveKeeps

LEMMA OverwriteKeeps ==
    ASSUME CacheInv, NEW t \in Cache!Tasks, Cache!Overwrite(t)
    PROVE  CacheInv'
<1> DEFINE heard == task[t].heard
<1>1. heard \in SUBSET Cache!Entry
  BY CacheTyped
<1>2. cache' = heard /\ fresh' \in BOOLEAN /\ UNCHANGED <<reach, scans>>
  BY DEF Cache!Overwrite
<1> HIDE DEF heard
<1>3. task' = [task EXCEPT ![t].at = "answered"] /\ heard = task[t].heard
  BY DEF Cache!Overwrite, Cache!Goto, heard
<1>4. "answered" \in Cache!Steps
  BY DEF Cache!Steps
<1> QED
  BY <1>1, <1>2, <1>3, <1>4, CacheTyped, MoveKeeps

LEMMA ReplyKeeps ==
    ASSUME CacheInv, NEW t \in Cache!Tasks, Cache!Reply(t)
    PROVE  CacheInv'
<1>1. /\ UNCHANGED <<cache, fresh, reach, scans>>
      /\ task' = [task EXCEPT ![t].at = "idle", ![t].heard = {}]
  BY DEF Cache!Reply
<1>2. "idle" \in Cache!Steps /\ {} \in SUBSET Cache!Entry
  BY DEF Cache!Steps
<1> QED
  BY <1>1, <1>2, CacheTyped, MoveKeeps

\* connect begins a lookup, or is over.
LEMMA LookupEndsKeep ==
    ASSUME CacheInv, Cache!BeginLookup \/ Cache!EndLookup
    PROVE  CacheInv'
<1> DEFINE l == Cache!Lookup
<1>1. /\ UNCHANGED <<cache, fresh, reach, scans>>
      /\ \E r \in Cache!Task : /\ task' = [task EXCEPT ![l] = r]
                               /\ r.at # "unknown" /\ (r.steady => r.ip \in reach)
  <2>1. CASE Cache!BeginLookup
    <3>1. PICK ip \in KnownIps :
             task' = [task EXCEPT ![l] =
                        [at |-> "find", ip |-> ip, heard |-> {}, steady |-> ip \in reach]]
      BY <2>1 DEF Cache!BeginLookup
    <3> DEFINE r == [at |-> "find", ip |-> ip, heard |-> {}, steady |-> ip \in reach]
    <3>2. r \in Cache!Task /\ r.at # "unknown" /\ (r.steady => r.ip \in reach)
      <4>1. CASE ip \in reach
        <5>1. r = [at |-> "find", ip |-> ip, heard |-> {}, steady |-> TRUE]
          <6>1. (ip \in reach) = TRUE
            BY <4>1
          <6> QED
            BY <6>1
        <5> QED
          BY <4>1, <5>1 DEF Cache!Task, Cache!Steps
      <4>2. CASE ip \notin reach
        <5>1. r = [at |-> "find", ip |-> ip, heard |-> {}, steady |-> FALSE]
          <6>1. (ip \in reach) = FALSE
            BY <4>2
          <6> QED
            BY <6>1
        <5> QED
          BY <4>2, <5>1 DEF Cache!Task, Cache!Steps
      <4> QED
        BY <4>1, <4>2
    <3> QED
      BY <2>1, <3>1, <3>2 DEF Cache!BeginLookup
  <2>2. CASE Cache!EndLookup
    <3> DEFINE r == [task[l] EXCEPT !.at = "idle", !.heard = {}, !.steady = FALSE]
    <3>1. task[l] \in Cache!Task
      BY CacheTyped
    <3>2. r \in Cache!Task /\ r.at # "unknown" /\ (r.steady => r.ip \in reach)
      BY <3>1 DEF Cache!Task, Cache!Steps
    <3>3. task' = [task EXCEPT ![l] = r]
      BY <2>2, CacheTyped DEF Cache!EndLookup
    <3> QED
      BY <2>2, <3>2, <3>3 DEF Cache!EndLookup
  <2> QED
    BY <2>1, <2>2
<1>2. PICK r \in Cache!Task : /\ task' = [task EXCEPT ![l] = r]
                             /\ r.at # "unknown" /\ (r.steady => r.ip \in reach)
  BY <1>1
<1>3. task' \in [Cache!Tasks -> Cache!Task] /\ task'[l] = r
  BY <1>2, CacheTyped
<1>4. Cache!TypeOK'
  BY <1>1, <1>3, CacheTyped DEF Cache!TypeOK
<1>5. SteadyAnswers' /\ SteadyIsFound'
  BY <1>1, <1>2, <1>3 DEF SteadyAnswers, SteadyIsFound, Cache!SteadyIsFound
<1> QED
  BY <1>4, <1>5 DEF CacheInv

\* connect finds the device in the list, or in what its scan heard.
LEMMA FindKeeps ==
    ASSUME CacheInv, Cache!FindCached \/ Cache!FindScanned
    PROVE  CacheInv'
<1> DEFINE l == Cache!Lookup
<1>1. UNCHANGED <<cache, fresh, reach, scans>>
  BY DEF Cache!FindCached, Cache!FindScanned
<1>2. PICK entries \in SUBSET Cache!Entry, step \in {"scan", "probe", "found"} :
         task' = [task EXCEPT ![l].heard = Cache!Wanted(entries), ![l].at = step]
  <2>1. CASE Cache!FindCached
    BY <2>1, CacheTyped DEF Cache!FindCached
  <2>2. CASE Cache!FindScanned
    BY <2>2, CacheTyped DEF Cache!FindScanned
  <2> QED
    BY <2>1, <2>2
<1>3. step \in Cache!Steps /\ step # "unknown"
  BY DEF Cache!Steps
<1> DEFINE heard == Cache!Wanted(entries)
<1>4. heard \in SUBSET Cache!Entry
  BY DEF Cache!Wanted
<1> HIDE DEF heard
<1>5. task' = [task EXCEPT ![l].heard = heard, ![l].at = step]
  BY <1>2 DEF heard
<1> QED
  BY <1>1, <1>3, <1>4, <1>5, CacheTyped, MoveKeeps

LEMMA ProbeKeeps ==
    ASSUME CacheInv, Cache!Probe \/ Cache!AddProbed \/ Cache!ProbeFails
    PROVE  CacheInv'
<1> DEFINE l == Cache!Lookup
<1>1. {"probe", "found", "unknown"} \subseteq Cache!Steps
  BY DEF Cache!Steps
<1>2. CASE Cache!Probe
  <2> DEFINE heard == Cache!Scanned({task[l].ip})
  <2>1. /\ UNCHANGED <<cache, fresh, reach>> /\ scans < MaxScans /\ scans' = scans + 1
        /\ task[l].at = "probe" /\ task[l].ip \in reach
        /\ task' = [task EXCEPT ![l].heard = heard]
    BY <1>2 DEF Cache!Probe
  <2>2. {task[l].ip} \in SUBSET KnownIps
    BY <2>1, CacheTyped
  <2>3. scans' \in 0..MaxScans /\ heard \in SUBSET Cache!Entry
    BY <2>1, <2>2, ScannedTyped
  <2> HIDE DEF heard
  <2>4. task' = [task EXCEPT ![l].heard = heard] /\ "probe" = task[l].at
    BY <2>1
  <2> QED
    BY <1>1, <2>1, <2>3, <2>4, CacheTyped, MoveKeeps
<1>3. CASE Cache!AddProbed
  <2> DEFINE heard == task[l].heard
  <2>1. heard \in SUBSET Cache!Entry
    BY CacheTyped
  <2>2. UNCHANGED <<fresh, reach, scans>> /\ cache' \subseteq Cache!Entry
    BY <1>3, <2>1, CacheTyped DEF Cache!AddProbed
  <2> HIDE DEF heard
  <2>3. task' = [task EXCEPT ![l].at = "found"] /\ heard = task[l].heard
    BY <1>3 DEF Cache!AddProbed, Cache!Goto, heard
  <2> QED
    BY <1>1, <2>1, <2>2, <2>3, CacheTyped, MoveKeeps
<1>4. CASE Cache!ProbeFails
  <2> DEFINE heard == task[l].heard
  <2>1. heard \in SUBSET Cache!Entry
    BY CacheTyped
  <2>2. UNCHANGED <<cache, fresh, reach, scans>> /\ task[l].ip \notin reach \cap Renderers
    BY <1>4 DEF Cache!ProbeFails
  <2> HIDE DEF heard
  <2>3. task' = [task EXCEPT ![l].at = "unknown"] /\ heard = task[l].heard
    BY <1>4 DEF Cache!ProbeFails, Cache!Goto, heard
  <2> QED
    BY <1>1, <2>1, <2>2, <2>3, CacheTyped, MoveKeeps
<1> QED
  BY <1>2, <1>3, <1>4

\* A receiver is switched on or off: one that is looked for has not been steady.
LEMMA SwitchKeeps ==
    ASSUME CacheInv, NEW ip \in KnownIps, Cache!Switch(ip)
    PROVE  CacheInv'
<1> DEFINE l == Cache!Lookup
           r == [task[l] EXCEPT !.steady = task[l].steady /\ task[l].ip # ip]
<1>1. /\ UNCHANGED <<cache, fresh, scans>>
      /\ reach' = IF ip \in reach THEN reach \ {ip} ELSE reach \cup {ip}
      /\ task' = [task EXCEPT ![l] = r]
  BY CacheTyped DEF Cache!Switch
<1>2. task[l] \in Cache!Task
  BY CacheTyped
<1>3. /\ r \in Cache!Task /\ r.at = task[l].at /\ r.ip = task[l].ip
      /\ r.steady => task[l].steady /\ task[l].ip # ip
  BY <1>2 DEF Cache!Task
<1> HIDE DEF r
<1>4. task' \in [Cache!Tasks -> Cache!Task] /\ task'[l] = r
  BY <1>1, <1>3, CacheTyped
<1>5. Cache!TypeOK'
  BY <1>1, <1>4, CacheTyped DEF Cache!TypeOK
<1>6. SteadyAnswers' /\ SteadyIsFound'
  BY <1>1, <1>3, <1>4 DEF CacheInv, SteadyAnswers, SteadyIsFound, Cache!SteadyIsFound
<1> QED
  BY <1>5, <1>6 DEF CacheInv

LEMMA CacheInvNext ==
    ASSUME CacheInv, [MCNext]_<<part, vars, trackVars, scanVars, cacheVars>>
    PROVE  CacheInv'
<1>1. CASE Cache!Next
  <2>1. Cache!Lookup \in Cache!Tasks /\ Clients \subseteq Cache!Tasks
    BY CacheTyped
  <2>2. ASSUME NEW t \in Clients, NEW force \in BOOLEAN, Cache!Ask(t, force)
        PROVE  CacheInv'
    BY <2>1, <2>2, ReadsKeep
  <2>3. ASSUME NEW t \in Cache!Tasks, Cache!Scan(t) \/ Cache!Overwrite(t) \/ Cache!Reply(t)
        PROVE  CacheInv'
    BY <2>3, ScanKeeps, OverwriteKeeps, ReplyKeeps
  <2>4. CASE Cache!LookupStep
    BY <2>1, <2>4, ReadsKeep, LookupEndsKeep, FindKeeps, ProbeKeeps DEF Cache!LookupStep
  <2>5. CASE Cache!Expire
    BY <2>5 DEF Cache!Expire, CacheInv, Cache!TypeOK, SteadyAnswers, SteadyIsFound,
                Cache!SteadyIsFound
  <2>6. ASSUME NEW ip \in KnownIps, Cache!Switch(ip)
        PROVE  CacheInv'
    BY <2>6, SwitchKeeps
  <2> QED
    BY <1>1, <2>2, <2>3, <2>4, <2>5, <2>6 DEF Cache!Next
<1>2. CASE UNCHANGED cacheVars
  BY <1>2 DEF cacheVars, CacheInv, Cache!TypeOK, SteadyAnswers, SteadyIsFound, Cache!SteadyIsFound
<1> QED
  BY <1>1, <1>2 DEF MCNext, RangeStep, TrackStep, ScanStep, CacheStep, cacheVars

\* A DLNA receiver that answers all through a connect is found, whatever its scan
\* missed and whatever the scans beside it write to the list (daemon.rs, lookup of
\* connect).
THEOREM SteadyIsFoundHolds == MCSpec => []SteadyIsFound
<1>1. CacheInv => SteadyIsFound
  BY DEF CacheInv
<1> QED
  BY <1>1, CacheInvInit, CacheInvNext, PTL DEF MCSpec

-------------------------------------------------------------------------------
(* Induction, and folds over sequences *)

\* Every set of natural numbers has a least element.
LEMMA LeastNumber ==
    ASSUME NEW T \in SUBSET Nat, T # {}
    PROVE  \E n \in T : \A m \in T : n <= m
<1> DEFINE R == OpToRel(<, Nat)
<1>1. IsWellFoundedOn(R, Nat)
  BY NatLessThanWellFounded
<1>2. \A m, n \in Nat : m < n => <<m, n>> \in R
  BY DEF OpToRel
<1> HIDE DEF R
<1>3. PICK n \in T : \A m \in T : ~ (<<m, n>> \in R)
  BY <1>1, WFMin
<1>4. ASSUME NEW m \in T PROVE n <= m
  <2>1. m \in Nat /\ n \in Nat /\ ~(m < n)
    BY <1>2, <1>3
  <2> QED
    BY <2>1
<1> QED
  BY <1>4

\* Induction over the natural numbers, for a set rather than an operator.
LEMMA Induction ==
    ASSUME NEW S, 0 \in S, \A n \in Nat : n \in S => n + 1 \in S
    PROVE  Nat \subseteq S
<1> SUFFICES ASSUME NEW k \in Nat, k \notin S PROVE FALSE
  OBVIOUS
<1> DEFINE T == {n \in Nat : n \notin S}
<1>1. PICK n \in T : \A m \in T : n <= m
  BY LeastNumber
<1>2. n # 0 /\ n - 1 \in Nat /\ n - 1 \notin T
  BY <1>1
<1> QED
  BY <1>1, <1>2

\* Max of FiniteSetsExt, by which a fold over a sequence goes.
Top(T) == CHOOSE x \in T : \A y \in T : x >= y

LEMMA TopIsGreatest ==
    ASSUME NEW n \in Nat, NEW T \in SUBSET (1..n), T # {}
    PROVE  Top(T) \in T /\ \A y \in T : Top(T) >= y
<1> DEFINE U == {k \in Nat : \A y \in T : k >= y}
<1>1. n \in U
  OBVIOUS
<1>2. PICK m \in U : \A k \in U : m <= k
  BY <1>1, LeastNumber
<1>3. m \in T
  <2> SUFFICES ASSUME m \notin T PROVE FALSE
    OBVIOUS
  <2>1. \A y \in T : y \in Nat /\ y >= 1 /\ m >= y /\ m # y
    BY <1>2
  <2>2. m - 1 \in Nat /\ \A y \in T : m - 1 >= y
    <3>1. PICK y \in T : TRUE
      OBVIOUS
    <3>2. m \in Nat /\ m >= 1
      BY <1>2, <2>1, <3>1
    <3>3. ASSUME NEW z \in T PROVE m - 1 >= z
      BY <2>1, <3>2, <3>3
    <3> QED
      BY <3>2, <3>3
  <2>3. m - 1 \in U
    BY <2>2
  <2> QED
    BY <1>2, <2>3
<1> QED
  BY <1>2, <1>3 DEF Top

LEMMA TopOfInterval ==
    ASSUME NEW n \in Nat \ {0}
    PROVE  Top(1..n) = n /\ (1..n) \ {n} = 1..(n - 1)
<1>1. n \in 1..n
  OBVIOUS
<1>2. Top(1..n) \in 1..n /\ Top(1..n) >= n
  BY <1>1, TopIsGreatest
<1> QED
  BY <1>2

\* One step of a fold by f over the numbers of T, greatest last.
Unfolds(g, f, base, s, T) ==
    g[T] = IF T = {} THEN base ELSE f[<<g[T \ {Top(T)}], s[Top(T)]>>]

Foldable(f, base, s, n, V) ==
    \E g \in [SUBSET (1..n) -> V] : \A T \in SUBSET (1..n) : Unfolds(g, f, base, s, T)

LEMMA FoldExists ==
    ASSUME NEW N \in Nat, NEW V, NEW E, NEW base \in V, NEW f \in [V \X E -> V],
           NEW s \in [1..N -> E]
    PROVE  Foldable(f, base, s, N, V)
<1> DEFINE Folded(n) == Foldable(f, base, s, n, V)
           S == {n \in Nat : n <= N => Folded(n)}
<1>1. Folded(0)
  <2> DEFINE g == [T \in SUBSET (1..0) |-> base]
  <2>1. g \in [SUBSET (1..0) -> V] /\ \A T \in SUBSET (1..0) : T = {} /\ g[T] = base
    OBVIOUS
  <2> QED
    BY <2>1 DEF Foldable, Unfolds
<1>2. ASSUME NEW n \in Nat, n + 1 <= N, Folded(n)
      PROVE  Folded(n + 1)
  <2>1. PICK g \in [SUBSET (1..n) -> V] : \A T \in SUBSET (1..n) : Unfolds(g, f, base, s, T)
    BY <1>2 DEF Foldable
  <2> DEFINE h == [T \in SUBSET (1..(n + 1)) |->
                     IF n + 1 \in T THEN f[<<g[T \ {n + 1}], s[n + 1]>>] ELSE g[T]]
  <2>2. \A T \in SUBSET (1..(n + 1)) :
           /\ n + 1 \notin T => T \in SUBSET (1..n)
           /\ T \ {n + 1} \in SUBSET (1..n)
    <3>1. \A k \in 1..(n + 1) : k # n + 1 => k \in 1..n
      OBVIOUS
    <3> QED
      BY <3>1
  <2>3. s[n + 1] \in E
    BY <1>2
  <2>4. ASSUME NEW T \in SUBSET (1..(n + 1)) PROVE h[T] \in V
    <3>1. CASE n + 1 \in T
      <4>1. g[T \ {n + 1}] \in V
        BY <2>2
      <4> QED
        BY <2>3, <3>1, <4>1
    <3>2. CASE n + 1 \notin T
      BY <2>2, <3>2
    <3> QED
      BY <3>1, <3>2
  <2>5. h \in [SUBSET (1..(n + 1)) -> V]
    BY <2>4
  <2>6. ASSUME NEW T \in SUBSET (1..(n + 1)) PROVE Unfolds(h, f, base, s, T)
    <3>1. CASE n + 1 \in T
      <4>1. Top(T) = n + 1
        <5>0. n + 1 \in Nat /\ T # {}
          BY <3>1
        <5>1. Top(T) \in T /\ \A y \in T : Top(T) >= y
          BY <5>0, TopIsGreatest
        <5>2. Top(T) \in 1..(n + 1) /\ Top(T) >= n + 1
          BY <3>1, <5>1
        <5> QED
          BY <5>2
      <4>2. h[T \ {n + 1}] = g[T \ {n + 1}]
        BY <2>2
      <4>3. h[T] = f[<<g[T \ {n + 1}], s[n + 1]>>]
        BY <3>1
      <4> HIDE DEF h
      <4> QED
        BY <3>1, <4>1, <4>2, <4>3 DEF Unfolds
    <3>2. CASE n + 1 \notin T
      <4>1. T \in SUBSET (1..n) /\ h[T] = g[T]
        BY <2>2, <3>2
      <4> HIDE DEF h
      <4>2. T \ {Top(T)} \in SUBSET (1..n) /\ n + 1 \notin T \ {Top(T)}
        BY <3>2, <4>1
      <4> USE DEF h
      <4>3. h[T \ {Top(T)}] = g[T \ {Top(T)}]
        BY <4>2
      <4> HIDE DEF h
      <4> QED
        BY <2>1, <4>1, <4>3 DEF Unfolds
    <3> QED
      BY <3>1, <3>2
  <2> HIDE DEF h
  <2> QED
    BY <2>5, <2>6 DEF Foldable
<1> HIDE DEF Folded
<1>3. 0 \in S
  BY <1>1
<1>4. ASSUME NEW n \in Nat, n \in S PROVE n + 1 \in S
  BY <1>2, <1>4
<1> HIDE DEF S
<1>5. N \in S
  <2>1. Nat \subseteq S
    BY <1>3, <1>4, Induction
  <2> QED
    BY <2>1
<1>6. Folded(N)
  BY <1>5 DEF S
<1> QED
  BY <1>6 DEF Folded

LEMMA UpToAnElement ==
    ASSUME NEW N \in Nat, NEW n \in 1..N
    PROVE  /\ 1..n # {} /\ 1..n \in SUBSET (1..N)
           /\ Top(1..n) = n /\ (1..n) \ {Top(1..n)} = 1..(n - 1)
<1>1. n \in Nat \ {0} /\ n \in 1..n /\ \A k \in 1..n : k \in 1..N
  OBVIOUS
<1>2. 1..n # {} /\ 1..n \in SUBSET (1..N)
  BY <1>1
<1> QED
  BY <1>1, <1>2, TopOfInterval

\* A fold goes through the states of a loop over s, the last being its result.
Stepwise(f, base, s, n, V, result) ==
    \E states :
        /\ states[0] = base
        /\ \A k \in 0..n : states[k] \in V
        /\ \A k \in 1..n : states[k] = f[<<states[k - 1], s[k]>>]
        /\ states[n] = result

LEMMA FoldGoes ==
    ASSUME NEW N \in Nat, NEW V, NEW E, NEW base \in V, NEW f \in [V \X E -> V],
           NEW s \in [1..N -> E], NEW h,
           \A T \in SUBSET (1..N) :
              T = {} \/ h[T \ {Top(T)}] \in V => Unfolds(h, f, base, s, T)
    PROVE  Stepwise(f, base, s, N, V, h[1..N])
<1> DEFINE states == [n \in 0..N |-> h[1..n]]
           S == {n \in Nat : n <= N => states[n] \in V}
<1>1. states[0] = base /\ states[N] = h[1..N]
  <2>1. 1..0 = {} /\ {} \in SUBSET (1..N) /\ 0 \in 0..N /\ N \in 0..N
    OBVIOUS
  <2>2. h[{}] = base
    BY <2>1 DEF Unfolds
  <2> QED
    BY <2>1, <2>2
<1>2. ASSUME NEW n \in 1..N, states[n - 1] \in V
      PROVE  states[n] = f[<<states[n - 1], s[n]>>] /\ states[n] \in V
  <2> DEFINE T == 1..n
  <2>1. /\ T # {} /\ T \in SUBSET (1..N) /\ Top(T) = n /\ T \ {Top(T)} = 1..(n - 1)
        /\ n \in 0..N /\ n - 1 \in 0..N
    BY UpToAnElement
  <2>2. states[n] = h[T] /\ states[n - 1] = h[T \ {Top(T)}]
    BY <2>1
  <2> HIDE DEF states, T
  <2>3. h[T] = f[<<h[T \ {Top(T)}], s[n]>>]
    BY <1>2, <2>1, <2>2 DEF Unfolds
  <2>4. s[n] \in E
    OBVIOUS
  <2> QED
    BY <1>2, <2>2, <2>3, <2>4
<1> HIDE DEF states
<1>3. 0 \in S
  BY <1>1
<1>4. ASSUME NEW n \in Nat, n \in S PROVE n + 1 \in S
  <2> SUFFICES ASSUME n + 1 <= N PROVE states[n + 1] \in V
    OBVIOUS
  <2>1. n + 1 \in 1..N /\ (n + 1) - 1 = n /\ states[n] \in V
    BY <1>4
  <2> QED
    BY <1>2, <2>1
<1> HIDE DEF S
<1>5. Nat \subseteq S
  BY <1>3, <1>4, Induction
<1>6. \A n \in 0..N : states[n] \in V
  BY <1>5 DEF S
<1>7. \A n \in 1..N : states[n] = f[<<states[n - 1], s[n]>>]
  <2>1. \A n \in 1..N : n - 1 \in 0..N
    OBVIOUS
  <2> QED
    BY <1>2, <1>6, <2>1
<1> QED
  BY <1>1, <1>6, <1>7 DEF Stepwise

-------------------------------------------------------------------------------
(* ReceiverScan *)

\* The protocols that a record stands for.
Spoken(d) == {d.protocol} \cup d.alternates

\* A record's own protocol is the best of them.
Ranked(d) ==
    \A p \in d.alternates : Scan!Preference(p) <= Scan!Preference(d.protocol)

\* The list says of each address of the records just what they say.
Sums(list, records) ==
    /\ \A d, e \in list : d.ip = e.ip => d = e
    /\ \A r \in records : \E d \in list : d.ip = r.ip
    /\ \A d \in list :
         /\ Ranked(d)
         /\ \E r \in records : r.ip = d.ip
         /\ \A p \in Scan!Protocols :
              p \in Spoken(d) <=> \E r \in records : r.ip = d.ip /\ p \in Spoken(r)
         /\ d.name = "own" <=> \E r \in records : r.ip = d.ip /\ r.name = "own"

LEMMA Preferences ==
    /\ Scan!Preference("dlna") = 3 /\ Scan!Preference("cast") = 2
    /\ Scan!Preference("airplay") = 1
    /\ \A p \in Scan!Protocols : Scan!Preference(p) \in Nat
  BY DEF Scan!Preference, Scan!Protocols

\* Two records of one address make one that says what both say.
LEMMA JoinedSums ==
    ASSUME NEW keep \in Scan!Device, NEW drop \in Scan!Device, keep.ip = drop.ip,
           Ranked(keep), Ranked(drop),
           Scan!Preference(drop.protocol) <= Scan!Preference(keep.protocol)
    PROVE  LET d == Scan!Joined(keep, drop)
           IN  /\ d \in Scan!Device /\ d.ip = keep.ip /\ Ranked(d)
               /\ Spoken(d) = Spoken(keep) \cup Spoken(drop)
               /\ d.name = "own" <=> keep.name = "own" \/ drop.name = "own"
<1> DEFINE d == Scan!Joined(keep, drop)
           name == IF Scan!Unnamed(keep) /\ drop.name # "" THEN drop.name ELSE keep.name
<1>1. /\ keep.protocol \in Scan!Protocols /\ drop.protocol \in Scan!Protocols
      /\ keep.alternates \in SUBSET Scan!Protocols /\ drop.alternates \in SUBSET Scan!Protocols
      /\ keep.name \in Scan!Names /\ drop.name \in Scan!Names
  BY DEF Scan!Device
<1>2. name \in Scan!Names /\ (name = "own" <=> keep.name = "own" \/ drop.name = "own")
  BY <1>1 DEF Scan!Names, Scan!Unnamed
<1>3. d = [keep EXCEPT !.alternates = keep.alternates \cup drop.alternates \cup {drop.protocol},
                       !.name = name]
  BY DEF Scan!Joined
<1> HIDE DEF name, d
<1>4. /\ d \in Scan!Device /\ d.ip = keep.ip /\ d.protocol = keep.protocol
      /\ d.alternates = keep.alternates \cup drop.alternates \cup {drop.protocol}
      /\ d.name = name
  BY <1>1, <1>2, <1>3 DEF Scan!Device
<1>5. Spoken(d) = Spoken(keep) \cup Spoken(drop)
  BY <1>4 DEF Spoken
<1>6. Ranked(d)
  <2> SUFFICES ASSUME NEW p \in d.alternates
               PROVE  Scan!Preference(p) <= Scan!Preference(d.protocol)
    BY DEF Ranked
  <2>1. /\ p \in Scan!Protocols
        /\ Scan!Preference(p) \in Nat /\ Scan!Preference(keep.protocol) \in Nat
        /\ Scan!Preference(drop.protocol) \in Nat
    BY <1>1, <1>4, Preferences
  <2>2. \/ Scan!Preference(p) <= Scan!Preference(keep.protocol)
        \/ Scan!Preference(p) <= Scan!Preference(drop.protocol)
    <3>1. CASE p \in keep.alternates
      BY <3>1 DEF Ranked
    <3>2. CASE p \in drop.alternates
      BY <3>2 DEF Ranked
    <3>3. CASE p = drop.protocol
      BY <2>1, <3>3
    <3> QED
      BY <1>4, <3>1, <3>2, <3>3
  <2> QED
    BY <1>4, <2>1, <2>2
<1> QED
  BY <1>2, <1>4, <1>5, <1>6 DEF d

LEMMA MergedSums ==
    ASSUME NEW e \in Scan!Device, NEW r \in Scan!Device, e.ip = r.ip, Ranked(e), Ranked(r)
    PROVE  LET d == Scan!Merged(e, r)
           IN  /\ d \in Scan!Device /\ d.ip = e.ip /\ Ranked(d)
               /\ Spoken(d) = Spoken(e) \cup Spoken(r)
               /\ d.name = "own" <=> e.name = "own" \/ r.name = "own"
<1>1. Scan!Preference(e.protocol) \in Nat /\ Scan!Preference(r.protocol) \in Nat
  BY Preferences DEF Scan!Device
<1>2. CASE Scan!Preference(r.protocol) > Scan!Preference(e.protocol)
  <2>1. Scan!Merged(e, r) = Scan!Joined(r, e)
    BY <1>2 DEF Scan!Merged
  <2>2. Scan!Preference(e.protocol) <= Scan!Preference(r.protocol)
    BY <1>1, <1>2
  <2> QED
    BY <2>1, <2>2, JoinedSums
<1>3. CASE ~(Scan!Preference(r.protocol) > Scan!Preference(e.protocol))
  <2>1. Scan!Merged(e, r) = Scan!Joined(e, r)
    BY <1>3 DEF Scan!Merged
  <2>2. Scan!Preference(r.protocol) <= Scan!Preference(e.protocol)
    BY <1>1, <1>3
  <2> QED
    BY <2>1, <2>2, JoinedSums
<1> QED
  BY <1>2, <1>3

\* The body of merge's loop, whatever was merged before and in whatever order: a
\* list that says of each address what the records so far said, says what the
\* next one says as well, once for each address and over the best protocol.
LEMMA AddRecordSums ==
    ASSUME NEW list \in SUBSET Scan!Device, NEW records \in SUBSET Scan!Device,
           Sums(list, records), NEW r \in Scan!Device, Ranked(r)
    PROVE  /\ Scan!AddRecord(list, r) \subseteq Scan!Device
           /\ Sums(Scan!AddRecord(list, r), records \cup {r})
<1> DEFINE next == Scan!AddRecord(list, r)
           others == {d \in list : d.ip # r.ip}
<1>1. PICK new \in Scan!Device :
         /\ next = others \cup {new} /\ new.ip = r.ip /\ Ranked(new)
         /\ \A p \in Scan!Protocols :
              p \in Spoken(new) <=> \E s \in records \cup {r} : s.ip = r.ip /\ p \in Spoken(s)
         /\ new.name = "own" <=> \E s \in records \cup {r} : s.ip = r.ip /\ s.name = "own"
  <2>1. CASE \A d \in list : d.ip # r.ip
    <3>1. next = others \cup {r}
      BY <2>1 DEF Scan!AddRecord
    <3>2. \A s \in records : s.ip # r.ip
      BY <2>1 DEF Sums
    <3> QED
      BY <3>1, <3>2
  <2>2. ASSUME NEW e \in list, e.ip = r.ip
        PROVE  \E new \in Scan!Device :
                  /\ next = others \cup {new} /\ new.ip = r.ip /\ Ranked(new)
                  /\ \A p \in Scan!Protocols :
                       p \in Spoken(new) <=>
                          \E s \in records \cup {r} : s.ip = r.ip /\ p \in Spoken(s)
                  /\ new.name = "own" <=>
                        \E s \in records \cup {r} : s.ip = r.ip /\ s.name = "own"
    <3> DEFINE new == Scan!Merged(e, r)
    <3>1. {d \in list : d.ip = r.ip} = {e}
      BY <2>2 DEF Sums
    <3>2. next = others \cup {new}
      BY <3>1 DEF Scan!AddRecord
    <3>3. /\ Ranked(e)
          /\ \A p \in Scan!Protocols :
               p \in Spoken(e) <=> \E s \in records : s.ip = r.ip /\ p \in Spoken(s)
          /\ e.name = "own" <=> \E s \in records : s.ip = r.ip /\ s.name = "own"
      BY <2>2 DEF Sums
    <3>4. /\ new \in Scan!Device /\ new.ip = e.ip /\ Ranked(new)
          /\ Spoken(new) = Spoken(e) \cup Spoken(r)
          /\ new.name = "own" <=> e.name = "own" \/ r.name = "own"
      BY <2>2, <3>3, MergedSums
    <3> HIDE DEF new, next, others
    <3> QED
      BY <2>2, <3>2, <3>3, <3>4
  <2> QED
    BY <2>1, <2>2
<1> HIDE DEF next
<1>2. next \subseteq Scan!Device
  BY <1>1
<1>3. \A d, e \in next : d.ip = e.ip => d = e
  BY <1>1 DEF Sums
<1>4. \A s \in records \cup {r} : \E d \in next : d.ip = s.ip
  <2> SUFFICES ASSUME NEW s \in records, s.ip # r.ip PROVE \E d \in next : d.ip = s.ip
    BY <1>1
  <2> QED
    BY <1>1 DEF Sums
<1>5. ASSUME NEW d \in next
      PROVE  /\ Ranked(d)
             /\ \E s \in records \cup {r} : s.ip = d.ip
             /\ \A p \in Scan!Protocols :
                  p \in Spoken(d) <=>
                     \E s \in records \cup {r} : s.ip = d.ip /\ p \in Spoken(s)
             /\ d.name = "own" <=> \E s \in records \cup {r} : s.ip = d.ip /\ s.name = "own"
  <2>1. CASE d = new
    BY <1>1, <2>1
  <2>2. CASE d \in others
    <3>1. d \in list /\ d.ip # r.ip
      BY <2>2
    <3> QED
      BY <3>1 DEF Sums
  <2> QED
    BY <1>1, <2>1, <2>2
<1> QED
  BY <1>2, <1>3, <1>4, <1>5 DEF Sums, next

\* What a scan may hear.
Inputs ==
    /\ events \in Seq(Scan!Announced)
    /\ \A r \in dlna : r \in Scan!Device /\ r.protocol = "dlna" /\ r.alternates = {}
    /\ \A r, s \in dlna : r.ip = s.ip => r = s

\* What merge is given.
Records == Scan!ToSet(Scan!Promoted(Scan!Heard)) \cup dlna

LEMMA AnnouncedTyped ==
    \A r \in Scan!Announced : /\ r \in Scan!Device /\ r.alternates = {}
                              /\ r.protocol \in {"cast", "airplay"}
<1>1. \A ip \in LanIps : ip \in Ips
  BY ScanAssumption DEF Scan!BoundsAssumption
<1> QED
  BY <1>1 DEF Scan!Announced, Scan!Device, Scan!Protocols, Scan!Names

LEMMA HeardTyped ==
    ASSUME Inputs
    PROVE  /\ DOMAIN Scan!Heard \subseteq Nat
           /\ \A i \in DOMAIN Scan!Heard : Scan!Heard[i] \in Scan!Announced
  BY ScanAssumption DEF Inputs, Scan!Heard, Scan!BoundsAssumption

\* One record of a scan, and the one of merge it becomes.
LEMMA PromotedRecord ==
    ASSUME Inputs, NEW i \in DOMAIN Scan!Heard
    PROVE  LET h == Scan!Heard[i]
               r == Scan!Promoted(Scan!Heard)[i]
           IN  /\ r \in Scan!Device /\ Ranked(r) /\ r.ip = h.ip /\ r.name = h.name
               /\ Spoken(r) \subseteq Scan!Speaks(h.ip)
               /\ h.protocol \in Spoken(r)
               /\ h.protocol = "airplay" /\ h.ip \in open =>
                    \E p \in {r} \cup Scan!ToSet(Scan!Promoted(Scan!Heard)) :
                       p.ip = h.ip /\ "cast" \in Spoken(p)
<1> DEFINE heard == Scan!Heard
           h == heard[i]
           castIps == {r.ip : r \in {s \in Scan!ToSet(heard) : s.protocol = "cast"}}
           promoted == Scan!Promoted(heard)
           r == promoted[i]
<1>1. /\ h \in Scan!Device /\ h.alternates = {} /\ h.protocol \in {"cast", "airplay"}
      /\ h \in Scan!ToSet(heard)
  BY HeardTyped, AnnouncedTyped DEF Scan!ToSet
<1>2. h.protocol \in Scan!Speaks(h.ip)
  BY <1>1 DEF Scan!Speaks, Scan!RecordsOf
<1>3. /\ DOMAIN promoted = DOMAIN heard
      /\ r = IF h.protocol = "airplay" /\ h.ip \in open \ castIps
             THEN [h EXCEPT !.protocol = "cast", !.alternates = {"airplay"}]
             ELSE h
  BY DEF Scan!Promoted
<1>4. CASE h.protocol = "airplay" /\ h.ip \in open \ castIps
  <2>1. r = [h EXCEPT !.protocol = "cast", !.alternates = {"airplay"}]
    BY <1>3, <1>4
  <2>2. /\ r \in Scan!Device /\ r.protocol = "cast" /\ r.alternates = {"airplay"}
        /\ r.ip = h.ip /\ r.name = h.name
    BY <1>1, <2>1 DEF Scan!Device, Scan!Protocols
  <2>3. Spoken(r) = {"cast", "airplay"} /\ Ranked(r)
    BY <2>2, Preferences DEF Spoken, Ranked
  <2>4. "cast" \in Scan!Speaks(h.ip)
    BY <1>1, <1>4 DEF Scan!Speaks, Scan!RecordsOf
  <2> QED
    BY <1>2, <1>4, <2>2, <2>3, <2>4
<1>5. CASE ~(h.protocol = "airplay" /\ h.ip \in open \ castIps)
  <2>1. r = h
    BY <1>3, <1>5
  <2>2. Spoken(r) = {h.protocol} /\ Ranked(r)
    BY <1>1, <2>1 DEF Spoken, Ranked
  <2>3. ASSUME h.protocol = "airplay", h.ip \in open
        PROVE  \E p \in Scan!ToSet(promoted) : p.ip = h.ip /\ "cast" \in Spoken(p)
    <3>1. PICK j \in DOMAIN heard : heard[j].protocol = "cast" /\ heard[j].ip = h.ip
      BY <1>5, <2>3 DEF Scan!ToSet
    <3>2. promoted[j] = heard[j]
      BY <3>1 DEF Scan!Promoted
    <3> QED
      BY <1>3, <3>1, <3>2 DEF Scan!ToSet, Spoken
  <2> QED
    BY <1>1, <1>2, <2>1, <2>2, <2>3
<1> QED
  BY <1>4, <1>5

\* What merge is given says of each address what the scan heard of it.
LEMMA RecordsSay ==
    ASSUME Inputs
    PROVE  /\ \A r \in Records : r \in Scan!Device /\ Ranked(r)
           /\ \A ip : (\E r \in Records : r.ip = ip) <=> Scan!RecordsOf(ip) # {}
           /\ \A ip : \A p \in Scan!Protocols :
                p \in Scan!Speaks(ip) <=> \E r \in Records : r.ip = ip /\ p \in Spoken(r)
           /\ \A ip : (\E r \in Records : r.ip = ip /\ r.name = "own")
                        <=> \E r \in Scan!RecordsOf(ip) : r.name = "own"
<1> DEFINE heard == Scan!Heard
           promoted == Scan!Promoted(heard)
<1>1. /\ DOMAIN promoted = DOMAIN heard
      /\ Records = {promoted[i] : i \in DOMAIN heard} \cup dlna
      /\ Scan!ToSet(heard) = {heard[i] : i \in DOMAIN heard}
  BY DEF Scan!Promoted, Records, Scan!ToSet
<1>2. \A i \in DOMAIN heard :
         /\ promoted[i] \in Scan!Device /\ Ranked(promoted[i])
         /\ promoted[i].ip = heard[i].ip /\ promoted[i].name = heard[i].name
         /\ Spoken(promoted[i]) \subseteq Scan!Speaks(heard[i].ip)
         /\ heard[i].protocol \in Spoken(promoted[i])
         /\ heard[i].protocol = "airplay" /\ heard[i].ip \in open =>
              \E p \in Records : p.ip = heard[i].ip /\ "cast" \in Spoken(p)
  BY <1>1, PromotedRecord DEF Records
<1>3. \A r \in dlna : /\ r \in Scan!Device /\ Ranked(r) /\ Spoken(r) = {"dlna"}
                      /\ r.protocol = "dlna"
  BY DEF Inputs, Ranked, Spoken
<1>4. \A ip : Scan!RecordsOf(ip) = {r \in {heard[i] : i \in DOMAIN heard} \cup dlna : r.ip = ip}
  BY <1>1 DEF Scan!RecordsOf
<1> HIDE DEF heard, promoted
<1>5. ASSUME NEW ip, NEW p \in Scan!Speaks(ip)
      PROVE  \E r \in Records : r.ip = ip /\ p \in Spoken(r)
  <2>1. CASE \E i \in DOMAIN heard : heard[i].ip = ip /\ heard[i].protocol = p
    BY <1>1, <1>2, <2>1
  <2>2. CASE \E r \in dlna : r.ip = ip /\ r.protocol = p
    BY <1>1, <1>3, <2>2
  <2>3. CASE p = "cast" /\ ip \in open /\ \E r \in Scan!RecordsOf(ip) : r.protocol = "airplay"
    BY <1>2, <1>3, <1>4, <2>3
  <2> QED
    BY <1>4, <2>1, <2>2, <2>3 DEF Scan!Speaks
<1>6. ASSUME NEW ip, NEW r \in Records, r.ip = ip, NEW p \in Spoken(r)
      PROVE  p \in Scan!Speaks(ip)
  <2>1. CASE r \in dlna
    BY <1>3, <1>4, <1>6, <2>1 DEF Scan!Speaks
  <2>2. CASE \E i \in DOMAIN heard : r = promoted[i]
    BY <1>2, <1>6, <2>2
  <2> QED
    BY <1>1, <2>1, <2>2
<1>7. \A r \in Records : r \in Scan!Device /\ Ranked(r)
  BY <1>1, <1>2, <1>3
<1>8. ASSUME NEW ip
      PROVE  (\E r \in Records : r.ip = ip) <=> Scan!RecordsOf(ip) # {}
  <2>1. ASSUME NEW r \in Records, r.ip = ip PROVE Scan!RecordsOf(ip) # {}
    BY <1>1, <1>2, <1>4, <2>1
  <2>2. ASSUME NEW r \in Scan!RecordsOf(ip) PROVE \E s \in Records : s.ip = ip
    BY <1>1, <1>2, <1>4, <2>2
  <2> QED
    BY <2>1, <2>2
<1>9. ASSUME NEW ip
      PROVE  (\E r \in Records : r.ip = ip /\ r.name = "own")
                <=> \E r \in Scan!RecordsOf(ip) : r.name = "own"
  BY <1>1, <1>2, <1>4
<1> QED
  BY <1>5, <1>6, <1>7, <1>8, <1>9

\* What merge folds over.
Merging == Scan!Promoted(Scan!Heard) \o Scan!SetToSeq(dlna)

LEMMA SameSets ==
    ASSUME NEW S
    PROVE  /\ Scan!IsFiniteSet(S) <=> IsFiniteSet(S)
           /\ Scan!Cardinality(S) = Cardinality(S)
<1>1. Scan!IsFiniteSet(S) <=> IsFiniteSet(S)
  BY DEF Scan!IsFiniteSet, IsFiniteSet
<1>2. Scan!Cardinality(S) = Cardinality(S)
  BY DEF Scan!Cardinality, Cardinality
<1> QED
  BY <1>1, <1>2

LEMMA SetToSeqOnto ==
    ASSUME NEW S, IsFiniteSet(S)
    PROVE  Scan!SetToSeq(S) \in Seq(S) /\ Scan!ToSet(Scan!SetToSeq(S)) = S
<1> DEFINE c == Cardinality(S)
           f == Scan!SetToSeq(S)
<1>1. c \in Nat /\ \E g \in [1..c -> S] : Scan!IsInjective(g)
  <2>1. c \in Nat /\ ExistsBijection(1..c, S)
    BY FS_CardinalityType
  <2>2. PICK g \in Bijection(1..c, S) : TRUE
    BY <2>1 DEF ExistsBijection
  <2>3. g \in [1..c -> S] /\ \A a, b \in 1..c : g[a] = g[b] => a = b
    BY <2>2 DEF Bijection, Injection, IsInjective
  <2> QED
    BY <2>1, <2>3 DEF Scan!IsInjective
<1>2. f \in [1..c -> S] /\ \A a, b \in 1..c : f[a] = f[b] => a = b
  <2>1. f = CHOOSE g \in [1..c -> S] : Scan!IsInjective(g)
    BY SameSets DEF Scan!SetToSeq
  <2>2. f \in [1..c -> S] /\ Scan!IsInjective(f)
    BY <1>1, <2>1
  <2> QED
    BY <2>2 DEF Scan!IsInjective
<1> HIDE DEF f, c
<1>3. f \in Injection(1..c, S)
  BY <1>2 DEF Injection, IsInjective
<1>4. f \in Surjection(1..c, S)
  <2>1. Cardinality(1..c) = c
    BY <1>1, FS_Interval
  <2> QED
    BY <1>3, <2>1, FS_Injection DEF c
<1>5. \A x \in S : \E a \in 1..c : f[a] = x
  BY <1>4 DEF Surjection
<1>6. f \in Seq(S) /\ DOMAIN f = 1..c
  BY <1>1, <1>2
<1>7. {f[i] : i \in DOMAIN f} = S
  BY <1>2, <1>5, <1>6
<1> QED
  BY <1>6, <1>7 DEF f, Scan!ToSet

LEMMA DlnaIsFinite ==
    ASSUME Inputs
    PROVE  IsFiniteSet(dlna)
<1> DEFINE f == [r \in dlna |-> r.ip]
<1>1. IsFiniteSet(Ips)
  BY ScanAssumption, SameSets DEF Scan!BoundsAssumption
<1>2. f \in [dlna -> Ips]
  BY DEF Inputs, Scan!Device
<1>3. \A r, s \in dlna : f[r] = f[s] => r = s
  BY DEF Inputs
<1>4. f \in Injection(dlna, Ips)
  BY <1>2, <1>3 DEF Injection, IsInjective
<1> QED
  BY <1>1, <1>4, FS_Injection

LEMMA MergingTyped ==
    ASSUME Inputs
    PROVE  /\ Merging \in Seq(Scan!Device)
           /\ {Merging[i] : i \in DOMAIN Merging} = Records
<1> DEFINE p == Scan!Promoted(Scan!Heard)
           q == Scan!SetToSeq(dlna)
<1>1. q \in Seq(dlna) /\ Scan!ToSet(q) = dlna
  BY DlnaIsFinite, SetToSeqOnto
<1>2. DOMAIN p = DOMAIN Scan!Heard /\ \A i \in DOMAIN p : p[i] \in Scan!Device
  BY PromotedRecord DEF Scan!Promoted
<1>3. p \in Seq(Scan!Device)
  <2>1. PICK n \in Nat : DOMAIN Scan!Heard = 1..n
    BY ScanAssumption DEF Inputs, Scan!Heard, Scan!BoundsAssumption
  <2> HIDE DEF p
  <2>2. p = [i \in 1..n |-> p[i]]
    BY <1>2, <2>1 DEF p, Scan!Promoted
  <2>3. p \in [1..n -> Scan!Device]
    BY <1>2, <2>1, <2>2
  <2> QED
    BY <2>3
<1>4. q \in Seq(Scan!Device)
  BY <1>1 DEF Inputs
<1> HIDE DEF p, q
<1>5. p \o q \in Seq(Scan!Device) /\ Len(p \o q) = Len(p) + Len(q)
  BY <1>3, <1>4
<1>6. \A i \in 1..(Len(p) + Len(q)) :
         (p \o q)[i] = IF i <= Len(p) THEN p[i] ELSE q[i - Len(p)]
  BY <1>3, <1>4
<1> DEFINE s == p \o q
<1>7. /\ DOMAIN s = 1..(Len(p) + Len(q)) /\ Len(p) \in Nat /\ Len(q) \in Nat
      /\ DOMAIN p = 1..Len(p) /\ DOMAIN q = 1..Len(q)
  BY <1>3, <1>4, <1>5
<1> HIDE DEF s
<1>8. ASSUME NEW i \in DOMAIN s
      PROVE  s[i] \in {p[j] : j \in DOMAIN p} \cup {q[j] : j \in DOMAIN q}
  <2>1. CASE i <= Len(p)
    BY <1>6, <1>7, <2>1 DEF s
  <2>2. CASE ~(i <= Len(p))
    <3>1. s[i] = q[i - Len(p)] /\ i - Len(p) \in DOMAIN q
      BY <1>6, <1>7, <2>2 DEF s
    <3> QED
      BY <3>1
  <2> QED
    BY <2>1, <2>2
<1>9. ASSUME NEW j \in DOMAIN p PROVE \E i \in DOMAIN s : s[i] = p[j]
  <2>1. j \in DOMAIN s /\ j <= Len(p)
    BY <1>7
  <2> QED
    BY <1>6, <1>7, <2>1 DEF s
<1>10. ASSUME NEW j \in DOMAIN q PROVE \E i \in DOMAIN s : s[i] = q[j]
  <2>1. /\ Len(p) + j \in DOMAIN s /\ ~(Len(p) + j <= Len(p))
        /\ (Len(p) + j) - Len(p) = j
    BY <1>7
  <2>2. s[Len(p) + j] = q[j]
    BY <1>6, <1>7, <2>1 DEF s
  <2> QED
    BY <2>1, <2>2
<1>11. {s[i] : i \in DOMAIN s} = {p[j] : j \in DOMAIN p} \cup {q[j] : j \in DOMAIN q}
  BY <1>8, <1>9, <1>10
<1> QED
  BY <1>1, <1>5, <1>11 DEF Merging, Records, p, q, s, Scan!ToSet

LEMMA AddRecordTyped ==
    ASSUME NEW list \in SUBSET Scan!Device, NEW r \in Scan!Device
    PROVE  Scan!AddRecord(list, r) \in SUBSET Scan!Device
<1>1. ASSUME NEW keep \in Scan!Device, NEW drop \in Scan!Device
      PROVE  Scan!Joined(keep, drop) \in Scan!Device
  BY DEF Scan!Joined, Scan!Device
<1>2. \A e \in list : Scan!Merged(e, r) \in Scan!Device
  BY <1>1 DEF Scan!Merged
<1> QED
  BY <1>2 DEF Scan!AddRecord

\* The list after each record.
LEMMA FoldByRecord ==
    ASSUME NEW s \in Seq(Scan!Device)
    PROVE  \E states :
             /\ states[0] = {}
             /\ \A n \in 1..Len(s) : states[n] = Scan!AddRecord(states[n - 1], s[n])
             /\ \A n \in 0..Len(s) : states[n] \in SUBSET Scan!Device
             /\ states[Len(s)] = Scan!FoldLeft(Scan!AddRecord, {}, s)
<1> DEFINE N == Len(s)
           V == SUBSET Scan!Device
           E == Scan!Device
           base == {}
           f == [a \in V \X E |-> Scan!AddRecord(a[1], a[2])]
           P(h) == h = [T \in SUBSET DOMAIN s |->
                          IF T = {} THEN base
                          ELSE Scan!AddRecord(h[T \ {Top(T)}], s[Top(T)])]
           fold == CHOOSE h : P(h)
<1>1. N \in Nat /\ DOMAIN s = 1..N /\ s \in [1..N -> E] /\ base \in V
  BY AddRecordTyped
<1>2. \A x \in V, y \in E : Scan!AddRecord(x, y) \in V
  BY AddRecordTyped
<1>3. f \in [V \X E -> V] /\ \A x \in V, y \in E : f[<<x, y>>] = Scan!AddRecord(x, y)
  <2> HIDE DEF V, E, base, N
  <2> QED
    BY <1>2
<1>4. Scan!FoldLeft(Scan!AddRecord, base, s) = fold[DOMAIN s]
  BY DEF Scan!FoldLeft, Scan!MapThenFoldSet, Scan!Max, Top
<1> HIDE DEF f, fold, P, V, E, base, N
<1>5. Foldable(f, base, s, N, V)
  BY <1>1, <1>3, FoldExists
<1>6. PICK g \in [SUBSET (1..N) -> V] : \A T \in SUBSET (1..N) : Unfolds(g, f, base, s, T)
  BY <1>5 DEF Foldable
<1>7. ASSUME NEW T \in SUBSET (1..N)
      PROVE  g[T] = IF T = {} THEN base ELSE Scan!AddRecord(g[T \ {Top(T)}], s[Top(T)])
  <2>1. CASE T # {}
    <3>1. g[T \ {Top(T)}] \in V /\ s[Top(T)] \in E
      BY <1>1, <2>1, TopIsGreatest
    <3> QED
      BY <1>3, <1>6, <2>1, <3>1 DEF Unfolds
  <2> QED
    BY <1>6, <2>1 DEF Unfolds
<1>8. P(g)
  BY <1>1, <1>7 DEF P
<1>9. P(fold)
  BY <1>8 DEF fold
<1>10. \A T \in SUBSET (1..N) :
          fold[T] = IF T = {} THEN base ELSE Scan!AddRecord(fold[T \ {Top(T)}], s[Top(T)])
  BY <1>1, <1>9 DEF P
<1>11. ASSUME NEW T \in SUBSET (1..N), T = {} \/ fold[T \ {Top(T)}] \in V
       PROVE  Unfolds(fold, f, base, s, T)
  <2>1. CASE T # {}
    <3>1. fold[T \ {Top(T)}] \in V /\ s[Top(T)] \in E
      BY <1>1, <1>11, <2>1, TopIsGreatest
    <3> QED
      BY <1>3, <1>10, <2>1, <3>1 DEF Unfolds
  <2> QED
    BY <1>10, <2>1 DEF Unfolds
<1>12. Stepwise(f, base, s, N, V, fold[1..N])
  BY <1>1, <1>3, <1>11, FoldGoes
<1>13. PICK states :
          /\ states[0] = base
          /\ \A n \in 0..N : states[n] \in V
          /\ \A n \in 1..N : states[n] = f[<<states[n - 1], s[n]>>]
          /\ states[N] = fold[1..N]
  BY <1>12 DEF Stepwise
<1>14. ASSUME NEW n \in 1..N PROVE states[n] = Scan!AddRecord(states[n - 1], s[n])
  <2>1. states[n - 1] \in V /\ s[n] \in E
    <3>1. n - 1 \in 0..N
      BY <1>1
    <3> QED
      BY <1>1, <1>13, <3>1
  <2> QED
    BY <1>3, <1>13, <2>1
<1> QED
  BY <1>1, <1>4, <1>13, <1>14 DEF V, base, N

LEMMA MergeAllSums ==
    ASSUME Inputs
    PROVE  Scan!MergeAll \subseteq Scan!Device /\ Sums(Scan!MergeAll, Records)
<1> DEFINE s == Merging
           N == Len(s)
           taken(n) == {s[i] : i \in 1..n}
<1>1. s \in Seq(Scan!Device) /\ N \in Nat /\ DOMAIN s = 1..N /\ taken(N) = Records
  BY MergingTyped
<1>2. Scan!MergeAll = Scan!FoldLeft(Scan!AddRecord, {}, s)
  BY DEF Scan!MergeAll, Merging
<1> HIDE DEF s
<1>3. PICK lists : /\ lists[0] = {}
                   /\ \A n \in 1..N : lists[n] = Scan!AddRecord(lists[n - 1], s[n])
                   /\ lists[N] = Scan!MergeAll
  BY <1>1, <1>2, FoldByRecord
<1>4. \A n \in 1..N : s[n] \in Scan!Device /\ Ranked(s[n])
  BY <1>1, RecordsSay
<1> DEFINE S == {n \in Nat : n <= N => lists[n] \subseteq Scan!Device /\ Sums(lists[n], taken(n))}
<1>5. 0 \in S
  BY <1>3 DEF Sums
<1>6. ASSUME NEW n \in Nat, n \in S
      PROVE  n + 1 \in S
  <2> SUFFICES ASSUME n + 1 <= N
               PROVE  lists[n + 1] \subseteq Scan!Device /\ Sums(lists[n + 1], taken(n + 1))
    OBVIOUS
  <2>1. n <= N /\ n + 1 \in 1..N /\ (n + 1) - 1 = n
    BY <1>1
  <2>2. lists[n + 1] = Scan!AddRecord(lists[n], s[n + 1])
    BY <1>3, <2>1
  <2>3. taken(n + 1) = taken(n) \cup {s[n + 1]}
    <3>1. 1..(n + 1) = 1..n \cup {n + 1}
      OBVIOUS
    <3> QED
      BY <3>1
  <2>4. taken(n) \in SUBSET Scan!Device /\ s[n + 1] \in Scan!Device /\ Ranked(s[n + 1])
    BY <1>4, <2>1
  <2>5. lists[n] \in SUBSET Scan!Device /\ Sums(lists[n], taken(n))
    BY <1>6, <2>1
  <2> HIDE DEF taken
  <2> QED
    BY <2>2, <2>3, <2>4, <2>5, AddRecordSums
<1> HIDE DEF S
<1>7. N \in S
  <2>1. Nat \subseteq S
    BY <1>5, <1>6, Induction
  <2> QED
    BY <1>1, <2>1
<1>8. lists[N] \subseteq Scan!Device /\ Sums(lists[N], taken(N))
  BY <1>1, <1>7 DEF S
<1> QED
  BY <1>1, <1>3, <1>8

LEMMA SumsAreExact ==
    ASSUME Inputs, Scan!Discover,
           Scan!MergeAll \subseteq Scan!Device, Sums(Scan!MergeAll, Records)
    PROVE  MergeIsExact'
<1>1. /\ devices' = {d \in Scan!MergeAll : d.ip \in LanIps}
      /\ UNCHANGED <<events, open, dlna>>
  BY DEF Scan!Discover
<1>2. \A ip : Scan!Speaks(ip)' = Scan!Speaks(ip) /\ Scan!RecordsOf(ip)' = Scan!RecordsOf(ip)
  BY <1>1 DEF Scan!Speaks, Scan!RecordsOf, Scan!Heard
<1>3. \A d \in Scan!MergeAll :
         /\ \A e \in Scan!MergeAll : e.ip = d.ip => e = d
         /\ Scan!RecordsOf(d.ip) # {} /\ Ranked(d)
         /\ \A p \in Scan!Protocols : p \in Spoken(d) <=> p \in Scan!Speaks(d.ip)
         /\ d.name = "own" <=> \E r \in Scan!RecordsOf(d.ip) : r.name = "own"
  BY RecordsSay DEF Sums
<1>4. \A ip : Scan!RecordsOf(ip) # {} => \E d \in Scan!MergeAll : d.ip = ip
  BY RecordsSay DEF Sums
<1> DEFINE list == Scan!MergeAll
<1> HIDE DEF list
<1>5. ASSUME NEW d \in list
      PROVE  /\ Spoken(d) = Scan!Speaks(d.ip)
             /\ \A p \in Scan!Speaks(d.ip) :
                  Scan!Preference(p) <= Scan!Preference(d.protocol)
  <2>1. /\ d \in Scan!Device /\ Ranked(d)
        /\ \A p \in Scan!Protocols : p \in Spoken(d) <=> p \in Scan!Speaks(d.ip)
    BY <1>3 DEF list
  <2>2. Spoken(d) \subseteq Scan!Protocols
    BY <2>1 DEF Scan!Device, Spoken
  <2>3. Scan!Speaks(d.ip) \subseteq Scan!Protocols
    <3>1. \A r \in Scan!RecordsOf(d.ip) : r.protocol \in Scan!Protocols
      <4>1. \A r \in Scan!ToSet(Scan!Heard) : r \in Scan!Device
        BY HeardTyped, AnnouncedTyped DEF Scan!ToSet
      <4> QED
        BY <4>1 DEF Scan!RecordsOf, Inputs, Scan!Device
    <3> QED
      BY <3>1 DEF Scan!Speaks, Scan!Protocols
  <2>4. Spoken(d) = Scan!Speaks(d.ip)
    BY <2>1, <2>2, <2>3
  <2>5. \A p \in Spoken(d) : Scan!Preference(p) <= Scan!Preference(d.protocol)
    <3>1. Scan!Preference(d.protocol) \in Nat
      BY <2>1, Preferences DEF Scan!Device
    <3> QED
      BY <2>1, <3>1 DEF Spoken, Ranked
  <2> QED
    BY <2>4, <2>5
<1>6. Scan!BestProtocolOnce'
  BY <1>1, <1>2, <1>3, <1>5 DEF Scan!BestProtocolOnce, Spoken, list
<1>7. Scan!NothingHeardIsLost'
  BY <1>1, <1>2, <1>3, <1>4, <1>5 DEF Scan!NothingHeardIsLost, Spoken, list
<1>8. Scan!NamedIfKnown'
  BY <1>1, <1>2, <1>3 DEF Scan!NamedIfKnown
<1> QED
  BY <1>6, <1>7, <1>8 DEF MergeIsExact, Scan!MergeIsExact

ScanInv == Inputs /\ MergeIsExact

LEMMA InputsInit == MCInit => Inputs
<1> SUFFICES ASSUME MCInit PROVE Inputs
  OBVIOUS
<1>1. CASE ScanRests
  BY <1>1 DEF ScanRests, Inputs
<1>2. CASE Scan!Init
  <2>1. events \in Seq(Scan!Announced)
    BY <1>2 DEF Scan!Init, Scan!SeqOf
  <2>2. PICK found \in [Ips -> UNION {Scan!DlnaAt(ip) : ip \in Ips}] :
           /\ \A ip \in Ips : found[ip] \in Scan!DlnaAt(ip)
           /\ dlna = UNION {found[ip] : ip \in Ips}
    BY <1>2 DEF Scan!Init
  <2>3. ASSUME NEW ip \in Ips, NEW r \in found[ip]
        PROVE  /\ r \in Scan!Device /\ r.protocol = "dlna" /\ r.alternates = {} /\ r.ip = ip
               /\ found[ip] = {r}
    <3>1. found[ip] \in Scan!DlnaAt(ip)
      BY <2>2
    <3>2. PICK name \in {"own", "address"} : found[ip] = {Scan!Record(ip, "dlna", name)}
      BY <2>3, <3>1 DEF Scan!DlnaAt
    <3>3. r = [ip |-> ip, protocol |-> "dlna", name |-> name, alternates |-> {}]
      BY <2>3, <3>2 DEF Scan!Record
    <3> QED
      BY <3>2, <3>3 DEF Scan!Device, Scan!Protocols, Scan!Names
  <2>4. \A r \in dlna : \E ip \in Ips : r \in found[ip]
    BY <2>2
  <2> QED
    BY <2>1, <2>3, <2>4 DEF Inputs
<1> QED
  BY <1>1, <1>2 DEF MCInit

LEMMA ScanInvInit == MCInit => ScanInv
<1> SUFFICES ASSUME MCInit PROVE ~scanned
  BY InputsInit DEF ScanInv, MergeIsExact, Scan!MergeIsExact, Scan!BestProtocolOnce,
                    Scan!NothingHeardIsLost, Scan!NamedIfKnown
<1> QED
  BY DEF MCInit, ScanRests, Scan!Init

LEMMA ScanInvNext ==
    ScanInv /\ [MCNext]_<<part, vars, trackVars, scanVars, cacheVars>> => ScanInv'
<1> SUFFICES ASSUME ScanInv, [MCNext]_<<part, vars, trackVars, scanVars, cacheVars>>
             PROVE  ScanInv'
  OBVIOUS
<1>1. CASE Scan!Discover
  <2>1. Inputs'
    BY <1>1 DEF Scan!Discover, ScanInv, Inputs
  <2> QED
    BY <1>1, <2>1, MergeAllSums, SumsAreExact DEF ScanInv
<1>2. CASE UNCHANGED scanVars
  <2>1. /\ events' = events /\ open' = open /\ dlna' = dlna
        /\ scanned' = scanned /\ devices' = devices
    BY <1>2 DEF scanVars
  <2>2. Inputs'
    BY <2>1 DEF ScanInv, Inputs
  <2>3. MergeIsExact'
    BY <2>1 DEF ScanInv, MergeIsExact, Scan!MergeIsExact, Scan!BestProtocolOnce,
                Scan!NothingHeardIsLost, Scan!NamedIfKnown, Scan!Speaks, Scan!RecordsOf,
                Scan!Heard
  <2> QED
    BY <2>2, <2>3 DEF ScanInv
<1>3. Scan!Discover \/ UNCHANGED scanVars
  BY DEF MCNext, RangeStep, TrackStep, ScanStep, CacheStep, Scan!Next, Scan!Done, Scan!vars,
         scanVars
<1> QED
  BY <1>1, <1>2, <1>3

\* Whatever was announced, in whatever order and how often, a scan lists each LAN
\* address that was heard once, over the best protocol it speaks, with the others
\* as alternates and under its own name (discovery.rs, merge).
THEOREM MergeIsExactHolds == MCSpec => []MergeIsExact
<1>1. ScanInv => MergeIsExact
  BY DEF ScanInv
<1> QED
  BY <1>1, ScanInvInit, ScanInvNext, PTL DEF MCSpec

-------------------------------------------------------------------------------
(* CueTiming *)

TextLine == [kind : {"text"}, block : Nat, part : Nat]
TimingLine == [kind : {"timing"}, start : Int, end : Int]
Line == {Track!Blank} \cup TextLine \cup TimingLine

Block == [cue : BOOLEAN, id : BOOLEAN, start : Int, end : Int, body : Nat]

\* The three kinds of lines.
LEMMA LineKinds ==
    /\ Track!Blank \in Line /\ Track!Blank.kind = "blank"
    /\ \A b, i \in Nat : Track!Text(b, i) \in Line /\ Track!Text(b, i).kind = "text"
    /\ \A s, e \in Int : /\ Track!Timing(s, e) \in Line /\ Track!Timing(s, e).kind = "timing"
                         /\ Track!Timing(s, e).start = s /\ Track!Timing(s, e).end = e
    /\ \A l \in Line : /\ l.kind \in {"blank", "text", "timing"}
                       /\ l.kind = "timing" => l \in TimingLine
                       /\ l.kind = "blank" => l = Track!Blank
  BY DEF Line, TextLine, TimingLine, Track!Blank, Track!Text, Track!Timing

\* The number of lines of a block before its body.
HeadLines(c) == IF ~c.cue THEN 0 ELSE IF c.id THEN 2 ELSE 1

\* The lines ls are those of block b.
AreOf(ls, b, c) ==
    /\ ls \in Seq(Line) /\ Len(ls) = HeadLines(c) + c.body
    /\ \A i \in 1..c.body : ls[HeadLines(c) + i] = Track!Text(b, i)
    /\ c.cue => ls[HeadLines(c)] = Track!Timing(c.start, c.end)
    /\ c.cue /\ c.id => ls[1] = Track!Text(b, 0)

LEMMA BodyLinesAre ==
    ASSUME NEW b \in Nat, NEW n \in Nat
    PROVE  /\ Track!BodyLines(b, n) \in Seq(Line) /\ Len(Track!BodyLines(b, n)) = n
           /\ \A i \in 1..n : Track!BodyLines(b, n)[i] = Track!Text(b, i)
<1>1. \A i \in 1..n : Track!Text(b, i) \in Line
  BY LineKinds
<1> QED
  BY <1>1 DEF Track!BodyLines

LEMMA JoinedLines ==
    ASSUME NEW s \in Seq(Line), NEW t \in Seq(Line)
    PROVE  /\ s \o t \in Seq(Line) /\ Len(s \o t) = Len(s) + Len(t)
           /\ \A i \in 1..Len(s) : (s \o t)[i] = s[i]
           /\ \A i \in 1..Len(t) : (s \o t)[Len(s) + i] = t[i]
<1>1. Len(s) \in Nat /\ Len(t) \in Nat
  OBVIOUS
<1>2. /\ s \o t \in Seq(Line) /\ Len(s \o t) = Len(s) + Len(t)
      /\ \A i \in 1..(Len(s) + Len(t)) :
            (s \o t)[i] = IF i <= Len(s) THEN s[i] ELSE t[i - Len(s)]
  BY ConcatProperties
<1>3. \A i \in 1..Len(s) : i <= Len(s) /\ i \in 1..(Len(s) + Len(t))
  BY <1>1
<1>4. \A i \in 1..Len(t) :
         /\ ~(Len(s) + i <= Len(s)) /\ Len(s) + i \in 1..(Len(s) + Len(t))
         /\ (Len(s) + i) - Len(s) = i
  BY <1>1
<1> QED
  BY <1>2, <1>3, <1>4

\* What BlockLines makes of a block.
LEMMA BlockLinesAre ==
    ASSUME NEW b \in Nat, NEW c \in Block
    PROVE  AreOf(Track!BlockLines(b, c), b, c)
<1> DEFINE body == Track!BodyLines(b, c.body)
           id == Track!Text(b, 0)
           time == Track!Timing(c.start, c.end)
<1>1. c.cue \in BOOLEAN /\ c.id \in BOOLEAN /\ c.body \in Nat
  BY DEF Block
<1>2. body \in Seq(Line) /\ Len(body) = c.body /\ \A i \in 1..c.body : body[i] = Track!Text(b, i)
  BY <1>1, BodyLinesAre
<1>3. id \in Line /\ time \in Line
  BY LineKinds DEF Block
<1>4. CASE ~c.cue
  <2>1. Track!BlockLines(b, c) = body
    BY <1>4 DEF Track!BlockLines
  <2> HIDE DEF body
  <2> QED
    BY <1>1, <1>2, <1>4, <2>1 DEF AreOf, HeadLines
<1>5. CASE c.cue /\ ~c.id
  <2>1. Track!BlockLines(b, c) = <<>> \o <<time>> \o body
    BY <1>5 DEF Track!BlockLines
  <2> HIDE DEF body, time
  <2>2. <<>> \o <<time>> \o body = <<time>> \o body
    BY <1>2, <1>3
  <2>3. /\ <<time>> \o body \in Seq(Line) /\ Len(<<time>> \o body) = 1 + c.body
        /\ (<<time>> \o body)[1] = time
        /\ \A i \in 1..c.body : (<<time>> \o body)[1 + i] = body[i]
    BY <1>1, <1>2, <1>3
  <2> QED
    BY <1>1, <1>2, <1>5, <2>1, <2>2, <2>3 DEF AreOf, HeadLines, time
<1>6. CASE c.cue /\ c.id
  <2>1. Track!BlockLines(b, c) = <<id>> \o <<time>> \o body
    BY <1>6 DEF Track!BlockLines
  <2> HIDE DEF body, time, id
  <2> DEFINE p == <<id>> \o <<time>>
  <2>2. p \in Seq(Line) /\ Len(p) = 2 /\ p[1] = id /\ p[2] = time
    <3>1. <<id>> \in Seq(Line) /\ <<time>> \in Seq(Line)
      BY <1>3
    <3> QED
      BY <3>1, ConcatProperties
  <2> HIDE DEF p
  <2>3. /\ p \o body \in Seq(Line) /\ Len(p \o body) = 2 + c.body
        /\ (p \o body)[1] = id /\ (p \o body)[2] = time
        /\ \A i \in 1..c.body : (p \o body)[2 + i] = body[i]
    <3> HIDE DEF body
    <3>1. 1 \in 1..Len(p) /\ 2 \in 1..Len(p)
      BY <2>2
    <3> QED
      BY <1>2, <2>2, <3>1, JoinedLines
  <2> QED
    BY <1>1, <1>2, <1>6, <2>1, <2>3 DEF AreOf, HeadLines, time, id, p
<1> QED
  BY <1>1, <1>4, <1>5, <1>6

LEMMA AddBlockTyped ==
    /\ <<>> \in Seq(Line)
    /\ \A ls \in Seq(Line), nb \in Nat \X Block : Track!AddBlock(ls, nb) \in Seq(Line)
<1>1. ASSUME NEW ls \in Seq(Line), NEW nb \in Nat \X Block
      PROVE  Track!AddBlock(ls, nb) \in Seq(Line)
  <2>1. Track!BlockLines(nb[1], nb[2]) \in Seq(Line)
    BY BlockLinesAre DEF AreOf
  <2>2. <<Track!Blank>> \in Seq(Line)
    BY LineKinds
  <2> QED
    BY <2>1, <2>2 DEF Track!AddBlock
<1> QED
  BY <1>1

\* The lines of the first blocks of a track.
LEMMA LinesFold ==
    ASSUME NEW s \in Seq(Nat \X Block)
    PROVE  \E states :
             /\ states[0] = <<>>
             /\ \A n \in 1..Len(s) : states[n] = Track!AddBlock(states[n - 1], s[n])
             /\ \A n \in 0..Len(s) : states[n] \in Seq(Line)
             /\ states[Len(s)] = Track!FoldLeft(Track!AddBlock, <<>>, s)
<1> DEFINE N == Len(s)
           V == Seq(Line)
           E == Nat \X Block
           base == <<>>
           f == [a \in V \X E |-> Track!AddBlock(a[1], a[2])]
           P(h) == h = [T \in SUBSET DOMAIN s |->
                          IF T = {} THEN base
                          ELSE Track!AddBlock(h[T \ {Top(T)}], s[Top(T)])]
           fold == CHOOSE h : P(h)
<1>1. N \in Nat /\ DOMAIN s = 1..N /\ s \in [1..N -> E] /\ base \in V
  BY AddBlockTyped
<1>2. \A x \in V, y \in E : Track!AddBlock(x, y) \in V
  BY AddBlockTyped
<1>3. f \in [V \X E -> V] /\ \A x \in V, y \in E : f[<<x, y>>] = Track!AddBlock(x, y)
  <2> HIDE DEF V, E, base, N
  <2> QED
    BY <1>2
<1>4. Track!FoldLeft(Track!AddBlock, base, s) = fold[DOMAIN s]
  BY DEF Track!FoldLeft, Track!MapThenFoldSet, Track!Max, Top
<1> HIDE DEF f, fold, P, V, E, base, N
<1>5. Foldable(f, base, s, N, V)
  BY <1>1, <1>3, FoldExists
<1>6. PICK g \in [SUBSET (1..N) -> V] : \A T \in SUBSET (1..N) : Unfolds(g, f, base, s, T)
  BY <1>5 DEF Foldable
<1>7. ASSUME NEW T \in SUBSET (1..N)
      PROVE  g[T] = IF T = {} THEN base ELSE Track!AddBlock(g[T \ {Top(T)}], s[Top(T)])
  <2>1. CASE T # {}
    <3>1. g[T \ {Top(T)}] \in V /\ s[Top(T)] \in E
      BY <1>1, <2>1, TopIsGreatest
    <3> QED
      BY <1>3, <1>6, <2>1, <3>1 DEF Unfolds
  <2> QED
    BY <1>6, <2>1 DEF Unfolds
<1>8. P(g)
  BY <1>1, <1>7 DEF P
<1>9. P(fold)
  BY <1>8 DEF fold
<1>10. \A T \in SUBSET (1..N) :
          fold[T] = IF T = {} THEN base ELSE Track!AddBlock(fold[T \ {Top(T)}], s[Top(T)])
  BY <1>1, <1>9 DEF P
<1>11. ASSUME NEW T \in SUBSET (1..N), T = {} \/ fold[T \ {Top(T)}] \in V
       PROVE  Unfolds(fold, f, base, s, T)
  <2>1. CASE T # {}
    <3>1. fold[T \ {Top(T)}] \in V /\ s[Top(T)] \in E
      BY <1>1, <1>11, <2>1, TopIsGreatest
    <3> QED
      BY <1>3, <1>10, <2>1, <3>1 DEF Unfolds
  <2> QED
    BY <1>10, <2>1 DEF Unfolds
<1>12. Stepwise(f, base, s, N, V, fold[1..N])
  BY <1>1, <1>3, <1>11, FoldGoes
<1>13. PICK states :
          /\ states[0] = base
          /\ \A n \in 0..N : states[n] \in V
          /\ \A n \in 1..N : states[n] = f[<<states[n - 1], s[n]>>]
          /\ states[N] = fold[1..N]
  BY <1>12 DEF Stepwise
<1>14. ASSUME NEW n \in 1..N PROVE states[n] = Track!AddBlock(states[n - 1], s[n])
  <2>1. states[n - 1] \in V /\ s[n] \in E
    <3>1. n - 1 \in 0..N
      BY <1>1
    <3> QED
      BY <1>1, <1>13, <3>1
  <2> QED
    BY <1>3, <1>13, <2>1
<1> QED
  BY <1>1, <1>4, <1>13, <1>14 DEF V, base, N

LEMMA RetimedTyped ==
    ASSUME offset \in Nat, NEW c \in Block
    PROVE  /\ Track!Retimed(c) \in Block
           /\ Track!Retimed(c) = [cue |-> c.cue, id |-> c.id, start |-> Track!InStream(c.start),
                                  end |-> Track!InStream(c.end), body |-> c.body]
           /\ Track!InStream(c.start) \in Int /\ Track!InStream(c.end) \in Int
<1>1. \A t \in Int : Track!InStream(t) \in Int
  BY DEF Track!InStream
<1>2. /\ c.cue \in BOOLEAN /\ c.id \in BOOLEAN /\ c.body \in Nat
      /\ c.start \in Int /\ c.end \in Int
      /\ c = [cue |-> c.cue, id |-> c.id, start |-> c.start, end |-> c.end, body |-> c.body]
  BY DEF Block
<1> DEFINE s == Track!InStream(c.start)
           e == Track!InStream(c.end)
<1>3. s \in Int /\ e \in Int
  BY <1>1, <1>2
<1> HIDE DEF s, e
<1>4. [c EXCEPT !.start = s, !.end = e] =
         [cue |-> c.cue, id |-> c.id, start |-> s, end |-> e, body |-> c.body]
  <2> DEFINE d == [c EXCEPT !.start = s, !.end = e]
  <2>1. /\ d \in Block /\ d.cue = c.cue /\ d.id = c.id /\ d.start = s /\ d.end = e
        /\ d.body = c.body
    BY <1>3 DEF Block
  <2> HIDE DEF d
  <2>2. d = [cue |-> d.cue, id |-> d.id, start |-> d.start, end |-> d.end, body |-> d.body]
    BY <2>1 DEF Block
  <2>3. d = [cue |-> c.cue, id |-> c.id, start |-> s, end |-> e, body |-> c.body]
    BY <2>1, <2>2
  <2> QED
    BY <2>3 DEF d
<1>5. [cue |-> c.cue, id |-> c.id, start |-> s, end |-> e, body |-> c.body] \in Block
  BY <1>2, <1>3 DEF Block
<1> QED
  BY <1>3, <1>4, <1>5 DEF Track!Retimed, s, e

LEMMA KeepBlockTyped ==
    ASSUME offset \in Nat
    PROVE  /\ <<>> \in Seq(Line)
           /\ \A ls \in Seq(Line), nb \in Nat \X Block : Track!KeepBlock(ls, nb) \in Seq(Line)
<1>1. ASSUME NEW ls \in Seq(Line), NEW nb \in Nat \X Block
      PROVE  Track!KeepBlock(ls, nb) \in Seq(Line)
  <2>1. Track!Retimed(nb[2]) \in Block
    BY RetimedTyped
  <2>2. <<nb[1], Track!Retimed(nb[2])>> \in Nat \X Block
    BY <2>1
  <2> QED
    BY <2>2, AddBlockTyped DEF Track!KeepBlock
<1> QED
  BY <1>1

\* The lines of those of the first blocks that remain.
LEMMA KeepFold ==
    ASSUME offset \in Nat, NEW s \in Seq(Nat \X Block)
    PROVE  \E states :
             /\ states[0] = <<>>
             /\ \A n \in 1..Len(s) : states[n] = Track!KeepBlock(states[n - 1], s[n])
             /\ \A n \in 0..Len(s) : states[n] \in Seq(Line)
             /\ states[Len(s)] = Track!FoldLeft(Track!KeepBlock, <<>>, s)
<1> DEFINE N == Len(s)
           V == Seq(Line)
           E == Nat \X Block
           base == <<>>
           f == [a \in V \X E |-> Track!KeepBlock(a[1], a[2])]
           P(h) == h = [T \in SUBSET DOMAIN s |->
                          IF T = {} THEN base
                          ELSE Track!KeepBlock(h[T \ {Top(T)}], s[Top(T)])]
           fold == CHOOSE h : P(h)
<1>1. N \in Nat /\ DOMAIN s = 1..N /\ s \in [1..N -> E] /\ base \in V
  BY KeepBlockTyped
<1>2. \A x \in V, y \in E : Track!KeepBlock(x, y) \in V
  BY KeepBlockTyped
<1>3. f \in [V \X E -> V] /\ \A x \in V, y \in E : f[<<x, y>>] = Track!KeepBlock(x, y)
  <2> HIDE DEF V, E, base, N
  <2> QED
    BY <1>2
<1>4. Track!FoldLeft(Track!KeepBlock, base, s) = fold[DOMAIN s]
  BY DEF Track!FoldLeft, Track!MapThenFoldSet, Track!Max, Top
<1> HIDE DEF f, fold, P, V, E, base, N
<1>5. Foldable(f, base, s, N, V)
  BY <1>1, <1>3, FoldExists
<1>6. PICK g \in [SUBSET (1..N) -> V] : \A T \in SUBSET (1..N) : Unfolds(g, f, base, s, T)
  BY <1>5 DEF Foldable
<1>7. ASSUME NEW T \in SUBSET (1..N)
      PROVE  g[T] = IF T = {} THEN base ELSE Track!KeepBlock(g[T \ {Top(T)}], s[Top(T)])
  <2>1. CASE T # {}
    <3>1. g[T \ {Top(T)}] \in V /\ s[Top(T)] \in E
      BY <1>1, <2>1, TopIsGreatest
    <3> QED
      BY <1>3, <1>6, <2>1, <3>1 DEF Unfolds
  <2> QED
    BY <1>6, <2>1 DEF Unfolds
<1>8. P(g)
  BY <1>1, <1>7 DEF P
<1>9. P(fold)
  BY <1>8 DEF fold
<1>10. \A T \in SUBSET (1..N) :
          fold[T] = IF T = {} THEN base ELSE Track!KeepBlock(fold[T \ {Top(T)}], s[Top(T)])
  BY <1>1, <1>9 DEF P
<1>11. ASSUME NEW T \in SUBSET (1..N), T = {} \/ fold[T \ {Top(T)}] \in V
       PROVE  Unfolds(fold, f, base, s, T)
  <2>1. CASE T # {}
    <3>1. fold[T \ {Top(T)}] \in V /\ s[Top(T)] \in E
      BY <1>1, <1>11, <2>1, TopIsGreatest
    <3> QED
      BY <1>3, <1>10, <2>1, <3>1 DEF Unfolds
  <2> QED
    BY <1>10, <2>1 DEF Unfolds
<1>12. Stepwise(f, base, s, N, V, fold[1..N])
  BY <1>1, <1>3, <1>11, FoldGoes
<1>13. PICK states :
          /\ states[0] = base
          /\ \A n \in 0..N : states[n] \in V
          /\ \A n \in 1..N : states[n] = f[<<states[n - 1], s[n]>>]
          /\ states[N] = fold[1..N]
  BY <1>12 DEF Stepwise
<1>14. ASSUME NEW n \in 1..N PROVE states[n] = Track!KeepBlock(states[n - 1], s[n])
  <2>1. states[n - 1] \in V /\ s[n] \in E
    <3>1. n - 1 \in 0..N
      BY <1>1
    <3> QED
      BY <1>1, <1>13, <3>1
  <2> QED
    BY <1>3, <1>13, <2>1
<1> QED
  BY <1>1, <1>4, <1>13, <1>14 DEF V, base, N

Cue == [number : Nat, start : Int, end : Int, text : Seq(Line)]

LEMMA ShowCueTyped ==
    ASSUME offset \in Nat
    PROVE  /\ <<>> \in Seq(Cue)
           /\ \A cues \in Seq(Cue), nb \in Nat \X Block : Track!ShowCue(cues, nb) \in Seq(Cue)
<1>1. ASSUME NEW cues \in Seq(Cue), NEW nb \in Nat \X Block
      PROVE  Track!ShowCue(cues, nb) \in Seq(Cue)
  <2> DEFINE b == nb[1]
             c == nb[2]
             text == Track!BodyLines(b, c.body)
             new == [number |-> Len(cues) + 1, start |-> Track!InStream(c.start),
                     end |-> Track!InStream(c.end), text |-> text]
  <2>1. b \in Nat /\ c \in Block /\ c.body \in Nat
    BY DEF Block
  <2>2. text \in Seq(Line)
    BY <2>1, BodyLinesAre
  <2>3. Track!InStream(c.start) \in Int /\ Track!InStream(c.end) \in Int
    BY <2>1, RetimedTyped
  <2>4. Len(cues) + 1 \in Nat
    OBVIOUS
  <2> HIDE DEF text
  <2>5. new \in Cue
    BY <2>2, <2>3, <2>4 DEF Cue
  <2>6. Track!ShowCue(cues, nb) \in {Append(cues, new), cues}
    BY DEF Track!ShowCue, text
  <2> HIDE DEF new
  <2> QED
    BY <2>5, <2>6
<1> QED
  BY <1>1

\* The cues of the first blocks that are still to be shown.
LEMMA ShowFold ==
    ASSUME offset \in Nat, NEW s \in Seq(Nat \X Block)
    PROVE  \E states :
             /\ states[0] = <<>>
             /\ \A n \in 1..Len(s) : states[n] = Track!ShowCue(states[n - 1], s[n])
             /\ \A n \in 0..Len(s) : states[n] \in Seq(Cue)
             /\ states[Len(s)] = Track!FoldLeft(Track!ShowCue, <<>>, s)
<1> DEFINE N == Len(s)
           V == Seq(Cue)
           E == Nat \X Block
           base == <<>>
           f == [a \in V \X E |-> Track!ShowCue(a[1], a[2])]
           P(h) == h = [T \in SUBSET DOMAIN s |->
                          IF T = {} THEN base
                          ELSE Track!ShowCue(h[T \ {Top(T)}], s[Top(T)])]
           fold == CHOOSE h : P(h)
<1>1. N \in Nat /\ DOMAIN s = 1..N /\ s \in [1..N -> E] /\ base \in V
  BY ShowCueTyped
<1>2. \A x \in V, y \in E : Track!ShowCue(x, y) \in V
  BY ShowCueTyped
<1>3. f \in [V \X E -> V] /\ \A x \in V, y \in E : f[<<x, y>>] = Track!ShowCue(x, y)
  <2> HIDE DEF V, E, base, N
  <2> QED
    BY <1>2
<1>4. Track!FoldLeft(Track!ShowCue, base, s) = fold[DOMAIN s]
  BY DEF Track!FoldLeft, Track!MapThenFoldSet, Track!Max, Top
<1> HIDE DEF f, fold, P, V, E, base, N
<1>5. Foldable(f, base, s, N, V)
  BY <1>1, <1>3, FoldExists
<1>6. PICK g \in [SUBSET (1..N) -> V] : \A T \in SUBSET (1..N) : Unfolds(g, f, base, s, T)
  BY <1>5 DEF Foldable
<1>7. ASSUME NEW T \in SUBSET (1..N)
      PROVE  g[T] = IF T = {} THEN base ELSE Track!ShowCue(g[T \ {Top(T)}], s[Top(T)])
  <2>1. CASE T # {}
    <3>1. g[T \ {Top(T)}] \in V /\ s[Top(T)] \in E
      BY <1>1, <2>1, TopIsGreatest
    <3> QED
      BY <1>3, <1>6, <2>1, <3>1 DEF Unfolds
  <2> QED
    BY <1>6, <2>1 DEF Unfolds
<1>8. P(g)
  BY <1>1, <1>7 DEF P
<1>9. P(fold)
  BY <1>8 DEF fold
<1>10. \A T \in SUBSET (1..N) :
          fold[T] = IF T = {} THEN base ELSE Track!ShowCue(fold[T \ {Top(T)}], s[Top(T)])
  BY <1>1, <1>9 DEF P
<1>11. ASSUME NEW T \in SUBSET (1..N), T = {} \/ fold[T \ {Top(T)}] \in V
       PROVE  Unfolds(fold, f, base, s, T)
  <2>1. CASE T # {}
    <3>1. fold[T \ {Top(T)}] \in V /\ s[Top(T)] \in E
      BY <1>1, <1>11, <2>1, TopIsGreatest
    <3> QED
      BY <1>3, <1>10, <2>1, <3>1 DEF Unfolds
  <2> QED
    BY <1>10, <2>1 DEF Unfolds
<1>12. Stepwise(f, base, s, N, V, fold[1..N])
  BY <1>1, <1>3, <1>11, FoldGoes
<1>13. PICK states :
          /\ states[0] = base
          /\ \A n \in 0..N : states[n] \in V
          /\ \A n \in 1..N : states[n] = f[<<states[n - 1], s[n]>>]
          /\ states[N] = fold[1..N]
  BY <1>12 DEF Stepwise
<1>14. ASSUME NEW n \in 1..N PROVE states[n] = Track!ShowCue(states[n - 1], s[n])
  <2>1. states[n - 1] \in V /\ s[n] \in E
    <3>1. n - 1 \in 0..N
      BY <1>1
    <3> QED
      BY <1>1, <1>13, <3>1
  <2> QED
    BY <1>3, <1>13, <2>1
<1> QED
  BY <1>1, <1>4, <1>13, <1>14 DEF V, base, N

Shifting == [out : Seq(Line), pending : Seq(Line), dropping : BOOLEAN]
Unshifted == [out |-> <<>>, pending |-> <<>>, dropping |-> FALSE]

LEMMA ShiftLineTyped ==
    ASSUME NEW by \in Int
    PROVE  /\ Unshifted \in Shifting
           /\ \A s \in Shifting, l \in Line : Track!ShiftLine(s, l, by) \in Shifting
<1>1. Unshifted \in Shifting
  BY DEF Unshifted, Shifting
<1>2. ASSUME NEW s \in Shifting, NEW l \in Line
      PROVE  Track!ShiftLine(s, l, by) \in Shifting
  <2>1. /\ s.out \in Seq(Line) /\ s.pending \in Seq(Line) /\ s.dropping \in BOOLEAN
        /\ s.out \o s.pending \in Seq(Line)
    BY DEF Shifting
  <2>2. <<>> \in Seq(Line)
    OBVIOUS
  <2>3. CASE l.kind = "blank"
    <3>1. s.out \o s.pending \o <<Track!Blank>> \in Seq(Line)
      BY <2>1, LineKinds
    <3>2. Track!ShiftLine(s, l, by) =
             [out |-> IF s.dropping THEN s.out ELSE s.out \o s.pending \o <<Track!Blank>>,
              pending |-> <<>>, dropping |-> FALSE]
      BY <2>3 DEF Track!ShiftLine
    <3>3. (IF s.dropping THEN s.out ELSE s.out \o s.pending \o <<Track!Blank>>) \in Seq(Line)
      BY <2>1, <3>1
    <3> QED
      BY <2>2, <3>2, <3>3 DEF Shifting
  <2>4. CASE l.kind # "blank" /\ s.dropping
    BY <2>4 DEF Track!ShiftLine
  <2>5. CASE l.kind = "timing" /\ ~s.dropping
    <3>1. l.start \in Int /\ l.end \in Int
      BY <2>5, LineKinds DEF TimingLine
    <3>2. Track!Shifted(l, by) \in Line
      <4>1. (IF l.start > by THEN l.start - by ELSE 0) \in Int /\ l.end - by \in Int
        BY <3>1
      <4> QED
        BY <4>1, LineKinds DEF Track!Shifted
    <3>3. s.out \o s.pending \o <<Track!Shifted(l, by)>> \in Seq(Line)
      BY <2>1, <3>2
    <3>4. Track!ShiftLine(s, l, by) =
             IF l.end - by <= 0 THEN [s EXCEPT !.dropping = TRUE, !.pending = <<>>]
             ELSE [s EXCEPT !.out = s.out \o s.pending \o <<Track!Shifted(l, by)>>,
                            !.pending = <<>>]
      BY <2>5 DEF Track!ShiftLine
    <3> DEFINE o == s.out \o s.pending \o <<Track!Shifted(l, by)>>
    <3> HIDE DEF o
    <3>5. /\ [s EXCEPT !.dropping = TRUE, !.pending = <<>>] \in Shifting
          /\ [s EXCEPT !.out = o, !.pending = <<>>] \in Shifting
      BY <2>2, <3>3 DEF o, Shifting
    <3> QED
      BY <3>4, <3>5 DEF o
  <2>6. CASE l.kind = "text" /\ ~s.dropping
    <3>1. Append(s.pending, l) \in Seq(Line)
      BY <2>1
    <3>2. Track!ShiftLine(s, l, by) = [s EXCEPT !.pending = Append(s.pending, l)]
      BY <2>6 DEF Track!ShiftLine
    <3> QED
      BY <3>1, <3>2 DEF Shifting
  <2> QED
    BY <2>1, <2>3, <2>4, <2>5, <2>6, LineKinds
<1> QED
  BY <1>1, <1>2

\* The state of shift_vtt after each line.
LEMMA ShiftFold ==
    ASSUME NEW by \in Int, NEW s \in Seq(Line)
    PROVE  \E states :
             /\ states[0] = Unshifted
             /\ \A n \in 1..Len(s) : states[n] = Track!ShiftLine(states[n - 1], s[n], by)
             /\ \A n \in 0..Len(s) : states[n] \in Shifting
             /\ states[Len(s)] = Track!FoldLeft(LAMBDA t, line : Track!ShiftLine(t, line, by), Unshifted, s)
<1> DEFINE N == Len(s)
           V == Shifting
           E == Line
           base == Unshifted
           f == [a \in V \X E |-> Track!ShiftLine(a[1], a[2], by)]
           P(h) == h = [T \in SUBSET DOMAIN s |->
                          IF T = {} THEN base
                          ELSE Track!ShiftLine(h[T \ {Top(T)}], s[Top(T)], by)]
           fold == CHOOSE h : P(h)
<1>1. N \in Nat /\ DOMAIN s = 1..N /\ s \in [1..N -> E] /\ base \in V
  BY ShiftLineTyped
<1>2. \A x \in V, y \in E : Track!ShiftLine(x, y, by) \in V
  BY ShiftLineTyped
<1>3. f \in [V \X E -> V] /\ \A x \in V, y \in E : f[<<x, y>>] = Track!ShiftLine(x, y, by)
  <2> HIDE DEF V, E, base, N
  <2> QED
    BY <1>2
<1>4. Track!FoldLeft(LAMBDA t, line : Track!ShiftLine(t, line, by), base, s) = fold[DOMAIN s]
  BY DEF Track!FoldLeft, Track!MapThenFoldSet, Track!Max, Top
<1> HIDE DEF f, fold, P, V, E, base, N
<1>5. Foldable(f, base, s, N, V)
  BY <1>1, <1>3, FoldExists
<1>6. PICK g \in [SUBSET (1..N) -> V] : \A T \in SUBSET (1..N) : Unfolds(g, f, base, s, T)
  BY <1>5 DEF Foldable
<1>7. ASSUME NEW T \in SUBSET (1..N)
      PROVE  g[T] = IF T = {} THEN base ELSE Track!ShiftLine(g[T \ {Top(T)}], s[Top(T)], by)
  <2>1. CASE T # {}
    <3>1. g[T \ {Top(T)}] \in V /\ s[Top(T)] \in E
      BY <1>1, <2>1, TopIsGreatest
    <3> QED
      BY <1>3, <1>6, <2>1, <3>1 DEF Unfolds
  <2> QED
    BY <1>6, <2>1 DEF Unfolds
<1>8. P(g)
  BY <1>1, <1>7 DEF P
<1>9. P(fold)
  BY <1>8 DEF fold
<1>10. \A T \in SUBSET (1..N) :
          fold[T] = IF T = {} THEN base ELSE Track!ShiftLine(fold[T \ {Top(T)}], s[Top(T)], by)
  BY <1>1, <1>9 DEF P
<1>11. ASSUME NEW T \in SUBSET (1..N), T = {} \/ fold[T \ {Top(T)}] \in V
       PROVE  Unfolds(fold, f, base, s, T)
  <2>1. CASE T # {}
    <3>1. fold[T \ {Top(T)}] \in V /\ s[Top(T)] \in E
      BY <1>1, <1>11, <2>1, TopIsGreatest
    <3> QED
      BY <1>3, <1>10, <2>1, <3>1 DEF Unfolds
  <2> QED
    BY <1>10, <2>1 DEF Unfolds
<1>12. Stepwise(f, base, s, N, V, fold[1..N])
  BY <1>1, <1>3, <1>11, FoldGoes
<1>13. PICK states :
          /\ states[0] = base
          /\ \A n \in 0..N : states[n] \in V
          /\ \A n \in 1..N : states[n] = f[<<states[n - 1], s[n]>>]
          /\ states[N] = fold[1..N]
  BY <1>12 DEF Stepwise
<1>14. ASSUME NEW n \in 1..N PROVE states[n] = Track!ShiftLine(states[n - 1], s[n], by)
  <2>1. states[n - 1] \in V /\ s[n] \in E
    <3>1. n - 1 \in 0..N
      BY <1>1
    <3> QED
      BY <1>1, <1>13, <3>1
  <2> QED
    BY <1>3, <1>13, <2>1
<1> QED
  BY <1>1, <1>4, <1>13, <1>14 DEF V, base, N

Converting == [out : Seq(Cue), number : Nat, block : Seq(Line)]
Unconverted == [out |-> <<>>, number |-> 0, block |-> <<>>]

\* Where a block has its timing line, if it has one.
TimingAt(block) == Track!SelectInSeq(block, LAMBDA l : l.kind = "timing")

\* position(..): the first timing line.
LEMMA TimingIsAt ==
    ASSUME NEW block \in Seq(Line)
    PROVE  /\ TimingAt(block) \in 0..Len(block)
           /\ TimingAt(block) # 0 => block[TimingAt(block)] \in TimingLine
           /\ \A i \in 1..Len(block) :
                block[i].kind = "timing" => TimingAt(block) # 0 /\ TimingAt(block) <= i
<1> DEFINE I == {i \in 1..Len(block) : block[i].kind = "timing"}
<1>1. TimingAt(block) = IF I # {} THEN CHOOSE x \in I : \A y \in I : x <= y ELSE 0
  BY DEF TimingAt, Track!SelectInSeq, Track!Min
<1>2. I \in SUBSET Nat /\ Len(block) \in Nat
  OBVIOUS
<1>3. CASE I = {}
  BY <1>1, <1>2, <1>3
<1>4. CASE I # {}
  <2>1. \E x \in I : \A y \in I : x <= y
    BY <1>2, <1>4, LeastNumber
  <2> DEFINE x == CHOOSE x \in I : \A y \in I : x <= y
  <2>2. x \in I /\ \A y \in I : x <= y
    <3> HIDE DEF I
    <3> QED
      BY <2>1
  <2>3. TimingAt(block) = x
    BY <1>1, <1>4
  <2> HIDE DEF x
  <2>4. x \in 1..Len(block) /\ block[x].kind = "timing" /\ block[x] \in Line
    BY <2>2
  <2>5. block[x] \in TimingLine
    BY <2>4, LineKinds
  <2>6. \A i \in 1..Len(block) : block[i].kind = "timing" => x <= i
    BY <2>2
  <2> QED
    BY <1>2, <2>3, <2>4, <2>5, <2>6
<1> QED
  BY <1>3, <1>4

LEMMA FlushTyped ==
    ASSUME NEW s \in Converting
    PROVE  Track!Flush(s) \in Converting
<1> DEFINE block == s.block
           at == TimingAt(block)
           body == SubSeq(block, at + 1, Len(block))
<1>1. /\ s.out \in Seq(Cue) /\ s.number \in Nat /\ block \in Seq(Line)
  BY DEF Converting
<1>2. Track!Flush(s) =
         IF at \notin 1..2 \/ body = <<>> THEN [s EXCEPT !.block = <<>>]
         ELSE [out |-> Append(s.out, [number |-> s.number + 1, start |-> block[at].start,
                                      end |-> block[at].end, text |-> body]),
               number |-> s.number + 1, block |-> <<>>]
  BY DEF Track!Flush, TimingAt
<1>3. [s EXCEPT !.block = <<>>] \in Converting
  <2>1. <<>> \in Seq(Line)
    OBVIOUS
  <2> QED
    BY <2>1 DEF Converting
<1>4. CASE at \in 1..2
  <2>1. block[at] \in TimingLine /\ at \in 0..Len(block) /\ at # 0
    BY <1>1, <1>4, TimingIsAt
  <2>2. block[at].start \in Int /\ block[at].end \in Int
    BY <2>1 DEF TimingLine
  <2>3. body \in Seq(Line)
    <3> HIDE DEF block, at
    <3>1. Len(block) \in Nat /\ at \in Nat /\ \A i \in (at + 1)..Len(block) : block[i] \in Line
      BY <1>1, <2>1
    <3> QED
      BY <1>1, <3>1, SubSeqProperties
  <2> DEFINE new == [number |-> s.number + 1, start |-> block[at].start,
                     end |-> block[at].end, text |-> body]
  <2> HIDE DEF body, at, block
  <2>4. s.number + 1 \in Nat
    BY <1>1
  <2>5. new \in Cue
    BY <2>2, <2>3, <2>4 DEF Cue
  <2> HIDE DEF new
  <2>6. Append(s.out, new) \in Seq(Cue)
    BY <1>1, <2>5
  <2>7. <<>> \in Seq(Line)
    OBVIOUS
  <2>8. [out |-> Append(s.out, new), number |-> s.number + 1, block |-> <<>>] \in Converting
    BY <2>4, <2>6, <2>7 DEF Converting
  <2> QED
    BY <1>2, <1>3, <2>8 DEF new
<1>5. CASE at \notin 1..2
  BY <1>2, <1>3, <1>5
<1> QED
  BY <1>4, <1>5

LEMMA ConvertLineTyped ==
    ASSUME NEW ls \in Seq(Line)
    PROVE  /\ Unconverted \in Converting
           /\ \A s \in Converting, i \in 1..Len(ls) : Track!ConvertLine(s, ls, i) \in Converting
<1>1. Unconverted \in Converting
  BY DEF Unconverted, Converting
<1>2. ASSUME NEW s \in Converting, NEW i \in 1..Len(ls)
      PROVE  Track!ConvertLine(s, ls, i) \in Converting
  <2> DEFINE t == IF ls[i].kind = "blank" THEN s ELSE [s EXCEPT !.block = Append(s.block, ls[i])]
  <2>1. Append(s.block, ls[i]) \in Seq(Line)
    BY DEF Converting
  <2>2. [s EXCEPT !.block = Append(s.block, ls[i])] \in Converting
    BY <2>1 DEF Converting
  <2>3. t \in Converting
    BY <2>2
  <2>4. Track!ConvertLine(s, ls, i) = IF ls[i].kind # "blank" /\ i < Len(ls) THEN t ELSE Track!Flush(t)
    BY DEF Track!ConvertLine
  <2> HIDE DEF t
  <2> QED
    BY <2>3, <2>4, FlushTyped
<1> QED
  BY <1>1, <1>2

\* The state of vtt_to_srt after each line.
LEMMA ConvertFold ==
    ASSUME NEW ls \in Seq(Line), NEW s \in Seq(1..Len(ls))
    PROVE  \E states :
             /\ states[0] = Unconverted
             /\ \A n \in 1..Len(s) : states[n] = Track!ConvertLine(states[n - 1], ls, s[n])
             /\ \A n \in 0..Len(s) : states[n] \in Converting
             /\ states[Len(s)] = Track!FoldLeft(LAMBDA u, i : Track!ConvertLine(u, ls, i), Unconverted, s)
<1> DEFINE N == Len(s)
           V == Converting
           E == 1..Len(ls)
           base == Unconverted
           f == [a \in V \X E |-> Track!ConvertLine(a[1], ls, a[2])]
           P(h) == h = [T \in SUBSET DOMAIN s |->
                          IF T = {} THEN base
                          ELSE Track!ConvertLine(h[T \ {Top(T)}], ls, s[Top(T)])]
           fold == CHOOSE h : P(h)
<1>1. N \in Nat /\ DOMAIN s = 1..N /\ s \in [1..N -> E] /\ base \in V
  BY ConvertLineTyped
<1>2. \A x \in V, y \in E : Track!ConvertLine(x, ls, y) \in V
  BY ConvertLineTyped
<1>3. f \in [V \X E -> V] /\ \A x \in V, y \in E : f[<<x, y>>] = Track!ConvertLine(x, ls, y)
  <2> HIDE DEF V, E, base, N
  <2> QED
    BY <1>2
<1>4. Track!FoldLeft(LAMBDA u, i : Track!ConvertLine(u, ls, i), base, s) = fold[DOMAIN s]
  BY DEF Track!FoldLeft, Track!MapThenFoldSet, Track!Max, Top
<1> HIDE DEF f, fold, P, V, E, base, N
<1>5. Foldable(f, base, s, N, V)
  BY <1>1, <1>3, FoldExists
<1>6. PICK g \in [SUBSET (1..N) -> V] : \A T \in SUBSET (1..N) : Unfolds(g, f, base, s, T)
  BY <1>5 DEF Foldable
<1>7. ASSUME NEW T \in SUBSET (1..N)
      PROVE  g[T] = IF T = {} THEN base ELSE Track!ConvertLine(g[T \ {Top(T)}], ls, s[Top(T)])
  <2>1. CASE T # {}
    <3>1. g[T \ {Top(T)}] \in V /\ s[Top(T)] \in E
      BY <1>1, <2>1, TopIsGreatest
    <3> QED
      BY <1>3, <1>6, <2>1, <3>1 DEF Unfolds
  <2> QED
    BY <1>6, <2>1 DEF Unfolds
<1>8. P(g)
  BY <1>1, <1>7 DEF P
<1>9. P(fold)
  BY <1>8 DEF fold
<1>10. \A T \in SUBSET (1..N) :
          fold[T] = IF T = {} THEN base ELSE Track!ConvertLine(fold[T \ {Top(T)}], ls, s[Top(T)])
  BY <1>1, <1>9 DEF P
<1>11. ASSUME NEW T \in SUBSET (1..N), T = {} \/ fold[T \ {Top(T)}] \in V
       PROVE  Unfolds(fold, f, base, s, T)
  <2>1. CASE T # {}
    <3>1. fold[T \ {Top(T)}] \in V /\ s[Top(T)] \in E
      BY <1>1, <1>11, <2>1, TopIsGreatest
    <3> QED
      BY <1>3, <1>10, <2>1, <3>1 DEF Unfolds
  <2> QED
    BY <1>10, <2>1 DEF Unfolds
<1>12. Stepwise(f, base, s, N, V, fold[1..N])
  BY <1>1, <1>3, <1>11, FoldGoes
<1>13. PICK states :
          /\ states[0] = base
          /\ \A n \in 0..N : states[n] \in V
          /\ \A n \in 1..N : states[n] = f[<<states[n - 1], s[n]>>]
          /\ states[N] = fold[1..N]
  BY <1>12 DEF Stepwise
<1>14. ASSUME NEW n \in 1..N PROVE states[n] = Track!ConvertLine(states[n - 1], ls, s[n])
  <2>1. states[n - 1] \in V /\ s[n] \in E
    <3>1. n - 1 \in 0..N
      BY <1>1
    <3> QED
      BY <1>1, <1>13, <3>1
  <2> QED
    BY <1>3, <1>13, <2>1
<1> QED
  BY <1>1, <1>4, <1>13, <1>14 DEF V, base, N

\* Sequences of lines, each the one before it and more.
Growing(X, N) ==
    /\ \A n \in 0..N : X[n] \in Seq(Line)
    /\ \A n \in 1..N : \E t \in Seq(Line) : X[n] = X[n - 1] \o t

\* What has been written stays.
LEMMA Prefixes ==
    ASSUME NEW N \in Nat, NEW X, Growing(X, N), NEW b \in 0..N, NEW m \in b..N
    PROVE  Len(X[b]) <= Len(X[m]) /\ \A i \in 1..Len(X[b]) : X[m][i] = X[b][i]
<1> DEFINE Starts(k) == /\ Len(X[b]) <= Len(X[b + k])
                        /\ \A i \in 1..Len(X[b]) : X[b + k][i] = X[b][i]
           S == {k \in Nat : b + k <= N => Starts(k)}
<1>1. 0 \in S
  OBVIOUS
<1>2. ASSUME NEW k \in Nat, k \in S PROVE k + 1 \in S
  <2> SUFFICES ASSUME b + (k + 1) <= N PROVE Starts(k + 1)
    OBVIOUS
  <2>1. /\ b + k \in 0..N /\ b + (k + 1) \in 1..N /\ (b + (k + 1)) - 1 = b + k
        /\ Starts(k)
    BY <1>2
  <2>2. PICK t \in Seq(Line) : X[b + (k + 1)] = X[b + k] \o t
    BY <2>1 DEF Growing
  <2>3. X[b + k] \in Seq(Line) /\ X[b] \in Seq(Line)
    BY <2>1 DEF Growing
  <2> DEFINE u == X[b + k]
  <2>4. /\ Len(u \o t) = Len(u) + Len(t) /\ Len(t) \in Nat /\ Len(u) \in Nat /\ Len(X[b]) \in Nat
        /\ \A i \in 1..Len(u) : (u \o t)[i] = u[i]
    BY <2>3, JoinedLines
  <2> HIDE DEF u
  <2>5. Len(X[b]) <= Len(u) /\ \A i \in 1..Len(X[b]) : u[i] = X[b][i]
    BY <2>1 DEF u
  <2>6. \A i \in 1..Len(X[b]) : i \in 1..Len(u)
    BY <2>4, <2>5
  <2> QED
    BY <2>2, <2>4, <2>5, <2>6 DEF u
<1> HIDE DEF S
<1>3. m - b \in S
  BY <1>1, <1>2, Induction
<1>4. b + (m - b) = m /\ m - b \in Nat
  OBVIOUS
<1> QED
  BY <1>3, <1>4 DEF S

\* The states of shift_vtt's loop over the lines ls.
ShiftRun(ss, ls, by) ==
    /\ \A n \in 0..Len(ls) : ss[n] \in Shifting
    /\ \A n \in 1..Len(ls) : ss[n] = Track!ShiftLine(ss[n - 1], ls[n], by)

\* What a line does to a state of the loop.
ShiftsText(s, b, i, by) ==
    LET r == Track!ShiftLine(s, Track!Text(b, i), by)
    IN /\ s.dropping => r = s
       /\ ~s.dropping => /\ r.out = s.out /\ r.dropping = FALSE
                         /\ r.pending = Append(s.pending, Track!Text(b, i))

ShiftsTime(s, start, end, by) ==
    LET r == Track!ShiftLine(s, Track!Timing(start, end), by)
    IN IF end - by <= 0 THEN r.out = s.out /\ r.dropping = TRUE
       ELSE /\ r.out = s.out \o s.pending \o <<Track!Shifted(Track!Timing(start, end), by)>>
            /\ r.pending = <<>> /\ r.dropping = FALSE

ShiftsBlank(s, by) ==
    Track!ShiftLine(s, Track!Blank, by) =
       [out |-> IF s.dropping THEN s.out ELSE s.out \o s.pending \o <<Track!Blank>>,
        pending |-> <<>>, dropping |-> FALSE]

LEMMA ShiftSteps ==
    ASSUME NEW s \in Shifting, NEW by \in Int
    PROVE  /\ \A b, i \in Nat : ShiftsText(s, b, i, by)
           /\ \A start, end \in Int : ~s.dropping => ShiftsTime(s, start, end, by)
           /\ ShiftsBlank(s, by)
<1> SUFFICES ASSUME NEW b \in Nat, NEW i \in Nat, NEW start \in Int, NEW end \in Int
             PROVE  /\ ShiftsText(s, b, i, by)
                    /\ ~s.dropping => ShiftsTime(s, start, end, by)
                    /\ ShiftsBlank(s, by)
  OBVIOUS
<1> DEFINE t == Track!Text(b, i)
           l == Track!Timing(start, end)
<1>1. /\ t.kind = "text" /\ l.kind = "timing" /\ Track!Blank.kind = "blank"
      /\ l.end = end /\ s.dropping \in BOOLEAN
  BY LineKinds DEF Shifting
<1> HIDE DEF t, l
<1>2. /\ s.dropping => Track!ShiftLine(s, t, by) = s
      /\ ~s.dropping => Track!ShiftLine(s, t, by) = [s EXCEPT !.pending = Append(s.pending, t)]
  BY <1>1 DEF Track!ShiftLine
<1>3. ~s.dropping => Track!ShiftLine(s, l, by) =
          IF l.end - by <= 0 THEN [s EXCEPT !.dropping = TRUE, !.pending = <<>>]
          ELSE [s EXCEPT !.out = s.out \o s.pending \o <<Track!Shifted(l, by)>>, !.pending = <<>>]
  BY <1>1 DEF Track!ShiftLine
<1>4. Track!ShiftLine(s, Track!Blank, by) =
         [out |-> IF s.dropping THEN s.out ELSE s.out \o s.pending \o <<Track!Blank>>,
          pending |-> <<>>, dropping |-> FALSE]
  BY <1>1 DEF Track!ShiftLine
<1> DEFINE sh == Track!Shifted(l, by)
<1> HIDE DEF sh
<1>5. ~s.dropping => LET text == Track!ShiftLine(s, t, by) IN
         /\ text.out = s.out /\ text.dropping = FALSE
         /\ text.pending = Append(s.pending, t)
  BY <1>2 DEF Shifting
<1>6. ~s.dropping /\ end - by <= 0 => LET time == Track!ShiftLine(s, l, by) IN
         time.out = s.out /\ time.dropping = TRUE
  BY <1>1, <1>3 DEF Shifting
<1>7. ~s.dropping /\ ~(end - by <= 0) => LET time == Track!ShiftLine(s, l, by) IN
         /\ time.out = s.out \o s.pending \o <<sh>>
         /\ time.pending = <<>> /\ time.dropping = FALSE
  BY <1>1, <1>3 DEF Shifting, sh
<1> QED
  BY <1>2, <1>4, <1>5, <1>6, <1>7 DEF t, l, sh, ShiftsText, ShiftsTime, ShiftsBlank

\* A body, one line at a time.
LEMMA BodyGrows ==
    ASSUME NEW b \in Nat, NEW j \in Nat
    PROVE  /\ Track!BodyLines(b, 0) = <<>>
           /\ Track!BodyLines(b, j + 1) = Append(Track!BodyLines(b, j), Track!Text(b, j + 1))
<1> DEFINE s == Track!BodyLines(b, j + 1)
           u == Track!BodyLines(b, j)
           t == Append(u, Track!Text(b, j + 1))
<1>1. /\ s \in Seq(Line) /\ Len(s) = j + 1 /\ u \in Seq(Line) /\ Len(u) = j
      /\ \A i \in 1..(j + 1) : s[i] = Track!Text(b, i)
      /\ \A i \in 1..j : u[i] = Track!Text(b, i)
  BY BodyLinesAre
<1>2. Track!Text(b, j + 1) \in Line
  BY LineKinds
<1> HIDE DEF s, u
<1>3. t \in Seq(Line) /\ Len(t) = j + 1 /\ t[j + 1] = Track!Text(b, j + 1)
      /\ \A i \in 1..j : t[i] = u[i]
  BY <1>1, <1>2
<1>4. \A i \in 1..(j + 1) : i = j + 1 \/ i \in 1..j
  OBVIOUS
<1>5. \A i \in 1..(j + 1) : s[i] = t[i]
  BY <1>1, <1>3, <1>4
<1> HIDE DEF t
<1>6. s = t
  BY <1>1, <1>3, <1>5, SeqEqual
<1>7. Track!BodyLines(b, 0) = <<>>
  BY DEF Track!BodyLines
<1> QED
  BY <1>6, <1>7 DEF s, t, u

\* The body of n lines of block b stands in ls after the first p.
BodyStandsAt(ls, p, b, n) ==
    p + n <= Len(ls) /\ \A i \in 1..n : ls[p + i] = Track!Text(b, i)

\* State r is s after the body of n lines of block b.
BodyIsShifted(s, r, b, n) ==
    /\ s.dropping => r = s
    /\ ~s.dropping => /\ r.out = s.out /\ r.dropping = FALSE
                      /\ r.pending = s.pending \o Track!BodyLines(b, n)

\* shift_vtt over the body of a block.
LEMMA BodyShifts ==
    ASSUME NEW ls \in Seq(Line), NEW by \in Int, NEW ss, ShiftRun(ss, ls, by),
           NEW b \in Nat, NEW n \in Nat, NEW p \in Nat, BodyStandsAt(ls, p, b, n)
    PROVE  BodyIsShifted(ss[p], ss[p + n], b, n)
<1> DEFINE After(j) ==
              /\ ss[p].dropping => ss[p + j] = ss[p]
              /\ ~ss[p].dropping =>
                    /\ ss[p + j].out = ss[p].out /\ ss[p + j].dropping = FALSE
                    /\ ss[p + j].pending = ss[p].pending \o Track!BodyLines(b, j)
           S == {j \in Nat : j <= n => After(j)}
<1>0. Len(ls) \in Nat /\ p + n <= Len(ls) /\ \A i \in 1..n : ls[p + i] = Track!Text(b, i)
  BY DEF BodyStandsAt
<1>1. 0 \in S
  <2>1. p \in 0..Len(ls) /\ p + 0 = p
    BY <1>0
  <2>2. ss[p].dropping \in BOOLEAN /\ ss[p].pending \in Seq(Line)
    BY <2>1 DEF ShiftRun, Shifting
  <2>3. ss[p].pending \o Track!BodyLines(b, 0) = ss[p].pending
    BY <2>2, BodyGrows, ConcatEmptySeq
  <2>4. After(0)
    BY <2>1, <2>2, <2>3
  <2> QED
    BY <2>4
<1>2. ASSUME NEW j \in Nat, j \in S PROVE j + 1 \in S
  <2>0. SUFFICES ASSUME j + 1 <= n PROVE After(j + 1)
    <3> HIDE DEF After
    <3> QED
      OBVIOUS
  <2>1. After(j)
    <3> HIDE DEF After
    <3>1. j <= n
      BY <2>0
    <3> QED
      BY <1>2, <3>1
  <2>2. /\ p + (j + 1) \in 1..Len(ls) /\ (p + (j + 1)) - 1 = p + j /\ p + j \in 0..Len(ls)
        /\ j + 1 \in 1..n /\ p \in 0..Len(ls)
    BY <1>0, <2>0
  <2> DEFINE s == ss[p + j]
             t == Track!Text(b, j + 1)
             u == Track!BodyLines(b, j)
  <2>3. ss[p + (j + 1)] = Track!ShiftLine(s, t, by) /\ s \in Shifting
    BY <1>0, <2>2 DEF ShiftRun
  <2>4. /\ s.dropping => ss[p + (j + 1)] = s
        /\ ~s.dropping => /\ ss[p + (j + 1)].out = s.out /\ ss[p + (j + 1)].dropping = FALSE
                          /\ ss[p + (j + 1)].pending = Append(s.pending, t)
    <3>1. j + 1 \in Nat /\ 0 \in Int
      OBVIOUS
    <3> HIDE DEF s
    <3>2. ShiftsText(s, b, j + 1, by)
      BY <2>3, <3>1, ShiftSteps
    <3> QED
      BY <2>3, <3>2 DEF ShiftsText
  <2>5. CASE ss[p].dropping
    BY <2>1, <2>4, <2>5
  <2>6. CASE ~ss[p].dropping
    <3>1. s.out = ss[p].out /\ s.dropping = FALSE /\ s.pending = ss[p].pending \o u
      BY <2>1, <2>6
    <3>2. Append(ss[p].pending \o u, t) = ss[p].pending \o Track!BodyLines(b, j + 1)
      <4>1. ss[p].pending \in Seq(Line)
        BY <2>2 DEF ShiftRun, Shifting
      <4>2. u \in Seq(Line) /\ t \in Line
        BY BodyLinesAre, LineKinds
      <4>3. Track!BodyLines(b, j + 1) = Append(u, t)
        BY BodyGrows
      <4> DEFINE q == ss[p].pending
      <4> HIDE DEF u, t, q
      <4>4. Append(q \o u, t) = q \o Append(u, t)
        <5>1. q \in Seq(Line) BY <4>1 DEF q
        <5>2. \A z \in Seq(Line) : Append(z, t) = z \o <<t>>
          BY <4>2, AppendIsConcat
        <5>3. (q \o u) \o <<t>> = q \o (u \o <<t>>)
          BY <4>2, <5>1, ConcatAssociative
        <5>4. q \o u \in Seq(Line)
          BY <4>2, <5>1
        <5> QED
          BY <4>2, <5>1, <5>2, <5>3, <5>4
      <4> QED
        BY <4>3, <4>4 DEF q
    <3> HIDE DEF s
    <3> QED
      BY <2>4, <2>6, <3>1, <3>2
  <2> QED
    BY <2>5, <2>6
<1> HIDE DEF S
<1>3. n \in S
  BY <1>1, <1>2, Induction
<1> QED
  BY <1>3 DEF S, BodyIsShifted

\* The lines of block b stand in ls after the first p.
StandsAt(ls, p, b, c) ==
    /\ p + HeadLines(c) + c.body <= Len(ls)
    /\ \A i \in 1..(HeadLines(c) + c.body) : ls[p + i] = Track!BlockLines(b, c)[i]

AtRest(o) == [out |-> o, pending |-> <<>>, dropping |-> FALSE]

\* What shift_vtt has made of block b at its end, when it had written o before.
BlockIsShifted(z, o, b, c) ==
    IF Track!Remains(c)
    THEN z.dropping = FALSE /\ z.out \o z.pending = o \o Track!BlockLines(b, Track!Retimed(c))
    ELSE z.dropping = TRUE /\ z.out = o

LEMMA LinesAssociate ==
    \A s, t, u \in Seq(Line) : (s \o t) \o u = s \o (t \o u)
  BY ConcatAssociative

\* shift_vtt over a block: a cue that is over is dropped with its id, another is
\* kept at its time in the stream.
LEMMA BlockShifts ==
    ASSUME offset \in Nat \ {0},
           NEW ls \in Seq(Line), NEW ss, ShiftRun(ss, ls, offset),
           NEW b \in Nat, NEW c \in Block, NEW p \in Nat, StandsAt(ls, p, b, c),
           NEW o \in Seq(Line), ss[p] = AtRest(o)
    PROVE  BlockIsShifted(ss[p + HeadLines(c) + c.body], o, b, c)
<1> DEFINE h == HeadLines(c)
           body == Track!BodyLines(b, c.body)
           z == ss[p + h + c.body]
<1>1. /\ c.cue \in BOOLEAN /\ c.id \in BOOLEAN /\ c.body \in Nat /\ c.start \in Int /\ c.end \in Int
      /\ h \in 0..2 /\ p + h \in Nat /\ Len(ls) \in Nat
  BY DEF Block, HeadLines
<1>2. AreOf(Track!BlockLines(b, c), b, c) /\ body \in Seq(Line)
  BY <1>1, BlockLinesAre, BodyLinesAre
<1>3. /\ \A i \in 1..c.body : ls[(p + h) + i] = Track!Text(b, i)
      /\ c.cue => ls[p + h] = Track!Timing(c.start, c.end)
      /\ c.cue /\ c.id => ls[p + 1] = Track!Text(b, 0)
  <2> DEFINE bl == Track!BlockLines(b, c)
  <2>1. /\ \A i \in 1..(h + c.body) : ls[p + i] = bl[i]
        /\ \A i \in 1..c.body : bl[h + i] = Track!Text(b, i)
        /\ c.cue => bl[h] = Track!Timing(c.start, c.end)
        /\ c.cue /\ c.id => bl[1] = Track!Text(b, 0)
    BY <1>2 DEF AreOf, StandsAt
  <2>2. \A i \in 1..c.body : h + i \in 1..(h + c.body) /\ p + (h + i) = (p + h) + i
    <3> HIDE DEF h
    <3> SUFFICES ASSUME NEW i \in 1..c.body
                 PROVE  h + i \in 1..(h + c.body) /\ p + (h + i) = (p + h) + i
      OBVIOUS
    <3>1. c.body \in Nat /\ h \in Nat /\ i \in Nat
      BY <1>1
    <3> QED
      BY <3>1
  <2>3. /\ c.cue => h \in 1..(h + c.body)
        /\ c.cue /\ c.id => 1 \in 1..(h + c.body)
    BY <1>1 DEF HeadLines
  <2> HIDE DEF bl, h
  <2> QED
    BY <2>1, <2>2, <2>3
<1>4. (p + h) + c.body <= Len(ls)
  BY DEF StandsAt
<1>5. /\ ss[p + h].dropping => z = ss[p + h]
      /\ ~ss[p + h].dropping =>
            /\ z.out = ss[p + h].out /\ z.dropping = FALSE
            /\ z.pending = ss[p + h].pending \o body
  <2> DEFINE k == p + h
             n == c.body
  <2>1. offset \in Int /\ k \in Nat /\ n \in Nat /\ BodyStandsAt(ls, k, b, n)
    BY <1>1, <1>3, <1>4 DEF BodyStandsAt
  <2> HIDE DEF k, n
  <2>2. BodyIsShifted(ss[k], ss[k + n], b, n)
    BY <2>1, BodyShifts
  <2> QED
    BY <2>2 DEF k, n, BodyIsShifted
<1>6. /\ p \in 0..Len(ls) /\ p + h \in 0..Len(ls)
      /\ c.cue => p + h \in 1..Len(ls)
      /\ c.cue /\ ~c.id => h = 1
      /\ c.cue /\ c.id => h = 2 /\ p + 1 \in 1..Len(ls)
      /\ ~c.cue => h = 0
  BY <1>1, <1>4 DEF HeadLines
<1>7. ss[p] \in Shifting /\ ss[p + h] \in Shifting
  BY <1>6 DEF ShiftRun
<1> DEFINE time == Track!Timing(c.start, c.end)
           late == Track!Timing(Track!InStream(c.start), Track!InStream(c.end))
           id == Track!Text(b, 0)
           r == Track!Retimed(c)
\* The lines of the block in the re-timed track.
<1>8. /\ r.cue = c.cue /\ r.id = c.id /\ r.body = c.body
      /\ r.start = Track!InStream(c.start) /\ r.end = Track!InStream(c.end)
  <2>1. r = [cue |-> c.cue, id |-> c.id, start |-> Track!InStream(c.start),
             end |-> Track!InStream(c.end), body |-> c.body]
    <3>1. offset \in Nat
      OBVIOUS
    <3> QED
      BY <3>1, RetimedTyped
  <2> HIDE DEF r
  <2> QED
    BY <2>1
<1>9. /\ ~c.cue => Track!BlockLines(b, r) = body
      /\ c.cue /\ ~c.id => Track!BlockLines(b, r) = <<>> \o <<late>> \o body
      /\ c.cue /\ c.id => Track!BlockLines(b, r) = <<id>> \o <<late>> \o body
  <2> HIDE DEF r
  <2> QED
    BY <1>8 DEF Track!BlockLines
<1>10. id \in Line /\ late \in Line /\ time \in Line
  <2>1. Track!InStream(c.start) \in Int /\ Track!InStream(c.end) \in Int
    BY RetimedTyped
  <2> QED
    BY <1>1, <2>1, LineKinds
\* The timing line, after what precedes it in the block.
<1>11. ASSUME c.cue, NEW q \in Shifting, q.out = o, q.dropping = FALSE,
              ss[p + h] = Track!ShiftLine(q, time, offset)
       PROVE  IF Track!Remains(c)
              THEN z.dropping = FALSE /\ z.out \o z.pending = o \o (q.pending \o <<late>> \o body)
              ELSE z.dropping = TRUE /\ z.out = o
  <2>1. /\ ShiftsTime(q, c.start, c.end, offset)
        /\ Track!Remains(c) <=> ~(c.end - offset <= 0)
    <3>1. Track!Remains(c) <=> c.end > offset
      BY <1>11 DEF Track!Remains
    <3>2. ShiftsTime(q, c.start, c.end, offset)
      <4>1. offset \in Int /\ ~q.dropping
        BY <1>11
      <4> QED
        BY <1>1, <1>11, <4>1, ShiftSteps
    <3> QED
      BY <1>1, <3>1, <3>2
  <2>2. CASE ~Track!Remains(c)
    <3>1. ss[p + h].out = o /\ ss[p + h].dropping = TRUE
      BY <1>11, <2>1, <2>2 DEF ShiftsTime
    <3> QED
      BY <1>5, <2>2, <3>1
  <2>3. CASE Track!Remains(c)
    <3>1. Track!Shifted(time, offset) = late
      <4>1. time.start = c.start /\ time.end = c.end
        BY <1>1, LineKinds
      <4>2. c.end > offset
        BY <1>11, <2>3 DEF Track!Remains
      <4>3. Track!InStream(c.end) = c.end - offset
        BY <4>2 DEF Track!InStream
      <4> HIDE DEF time
      <4> QED
        BY <4>1, <4>3 DEF Track!Shifted, Track!InStream
    <3>2. /\ ss[p + h].out = o \o q.pending \o <<late>>
          /\ ss[p + h].pending = <<>> /\ ss[p + h].dropping = FALSE
      BY <1>11, <2>1, <2>3, <3>1 DEF ShiftsTime
    <3>3. /\ z.dropping = FALSE /\ z.out = o \o q.pending \o <<late>>
          /\ z.pending = <<>> \o body
      BY <1>5, <3>2
    <3>4. <<>> \o body = body
      BY <1>2, ConcatEmptySeq
    <3>5. (o \o q.pending \o <<late>>) \o body = o \o (q.pending \o <<late>> \o body)
      <4> DEFINE v == q.pending
                 w == <<late>>
      <4>1. v \in Seq(Line) /\ w \in Seq(Line) /\ v \o w \in Seq(Line)
        BY <1>10 DEF Shifting
      <4> HIDE DEF v, w, body
      <4>2. o \o v \o w = o \o (v \o w)
        BY <4>1, LinesAssociate
      <4>3. (o \o (v \o w)) \o body = o \o ((v \o w) \o body)
        <5>1. body \in Seq(Line)
          BY <1>2 DEF body
        <5> QED
          BY <4>1, <5>1, LinesAssociate
      <4> QED
        BY <4>2, <4>3 DEF v, w
    <3> QED
      BY <2>3, <3>3, <3>4, <3>5
  <2> QED
    BY <2>2, <2>3
<1> HIDE DEF time, late, id, r, body
<1>12. CASE ~c.cue
  <2>1. ss[p + h] = AtRest(o)
    BY <1>6, <1>12
  <2>2. z.out = o /\ z.dropping = FALSE /\ z.pending = <<>> \o body
    BY <1>5, <2>1 DEF AtRest
  <2>3. <<>> \o body = body
    BY <1>2, ConcatEmptySeq
  <2> QED
    BY <1>9, <1>12, <2>2, <2>3 DEF BlockIsShifted, Track!Remains, r
<1>13. CASE c.cue /\ ~c.id
  <2>1. (p + h) - 1 = p /\ ss[p + h] = Track!ShiftLine(ss[p], time, offset)
    BY <1>3, <1>6, <1>13 DEF ShiftRun, time
  <2>2. ss[p].out = o /\ ss[p].dropping = FALSE /\ ss[p].pending = <<>>
    BY DEF AtRest
  <2>3. IF Track!Remains(c)
        THEN z.dropping = FALSE /\ z.out \o z.pending = o \o (<<>> \o <<late>> \o body)
        ELSE z.dropping = TRUE /\ z.out = o
    BY <1>7, <1>11, <1>13, <2>1, <2>2
  <2> QED
    BY <1>9, <1>13, <2>3 DEF BlockIsShifted, r
<1>14. CASE c.cue /\ c.id
  <2> DEFINE q == ss[p + 1]
  <2>1. /\ (p + h) - 1 = p + 1 /\ ss[p + h] = Track!ShiftLine(q, time, offset)
        /\ (p + 1) - 1 = p /\ q = Track!ShiftLine(ss[p], id, offset) /\ q \in Shifting
    BY <1>3, <1>6, <1>14 DEF ShiftRun, time, id
  <2>2. ss[p].out = o /\ ss[p].dropping = FALSE /\ ss[p].pending = <<>>
    BY DEF AtRest
  <2>3. ShiftsText(ss[p], b, 0, offset)
    <3>1. offset \in Int /\ 0 \in Nat
      OBVIOUS
    <3> QED
      BY <1>7, <3>1, ShiftSteps
  <2>4. q.out = o /\ q.dropping = FALSE /\ q.pending = Append(<<>>, id)
    BY <2>1, <2>2, <2>3 DEF ShiftsText, id
  <2>5. Append(<<>>, id) = <<id>>
    OBVIOUS
  <2> HIDE DEF q
  <2>6. IF Track!Remains(c)
        THEN z.dropping = FALSE /\ z.out \o z.pending = o \o (<<id>> \o <<late>> \o body)
        ELSE z.dropping = TRUE /\ z.out = o
    BY <1>11, <1>14, <2>1, <2>4, <2>5
  <2> QED
    BY <1>9, <1>14, <2>6 DEF BlockIsShifted, r
<1> QED
  BY <1>1, <1>12, <1>13, <1>14

\* The lines v are those of x, or all but the last.
Nearly(v, x) ==
    /\ v \in Seq(Line) /\ x \in Seq(Line)
    /\ Len(v) <= Len(x) /\ Len(x) <= Len(v) + 1
    /\ \A i \in 1..Len(v) : v[i] = x[i]

\* Block b, as c, in the lines v.
StandsIn(X, v, b, c) ==
    /\ Len(X[b]) = Len(X[b - 1]) + HeadLines(c) + c.body + 1
    /\ Len(X[b - 1]) \in Nat /\ HeadLines(c) + c.body \in Nat
    /\ StandsAt(v, Len(X[b - 1]), b, c)
    /\ Len(X[b]) <= Len(v) => v[Len(X[b])] = Track!Blank

\* Where a block stands in a document, and the blank line after it.
LEMMA BlockStands ==
    ASSUME NEW N \in Nat, NEW X, Growing(X, N), NEW v, Nearly(v, X[N]),
           NEW b \in 1..N, NEW c \in Block, X[b] = Track!AddBlock(X[b - 1], <<b, c>>)
    PROVE  StandsIn(X, v, b, c)
<1> DEFINE bl == Track!BlockLines(b, c)
           m == HeadLines(c) + c.body
           x == X[b - 1]
           p == Len(x)
<1>1. b \in Nat /\ b - 1 \in 0..N /\ b \in 0..N /\ N \in b..N
  OBVIOUS
<1>2. x \in Seq(Line) /\ p \in Nat /\ bl \in Seq(Line) /\ Len(bl) = m /\ m \in Nat
  <2>1. AreOf(bl, b, c)
    BY <1>1, BlockLinesAre
  <2>2. x \in Seq(Line) /\ bl \in Seq(Line) /\ Len(bl) = m
    BY <1>1, <2>1 DEF Growing, AreOf
  <2>3. \A s \in Seq(Line) : Len(s) \in Nat
    OBVIOUS
  <2> QED
    BY <2>2, <2>3
<1>3. X[b] = x \o bl \o <<Track!Blank>>
  BY DEF Track!AddBlock
<1>4. <<Track!Blank>> \in Seq(Line) /\ Len(<<Track!Blank>>) = 1 /\ <<Track!Blank>>[1] = Track!Blank
  BY LineKinds
<1> HIDE DEF bl, m, x
<1>5. /\ x \o bl \in Seq(Line) /\ Len(x \o bl) = p + m
      /\ \A i \in 1..m : (x \o bl)[p + i] = bl[i]
  BY <1>2, JoinedLines
<1>6. /\ Len(X[b]) = (p + m) + 1 /\ X[b][(p + m) + 1] = Track!Blank
      /\ \A i \in 1..(p + m) : X[b][i] = (x \o bl)[i]
  <2> DEFINE y == x \o bl
             e == <<Track!Blank>>
  <2>1. 1 \in 1..1
    OBVIOUS
  <2> HIDE DEF y, e
  <2>2. /\ Len(y \o e) = Len(y) + Len(e)
        /\ \A i \in 1..Len(y) : (y \o e)[i] = y[i]
        /\ \A i \in 1..Len(e) : (y \o e)[Len(y) + i] = e[i]
    BY <1>4, <1>5, JoinedLines DEF y, e
  <2> QED
    BY <1>3, <1>4, <1>5, <2>1, <2>2 DEF y, e
<1>7. Len(X[b]) <= Len(X[N]) /\ \A i \in 1..Len(X[b]) : X[N][i] = X[b][i]
  BY <1>1, Prefixes
<1>8. /\ Len(v) \in Nat /\ Len(X[N]) \in Nat /\ Len(X[N]) <= Len(v) + 1
      /\ \A i \in 1..Len(v) : v[i] = X[N][i]
  BY DEF Nearly
<1>9. p + m <= Len(v)
  BY <1>2, <1>6, <1>7, <1>8
<1>10. ASSUME NEW i \in 1..m PROVE v[p + i] = bl[i]
  <2>1. p + i \in 1..(p + m) /\ p + i \in 1..Len(v) /\ p + i \in 1..Len(X[b])
    BY <1>2, <1>6, <1>9
  <2> QED
    BY <1>5, <1>6, <1>7, <1>8, <2>1
<1>11. ASSUME Len(X[b]) <= Len(v) PROVE v[Len(X[b])] = Track!Blank
  <2>1. Len(X[b]) \in 1..Len(v) /\ Len(X[b]) \in 1..Len(X[b])
    BY <1>2, <1>6, <1>8, <1>11
  <2> QED
    BY <1>6, <1>7, <1>8, <2>1
<1>12. p + HeadLines(c) + c.body = p + m /\ (p + m) + 1 = p + HeadLines(c) + c.body + 1
  <2>1. c.body \in Nat /\ HeadLines(c) \in Nat
    BY DEF Block, HeadLines
  <2> QED
    BY <1>2, <2>1 DEF m
<1>13. StandsAt(v, p, b, c)
  BY <1>9, <1>10, <1>12 DEF StandsAt, m, bl
<1> QED
  BY <1>2, <1>6, <1>11, <1>12, <1>13 DEF StandsIn, x, m

LEMMA AddedGrows ==
    ASSUME NEW x \in Seq(Line), NEW b \in Nat, NEW c \in Block
    PROVE  \E t \in Seq(Line) : Track!AddBlock(x, <<b, c>>) = x \o t
<1> DEFINE bl == Track!BlockLines(b, c)
           e == <<Track!Blank>>
<1>1. bl \in Seq(Line) /\ e \in Seq(Line)
  BY BlockLinesAre, LineKinds DEF AreOf
<1>2. Track!AddBlock(x, <<b, c>>) = (x \o bl) \o e
  BY DEF Track!AddBlock
<1> HIDE DEF bl, e
<1>3. (x \o bl) \o e = x \o (bl \o e) /\ bl \o e \in Seq(Line)
  BY <1>1, LinesAssociate, JoinedLines
<1> QED
  BY <1>2, <1>3

\* What the properties say of a document, and of a stream that starts at offset.
TrackInputs ==
    /\ doc \in Seq(Block) /\ offset \in Nat
    /\ \A b \in 1..Len(doc) : doc[b].start \in Nat /\ doc[b].end \in Nat

\* The lines of the first blocks, and of those that remain of them.
AllLines(X) ==
    /\ X[0] = <<>> /\ Growing(X, Len(doc))
    /\ \A b \in 1..Len(doc) : X[b] = Track!AddBlock(X[b - 1], <<b, doc[b]>>)
    /\ X[Len(doc)] = Track!Lines(Track!Numbered(doc))

KeptLines(X) ==
    /\ X[0] = <<>> /\ Growing(X, Len(doc))
    /\ \A b \in 1..Len(doc) :
         X[b] = IF Track!Remains(doc[b])
                THEN Track!AddBlock(X[b - 1], <<b, Track!Retimed(doc[b])>>) ELSE X[b - 1]
    /\ X[Len(doc)] = Track!FoldLeft(Track!KeepBlock, <<>>, Track!Numbered(doc))

LEMMA NumberedBlocks ==
    ASSUME TrackInputs
    PROVE  /\ Len(doc) \in Nat /\ Track!Numbered(doc) \in Seq(Nat \X Block)
           /\ Len(Track!Numbered(doc)) = Len(doc)
           /\ \A b \in 1..Len(doc) : /\ Track!Numbered(doc)[b] = <<b, doc[b]>>
                                     /\ doc[b] \in Block
<1>1. Len(doc) \in Nat /\ DOMAIN doc = 1..Len(doc) /\ \A b \in 1..Len(doc) : doc[b] \in Block
  BY DEF TrackInputs
<1>2. Track!Numbered(doc) = [b \in 1..Len(doc) |-> <<b, doc[b]>>]
  BY <1>1 DEF Track!Numbered
<1>3. \A b \in 1..Len(doc) : <<b, doc[b]>> \in Nat \X Block
  BY <1>1
<1>4. [b \in 1..Len(doc) |-> <<b, doc[b]>>] \in Seq(Nat \X Block)
  BY <1>1, <1>3
<1> QED
  BY <1>1, <1>2, <1>4

LEMMA AllLinesExist ==
    ASSUME TrackInputs
    PROVE  \E X : AllLines(X)
<1> DEFINE nb == Track!Numbered(doc)
<1>1. /\ Len(doc) \in Nat /\ nb \in Seq(Nat \X Block) /\ Len(nb) = Len(doc)
      /\ \A b \in 1..Len(doc) : nb[b] = <<b, doc[b]>> /\ doc[b] \in Block
  BY NumberedBlocks
<1>2. Track!FoldLeft(Track!AddBlock, <<>>, nb) = Track!Lines(nb)
  BY DEF Track!Lines
<1> HIDE DEF nb
<1>3. PICK X : /\ X[0] = <<>>
               /\ \A n \in 1..Len(nb) : X[n] = Track!AddBlock(X[n - 1], nb[n])
               /\ \A n \in 0..Len(nb) : X[n] \in Seq(Line)
               /\ X[Len(nb)] = Track!FoldLeft(Track!AddBlock, <<>>, nb)
  BY <1>1, LinesFold
<1>4. Growing(X, Len(doc))
  <2>1. ASSUME NEW n \in 1..Len(doc)
        PROVE  \E t \in Seq(Line) : X[n] = X[n - 1] \o t
    <3>1. n \in Nat /\ n \in 1..Len(nb) /\ n - 1 \in 0..Len(nb)
      BY <1>1
    <3>2. /\ X[n] = Track!AddBlock(X[n - 1], <<n, doc[n]>>)
          /\ X[n - 1] \in Seq(Line) /\ doc[n] \in Block
      BY <1>1, <1>3, <3>1
    <3> DEFINE x == X[n - 1]
               c == doc[n]
    <3> HIDE DEF x, c
    <3>3. \E t \in Seq(Line) : Track!AddBlock(x, <<n, c>>) = x \o t
      BY <3>1, <3>2, AddedGrows DEF x, c
    <3> QED
      BY <3>2, <3>3 DEF x, c
  <2> QED
    BY <1>1, <1>3, <2>1 DEF Growing
<1>5. AllLines(X)
  BY <1>1, <1>2, <1>3, <1>4 DEF AllLines, nb
<1> QED
  BY <1>5

\* RetimedIsExact's reference, block by block.
LEMMA KeptLinesExist ==
    ASSUME TrackInputs
    PROVE  \E X : KeptLines(X)
<1> DEFINE nb == Track!Numbered(doc)
<1>1. /\ Len(doc) \in Nat /\ nb \in Seq(Nat \X Block) /\ Len(nb) = Len(doc)
      /\ \A b \in 1..Len(doc) : nb[b] = <<b, doc[b]>> /\ doc[b] \in Block
      /\ offset \in Nat
  BY NumberedBlocks DEF TrackInputs
<1> HIDE DEF nb
<1>3. PICK X : /\ X[0] = <<>>
               /\ \A n \in 1..Len(nb) : X[n] = Track!KeepBlock(X[n - 1], nb[n])
               /\ \A n \in 0..Len(nb) : X[n] \in Seq(Line)
               /\ X[Len(nb)] = Track!FoldLeft(Track!KeepBlock, <<>>, nb)
  BY <1>1, KeepFold
<1>4. ASSUME NEW b \in 1..Len(doc)
      PROVE  /\ X[b] = IF Track!Remains(doc[b])
                       THEN Track!AddBlock(X[b - 1], <<b, Track!Retimed(doc[b])>>) ELSE X[b - 1]
             /\ \E t \in Seq(Line) : X[b] = X[b - 1] \o t
  <2>0. b \in Nat /\ b \in 1..Len(nb) /\ b - 1 \in 0..Len(nb)
    BY <1>1
  <2>1. X[b] = Track!KeepBlock(X[b - 1], <<b, doc[b]>>)
    BY <1>1, <1>3, <2>0
  <2>2. X[b] = IF Track!Remains(doc[b])
               THEN Track!AddBlock(X[b - 1], <<b, Track!Retimed(doc[b])>>) ELSE X[b - 1]
    BY <2>1 DEF Track!KeepBlock
  <2>3. Track!Retimed(doc[b]) \in Block /\ X[b - 1] \in Seq(Line)
    BY <1>1, <1>3, <2>0, RetimedTyped
  <2>4. CASE Track!Remains(doc[b])
    <3> DEFINE x == X[b - 1]
               c == Track!Retimed(doc[b])
    <3> HIDE DEF x, c
    <3>1. \E t \in Seq(Line) : Track!AddBlock(x, <<b, c>>) = x \o t
      BY <2>0, <2>3, AddedGrows DEF x, c
    <3> QED
      BY <2>2, <2>4, <3>1 DEF x, c
  <2>5. CASE ~Track!Remains(doc[b])
    <3>1. X[b] = X[b - 1] \o <<>> /\ <<>> \in Seq(Line)
      BY <2>2, <2>3, <2>5, ConcatEmptySeq
    <3> QED
      BY <2>2, <3>1
  <2> QED
    BY <2>2, <2>4, <2>5
<1>5. KeptLines(X)
  BY <1>1, <1>3, <1>4 DEF KeptLines, Growing, nb
<1> QED
  BY <1>5

\* The lines v are x, or x without a blank line at its end.
Ends(v, x) == v \in Seq(Line) /\ (v = x \/ v \o <<Track!Blank>> = x)

LEMMA EndsNearly ==
    ASSUME NEW v, NEW x, Ends(v, x)
    PROVE  /\ Nearly(v, x)
           /\ v = x \/ Len(x) = Len(v) + 1
<1>1. v \in Seq(Line) /\ Len(v) \in Nat
  BY DEF Ends
<1>2. CASE v = x
  BY <1>1, <1>2 DEF Nearly
<1>3. CASE v \o <<Track!Blank>> = x
  <2> DEFINE e == <<Track!Blank>>
  <2>1. e \in Seq(Line) /\ Len(e) = 1
    BY LineKinds
  <2> HIDE DEF e
  <2>2. /\ v \o e \in Seq(Line) /\ Len(v \o e) = Len(v) + Len(e)
        /\ \A i \in 1..Len(v) : (v \o e)[i] = v[i]
    BY <1>1, <2>1, JoinedLines
  <2>3. v \o e = x
    BY <1>3 DEF e
  <2> QED
    BY <1>1, <2>1, <2>2, <2>3 DEF Nearly
<1> QED
  BY <1>2, <1>3 DEF Ends

\* The document is that of all the blocks, the last blank line aside.
LEMMA TrackEnds ==
    ASSUME TrackInputs, closed \in BOOLEAN, NEW X, AllLines(X)
    PROVE  LET ls == Track!TrackOf(doc, closed)
           IN /\ Ends(ls, X[Len(doc)])
              /\ ls # X[Len(doc)] => Len(doc) > 0
<1> DEFINE N == Len(doc)
           x == X[N]
           ls == Track!TrackOf(doc, closed)
<1>1. N \in Nat /\ (\A b \in 1..N : doc[b] \in Block) /\ Growing(X, N) /\ X[0] = <<>>
      /\ x = Track!Lines(Track!Numbered(doc))
      /\ \A b \in 1..N : X[b] = Track!AddBlock(X[b - 1], <<b, doc[b]>>)
  BY NumberedBlocks DEF AllLines
<1>2. ls = IF closed \/ x = <<>> THEN x ELSE Track!Front(x)
  BY <1>1 DEF Track!TrackOf
<1>3. x \in Seq(Line)
  BY <1>1 DEF Growing
<1>4. CASE closed \/ x = <<>>
  <2> HIDE DEF x
  <2> QED
    BY <1>2, <1>3, <1>4 DEF Ends, x
<1>5. CASE ~closed /\ x # <<>>
  <2>1. N > 0 /\ N \in 1..N /\ N - 1 \in 0..N /\ N \in Nat
    <3>1. N # 0
      BY <1>1, <1>5
    <3> QED
      BY <1>1, <3>1
  <2> DEFINE bl == Track!BlockLines(N, doc[N])
             y == X[N - 1] \o bl
             e == <<Track!Blank>>
  <2>2. x = y \o e
    BY <1>1, <2>1 DEF Track!AddBlock
  <2>3. bl \in Seq(Line) /\ X[N - 1] \in Seq(Line) /\ e \in Seq(Line) /\ Len(e) = 1
    <3>1. AreOf(bl, N, doc[N])
      BY <1>1, <2>1, BlockLinesAre
    <3> QED
      BY <1>1, <2>1, <3>1, LineKinds DEF AreOf, Growing
  <2>4. y \in Seq(Line)
    <3> HIDE DEF bl
    <3> QED
      BY <2>3, JoinedLines
  <2> HIDE DEF y, e, x
  <2>5. /\ Len(y \o e) = Len(y) + Len(e) /\ Len(y) \in Nat
        /\ \A i \in 1..Len(y) : (y \o e)[i] = y[i]
    <3>1. Len(y) \in Nat
      BY <2>4
    <3> QED
      BY <2>3, <2>4, <3>1, JoinedLines
  <2>6. Len(x) - 1 = Len(y) /\ \A i \in 1..Len(y) : x[i] = y[i]
    BY <2>2, <2>3, <2>5
  <2>7. Track!Front(x) = y
    <3>1. Track!Front(x) = SubSeq(x, 1, Len(y))
      BY <2>6 DEF Track!Front
    <3>2. \A i \in 1..Len(y) : x[i] \in Line
      BY <2>4, <2>6
    <3> DEFINE u == SubSeq(x, 1, Len(y))
    <3>3. /\ u \in Seq(Line) /\ Len(u) = Len(y) /\ \A i \in 1..Len(y) : u[i] = x[i]
      <4>1. /\ u \in Seq(Line)
            /\ Len(u) = IF 1 <= Len(y) THEN Len(y) - 1 + 1 ELSE 0
            /\ \A i \in 1..(Len(y) - 1 + 1) : u[i] = x[1 + i - 1]
        BY <2>5, <3>2, SubSeqProperties
      <4> HIDE DEF u
      <4>2. Len(y) - 1 + 1 = Len(y) /\ \A i \in 1..Len(y) : 1 + i - 1 = i
        BY <2>5
      <4> QED
        BY <2>5, <4>1, <4>2
    <3> HIDE DEF u
    <3>4. u = y
      <4>1. Len(u) = Len(y) /\ \A i \in 1..Len(u) : u[i] = y[i]
        BY <2>6, <3>3
      <4> QED
        BY <2>4, <3>3, <4>1, SeqEqual
    <3> QED
      BY <3>1, <3>4 DEF u
  <2>8. ls = y
    BY <1>2, <1>5, <2>7
  <2>9. Ends(ls, x)
    BY <2>2, <2>4, <2>8 DEF Ends, e
  <2> QED
    BY <2>1, <2>9 DEF x
<1> QED
  BY <1>4, <1>5

\* shift_vtt from the start of the file: nothing is dropped, nothing moves.
LEMMA NothingIsShifted ==
    ASSUME TrackInputs, offset = 0, NEW X, AllLines(X), NEW W, KeptLines(W)
    PROVE  X[Len(doc)] = W[Len(doc)]
<1> DEFINE N == Len(doc)
           S == {b \in Nat : b <= N => X[b] = W[b]}
<1>1. N \in Nat /\ \A b \in 1..N : doc[b] \in Block
  BY NumberedBlocks
<1>2. 0 \in S
  BY DEF AllLines, KeptLines
<1>3. ASSUME NEW k \in Nat, k \in S PROVE k + 1 \in S
  <2> SUFFICES ASSUME k + 1 <= N PROVE X[k + 1] = W[k + 1]
    OBVIOUS
  <2> DEFINE c == doc[k + 1]
  <2>1. k + 1 \in 1..N /\ (k + 1) - 1 = k /\ X[k] = W[k]
    BY <1>1, <1>3
  <2>2. c \in Block /\ c.start \in Nat /\ c.end \in Nat
    BY <1>1, <2>1 DEF TrackInputs
  <2>3. Track!InStream(c.start) = c.start /\ Track!InStream(c.end) = c.end
    <3>1. \A t \in Nat : Track!InStream(t) = t
      BY DEF Track!InStream
    <3> QED
      BY <2>2, <3>1
  <2>4. Track!Retimed(c) = c
    <3> HIDE DEF c
    <3>1. c = [cue |-> c.cue, id |-> c.id, start |-> c.start, end |-> c.end, body |-> c.body]
      BY <2>2 DEF Block
    <3>2. offset \in Nat
      BY DEF TrackInputs
    <3> QED
      BY <2>2, <2>3, <3>1, <3>2, RetimedTyped
  <2>5. X[k + 1] = Track!AddBlock(X[k], <<k + 1, c>>)
    BY <2>1 DEF AllLines
  <2>6. W[k + 1] = IF Track!Remains(c) THEN Track!AddBlock(W[k], <<k + 1, Track!Retimed(c)>>)
                   ELSE W[k]
    BY <2>1 DEF KeptLines
  <2>7. Track!Remains(c)
    BY DEF Track!Remains
  <2> QED
    BY <2>1, <2>4, <2>5, <2>6, <2>7
<1> HIDE DEF S
<1>4. N \in S
  BY <1>1, <1>2, <1>3, Induction
<1> QED
  BY <1>1, <1>4 DEF S

\* shift_vtt: its output is the document of the blocks that remain.
LEMMA ShiftIsExact ==
    ASSUME TrackInputs, closed \in BOOLEAN, NEW W, KeptLines(W)
    PROVE  Ends(Track!ShiftVtt(Track!TrackOf(doc, closed), offset), W[Len(doc)])
<1> DEFINE N == Len(doc)
           ls == Track!TrackOf(doc, closed)
<1>1. N \in Nat /\ \A b \in 1..N : doc[b] \in Block
  BY NumberedBlocks
<1>2. PICK X : AllLines(X)
  BY AllLinesExist
<1>3. Ends(ls, X[N]) /\ (ls # X[N] => N > 0)
  BY <1>2, TrackEnds
<1>4. offset \in Nat
  BY DEF TrackInputs
<1> HIDE DEF ls
<1>5. CASE offset = 0
  <2>1. Track!ShiftVtt(ls, offset) = ls
    BY <1>5 DEF Track!ShiftVtt
  <2>2. X[N] = W[N]
    BY <1>2, <1>5, NothingIsShifted
  <2> QED
    BY <1>3, <2>1, <2>2 DEF ls
<1>6. CASE offset # 0
  <2>1. ls \in Seq(Line) /\ Len(ls) \in Nat /\ offset \in Int /\ offset \in Nat \ {0}
    BY <1>3, <1>4, <1>6 DEF Ends
  <2>2. PICK ss :
           /\ ss[0] = Unshifted
           /\ \A n \in 1..Len(ls) : ss[n] = Track!ShiftLine(ss[n - 1], ls[n], offset)
           /\ \A n \in 0..Len(ls) : ss[n] \in Shifting
           /\ ss[Len(ls)] =
                Track!FoldLeft(LAMBDA t, line : Track!ShiftLine(t, line, offset), Unshifted, ls)
    BY <2>1, ShiftFold
  <2> DEFINE z == ss[Len(ls)]
             v == Track!ShiftVtt(ls, offset)
  <2>3. v = IF z.dropping THEN z.out ELSE z.out \o z.pending
    <3>1. ~(offset <= 0)
      BY <2>1
    <3> QED
      BY <2>2, <3>1 DEF Track!ShiftVtt, Unshifted
  <2>4. ShiftRun(ss, ls, offset)
    BY <2>2 DEF ShiftRun
  <2>5. /\ Nearly(ls, X[N])
        /\ ls = X[N] \/ Len(X[N]) = Len(ls) + 1
    BY <1>3, EndsNearly
  <2>6. Growing(X, N) /\ Growing(W, N)
    BY <1>2 DEF AllLines, KeptLines
  <2> HIDE DEF z, v
\* What the loop has made of a block, and of the blank line after it.
  <2>7. ASSUME NEW k \in Nat, k + 1 \in 1..N, ss[Len(X[k])] = AtRest(W[k]),
               NEW c, c = doc[k + 1]
        PROVE  /\ c \in Block /\ W[k] \in Seq(Line)
               /\ Len(X[k + 1]) = Len(X[k]) + HeadLines(c) + c.body + 1
               /\ Len(X[k]) + HeadLines(c) + c.body \in Nat
               /\ StandsAt(ls, Len(X[k]), k + 1, c)
               /\ Len(X[k + 1]) <= Len(ls) => ls[Len(X[k + 1])] = Track!Blank
               /\ BlockIsShifted(ss[Len(X[k]) + HeadLines(c) + c.body], W[k], k + 1, c)
    <3>1. c \in Block /\ k \in 0..N /\ (k + 1) - 1 = k /\ k + 1 \in Nat
      BY <1>1, <2>7
    <3>2. X[k + 1] = Track!AddBlock(X[k], <<k + 1, c>>)
      BY <1>2, <2>7, <3>1 DEF AllLines
    <3>3. /\ Len(X[k + 1]) = Len(X[k]) + HeadLines(c) + c.body + 1
          /\ Len(X[k]) \in Nat /\ HeadLines(c) + c.body \in Nat
          /\ StandsAt(ls, Len(X[k]), k + 1, c)
          /\ Len(X[k + 1]) <= Len(ls) => ls[Len(X[k + 1])] = Track!Blank
      <4> DEFINE b == k + 1
      <4>1. b \in 1..N /\ b - 1 = k /\ X[b] = Track!AddBlock(X[b - 1], <<b, c>>)
        BY <2>7, <3>1, <3>2
      <4> HIDE DEF b, N
      <4>2. N \in Nat
        BY <1>1
      <4>3. StandsIn(X, ls, b, c)
        BY <2>5, <2>6, <3>1, <4>1, <4>2, BlockStands
      <4> QED
        BY <4>1, <4>3 DEF b, StandsIn
    <3>4. W[k] \in Seq(Line)
      BY <2>6, <3>1 DEF Growing
    <3>5. BlockIsShifted(ss[Len(X[k]) + HeadLines(c) + c.body], W[k], k + 1, c)
      <4> DEFINE p == Len(X[k])
                 o == W[k]
                 b == k + 1
      <4>1. /\ p \in Nat /\ o \in Seq(Line) /\ b \in Nat /\ StandsAt(ls, p, b, c)
            /\ ss[p] = AtRest(o)
        BY <2>7, <3>1, <3>3, <3>4
      <4> HIDE DEF p, o, b
      <4>2. BlockIsShifted(ss[p + HeadLines(c) + c.body], o, b, c)
        BY <2>1, <2>4, <3>1, <4>1, BlockShifts
      <4> QED
        BY <4>2 DEF p, o, b
    <3>6. Len(X[k]) + HeadLines(c) + c.body \in Nat
      <4>1. c.body \in Nat /\ HeadLines(c) \in Nat
        BY <3>1 DEF Block, HeadLines
      <4> QED
        BY <3>3, <4>1
    <3> QED
      BY <3>1, <3>3, <3>4, <3>5, <3>6
  <2> DEFINE Rests(k) == Len(X[k]) <= Len(ls) => ss[Len(X[k])] = AtRest(W[k])
             S == {k \in Nat : k <= N => Rests(k)}
  <2>8. 0 \in S
    <3>1. X[0] = <<>> /\ W[0] = <<>> /\ Len(<<>>) = 0
      BY <1>2 DEF AllLines, KeptLines
    <3>2. ss[0] = AtRest(<<>>)
      BY <2>2 DEF AtRest, Unshifted
    <3>3. Rests(0)
      BY <3>1, <3>2
    <3> QED
      BY <3>3
  <2>9. ASSUME NEW k \in Nat, k \in S PROVE k + 1 \in S
    <3>0. SUFFICES ASSUME k + 1 <= N, Len(X[k + 1]) <= Len(ls)
                   PROVE  ss[Len(X[k + 1])] = AtRest(W[k + 1])
      OBVIOUS
    <3>1. k + 1 \in 1..N /\ k <= N /\ k \in 0..N
      BY <1>1, <3>0
    <3> DEFINE c == doc[k + 1]
               q == Len(X[k]) + HeadLines(c) + c.body
    <3>2. c \in Block /\ X[k + 1] = Track!AddBlock(X[k], <<k + 1, c>>)
          /\ W[k + 1] = IF Track!Remains(c)
                        THEN Track!AddBlock(W[k], <<k + 1, Track!Retimed(c)>>) ELSE W[k]
      <4>1. (k + 1) - 1 = k
        OBVIOUS
      <4> QED
        BY <1>1, <1>2, <3>1, <4>1 DEF AllLines, KeptLines
    <3>3. Len(X[k]) <= Len(ls)
      <4>1. k + 1 \in k..N /\ k + 1 \in 0..N
        BY <3>1
      <4>2. Len(X[k]) <= Len(X[k + 1])
        BY <1>1, <2>6, <3>1, <4>1, Prefixes
      <4>3. Len(X[k]) \in Nat /\ Len(X[k + 1]) \in Nat
        BY <2>6, <3>1, <4>1 DEF Growing
      <4> QED
        BY <2>1, <3>0, <4>2, <4>3
    <3>4. ss[Len(X[k])] = AtRest(W[k])
      BY <2>9, <3>1, <3>3
    <3>5. /\ W[k] \in Seq(Line) /\ Len(X[k + 1]) = q + 1 /\ q \in Nat
          /\ ls[q + 1] = Track!Blank
          /\ BlockIsShifted(ss[q], W[k], k + 1, c)
      BY <2>7, <3>0, <3>1, <3>4
    <3> HIDE DEF q, c
    <3>6. q + 1 \in 1..Len(ls) /\ (q + 1) - 1 = q /\ q \in 0..Len(ls)
      BY <2>1, <3>0, <3>5
    <3>7. ss[q + 1] = Track!ShiftLine(ss[q], Track!Blank, offset) /\ ss[q] \in Shifting
      BY <2>4, <3>5, <3>6 DEF ShiftRun
    <3>8. ss[q + 1] = AtRest(IF ss[q].dropping THEN ss[q].out
                             ELSE ss[q].out \o ss[q].pending \o <<Track!Blank>>)
      BY <2>1, <3>7, ShiftSteps DEF ShiftsBlank, AtRest
    <3>9. CASE Track!Remains(c)
      <4>1. W[k + 1] = W[k] \o Track!BlockLines(k + 1, Track!Retimed(c)) \o <<Track!Blank>>
        BY <3>2, <3>9 DEF Track!AddBlock
      <4>2. ss[q].dropping = FALSE
            /\ ss[q].out \o ss[q].pending = W[k] \o Track!BlockLines(k + 1, Track!Retimed(c))
        BY <3>5, <3>9 DEF BlockIsShifted
      <4> QED
        BY <3>5, <3>8, <4>1, <4>2
    <3>10. CASE ~Track!Remains(c)
      BY <3>2, <3>5, <3>8, <3>10 DEF BlockIsShifted
    <3> QED
      BY <3>9, <3>10
  <2> HIDE DEF S
  <2>10. \A k \in 0..N : Rests(k)
    <3>1. Nat \subseteq S
      BY <2>8, <2>9, Induction
    <3>2. \A k \in 0..N : k \in Nat /\ k <= N
      BY <1>1
    <3> QED
      BY <3>1, <3>2 DEF S
  <2>11. X[N] \in Seq(Line) /\ W[N] \in Seq(Line) /\ Len(X[N]) \in Nat
    <3>1. N \in 0..N
      BY <1>1
    <3>2. X[N] \in Seq(Line) /\ W[N] \in Seq(Line)
      BY <2>6, <3>1 DEF Growing
    <3> QED
      BY <3>2
  <2>12. CASE ls = X[N]
    <3>1. N \in 0..N /\ Len(X[N]) <= Len(ls)
      BY <1>1, <2>1, <2>12
    <3>2. z = AtRest(W[N])
      BY <2>10, <2>12, <3>1 DEF z
    <3>3. v = W[N] \o <<>>
      BY <2>3, <3>2 DEF AtRest
    <3>4. v = W[N]
      BY <2>11, <3>3, ConcatEmptySeq
    <3> QED
      BY <2>11, <3>4 DEF Ends, v, ls
  <2>13. CASE ls # X[N]
    <3> DEFINE k == N - 1
               c == doc[k + 1]
               q == Len(X[k]) + HeadLines(c) + c.body
    <3>1. k \in Nat /\ k + 1 = N /\ k + 1 \in 1..N /\ k \in 0..N
      BY <1>1, <1>3, <2>13
    <3>2. W[N] = IF Track!Remains(c)
                 THEN Track!AddBlock(W[k], <<N, Track!Retimed(c)>>) ELSE W[k]
      BY <3>1 DEF KeptLines
    <3> HIDE DEF k
    <3>3. Len(X[k]) <= Len(ls)
      <4>1. X[k + 1] = Track!AddBlock(X[k], <<k + 1, c>>) /\ c \in Block
        <5>1. (k + 1) - 1 = k
          BY <3>1
        <5> QED
          BY <1>1, <1>2, <3>1, <5>1 DEF AllLines
      <4> DEFINE b == k + 1
      <4>2. b \in 1..N /\ b - 1 = k /\ X[b] = Track!AddBlock(X[b - 1], <<b, c>>)
        BY <3>1, <4>1
      <4> HIDE DEF b, N, c
      <4>3. StandsIn(X, ls, b, c)
        <5>1. N \in Nat
          BY <1>1
        <5> QED
          BY <2>5, <2>6, <4>1, <4>2, <5>1, BlockStands
      <4>4. HeadLines(c) \in Nat /\ c.body \in Nat
        BY <4>1 DEF Block, HeadLines
      <4> QED
        BY <2>1, <4>2, <4>3, <4>4 DEF StandsAt, StandsIn
    <3>4. ss[Len(X[k])] = AtRest(W[k])
      BY <2>10, <3>1, <3>3
    <3>5. /\ W[k] \in Seq(Line) /\ Len(X[k + 1]) = q + 1 /\ q \in Nat /\ c \in Block
          /\ BlockIsShifted(ss[q], W[k], k + 1, c)
      BY <2>7, <3>1, <3>4
    <3> HIDE DEF q, c
    <3>6. q = Len(ls)
      BY <2>1, <2>5, <2>13, <3>1, <3>5
    <3>7. BlockIsShifted(z, W[k], N, c)
      BY <3>1, <3>5, <3>6 DEF z
    <3>8. CASE Track!Remains(c)
      <4> DEFINE bl == Track!BlockLines(N, Track!Retimed(c))
      <4>1. W[N] = W[k] \o bl \o <<Track!Blank>>
        BY <3>2, <3>8 DEF Track!AddBlock
      <4>2. v = W[k] \o bl
        BY <2>3, <3>7, <3>8 DEF BlockIsShifted
      <4>3. bl \in Seq(Line)
        <5>1. Track!Retimed(c) \in Block
          BY <1>4, <3>5, RetimedTyped
        <5> QED
          BY <1>1, <5>1, BlockLinesAre DEF AreOf
      <4> HIDE DEF bl
      <4>4. v \in Seq(Line)
        BY <3>5, <4>2, <4>3, JoinedLines
      <4> QED
        BY <4>1, <4>2, <4>4 DEF Ends, v, ls
    <3>9. CASE ~Track!Remains(c)
      <4>1. v = W[N] /\ v \in Seq(Line)
        BY <2>3, <3>2, <3>5, <3>7, <3>9 DEF BlockIsShifted
      <4> QED
        BY <4>1 DEF Ends, v, ls
    <3> QED
      BY <3>8, <3>9
  <2> QED
    BY <2>12, <2>13
<1> QED
  BY <1>4, <1>5, <1>6

\* vtt_to_srt between two blocks, with the cues o written.
Between(o) == [out |-> o, number |-> Len(o), block |-> <<>>]

Collecting(o, block) == [out |-> o, number |-> Len(o), block |-> block]

\* The cue of block b, as c, after the cues o.
NewCue(o, b, c) ==
    [number |-> Len(o) + 1, start |-> c.start, end |-> c.end, text |-> Track!BodyLines(b, c.body)]

Written(o, b, c) == IF c.cue /\ c.body > 0 THEN Append(o, NewCue(o, b, c)) ELSE o

\* No line of a block is blank, and only a cue has a timing line.
LEMMA LinesOfBlocks ==
    ASSUME NEW b \in Nat, NEW c \in Block, NEW ls, AreOf(ls, b, c)
    PROVE  \A i \in 1..Len(ls) :
              /\ ls[i].kind = IF c.cue /\ i = HeadLines(c) THEN "timing" ELSE "text"
              /\ ls[i] \in Line
<1> DEFINE h == HeadLines(c)
<1>1. c.cue \in BOOLEAN /\ c.id \in BOOLEAN /\ c.body \in Nat /\ c.start \in Int /\ c.end \in Int
      /\ (~c.cue => h = 0) /\ (c.cue /\ ~c.id => h = 1) /\ (c.cue /\ c.id => h = 2)
  BY DEF Block, HeadLines
<1>2. /\ ls \in Seq(Line) /\ Len(ls) = h + c.body
      /\ \A i \in 1..c.body : ls[h + i] = Track!Text(b, i)
      /\ c.cue => ls[h] = Track!Timing(c.start, c.end)
      /\ c.cue /\ c.id => ls[1] = Track!Text(b, 0)
  BY DEF AreOf
<1> HIDE DEF h
<1>3. ASSUME NEW i \in 1..Len(ls)
      PROVE  ls[i].kind = IF c.cue /\ i = h THEN "timing" ELSE "text"
  <2>0. h \in Nat /\ i \in Nat
    BY <1>1
  <2>1. CASE i > h
    <3>1. i - h \in 1..c.body /\ h + (i - h) = i
      BY <1>1, <1>2, <2>0, <2>1
    <3> DEFINE k == i - h
    <3>2. ls[i] = Track!Text(b, k) /\ k \in Nat /\ i # h
      BY <1>2, <2>0, <2>1, <3>1
    <3> HIDE DEF k
    <3>3. Track!Text(b, k).kind = "text"
      BY <3>2, LineKinds
    <3> QED
      BY <3>2, <3>3
  <2>2. CASE i = h
    <3>1. c.cue
      BY <1>1, <2>2
    <3>2. Track!Timing(c.start, c.end).kind = "timing"
      BY <1>1, LineKinds
    <3> QED
      BY <1>2, <2>2, <3>1, <3>2
  <2>3. CASE i < h
    <3>1. c.cue /\ c.id /\ i = 1 /\ h = 2
      BY <1>1, <2>0, <2>3
    <3>2. ls[i] = Track!Text(b, 0) /\ 0 \in Nat
      BY <1>2, <3>1
    <3>3. Track!Text(b, 0).kind = "text" /\ i # h
      BY <3>1, <3>2, LineKinds
    <3> QED
      BY <3>2, <3>3
  <2> QED
    BY <2>0, <2>1, <2>2, <2>3
<1> QED
  BY <1>2, <1>3 DEF h

\* A block that was collected whole gives just its own cue, if it has text.
LEMMA BlockIsFlushed ==
    ASSUME NEW b \in Nat, NEW c \in Block, NEW ls, AreOf(ls, b, c), NEW o \in Seq(Cue)
    PROVE  Track!Flush(Collecting(o, ls)) = Between(Written(o, b, c))
<1> DEFINE s == Collecting(o, ls)
           h == HeadLines(c)
           at == TimingAt(ls)
           body == SubSeq(ls, at + 1, Len(ls))
<1>1. s.out = o /\ s.number = Len(o) /\ s.block = ls
  BY DEF Collecting
<1>2. Track!Flush(s) =
         IF at \notin 1..2 \/ body = <<>> THEN [s EXCEPT !.block = <<>>]
         ELSE [out |-> Append(o, [number |-> Len(o) + 1, start |-> ls[at].start,
                                  end |-> ls[at].end, text |-> body]),
               number |-> Len(o) + 1, block |-> <<>>]
  <2> HIDE DEF s
  <2> QED
    BY <1>1 DEF Track!Flush, TimingAt
<1>3. [s EXCEPT !.block = <<>>] = Between(o)
  BY DEF Collecting, Between
<1>4. /\ ls \in Seq(Line) /\ Len(ls) = h + c.body /\ c.body \in Nat /\ c.cue \in BOOLEAN
      /\ \A i \in 1..c.body : ls[h + i] = Track!Text(b, i)
      /\ c.cue => ls[h] = Track!Timing(c.start, c.end)
      /\ c.start \in Int /\ c.end \in Int
      /\ h \in 0..2 /\ (c.cue => h \in 1..2)
  BY DEF AreOf, Block, HeadLines
<1>5. \A i \in 1..Len(ls) : ls[i].kind = IF c.cue /\ i = h THEN "timing" ELSE "text"
  BY LinesOfBlocks
<1>6. /\ at \in 0..Len(ls) /\ (at # 0 => ls[at].kind = "timing")
      /\ \A i \in 1..Len(ls) : ls[i].kind = "timing" => at # 0 /\ at <= i
  BY <1>4, TimingIsAt DEF TimingLine
<1> HIDE DEF s, h, at
<1>7. CASE ~c.cue
  <2>1. at = 0
    <3>1. at # 0 => at \in 1..Len(ls)
      BY <1>4, <1>6
    <3> QED
      BY <1>5, <1>6, <1>7, <3>1
  <2>2. at \notin 1..2
    BY <2>1
  <2> QED
    BY <1>2, <1>3, <1>7, <2>2 DEF Written, s
<1>8. CASE c.cue
  <2>1. at = h
    <3>1. h \in 1..Len(ls) /\ ls[h].kind = "timing"
      BY <1>4, <1>5, <1>8
    <3>2. at # 0 /\ at \in 1..Len(ls)
      BY <1>4, <1>6, <3>1
    <3> QED
      BY <1>5, <1>6, <3>2
  <2>2. /\ Len(ls) \in Nat /\ h \in Nat /\ Len(ls) = h + c.body
        /\ \A i \in (h + 1)..Len(ls) : ls[i] \in Line
    BY <1>4
  <2>3. /\ body \in Seq(Line) /\ Len(body) = c.body
        /\ \A i \in 1..c.body : body[i] = ls[h + i]
    <3>1. /\ body \in Seq(Line)
          /\ Len(body) = IF h + 1 <= Len(ls) THEN Len(ls) - (h + 1) + 1 ELSE 0
          /\ \A i \in 1..(Len(ls) - (h + 1) + 1) : body[i] = ls[(h + 1) + i - 1]
      BY <2>1, <2>2, SubSeqProperties
    <3> HIDE DEF body
    <3>2. /\ Len(ls) - (h + 1) + 1 = c.body
          /\ (IF h + 1 <= Len(ls) THEN Len(ls) - (h + 1) + 1 ELSE 0) = c.body
          /\ \A i \in 1..c.body : (h + 1) + i - 1 = h + i
      BY <1>4, <2>2
    <3> QED
      BY <3>1, <3>2
  <2> HIDE DEF body
  <2>4. body = Track!BodyLines(b, c.body)
    <3> DEFINE u == Track!BodyLines(b, c.body)
    <3>1. u \in Seq(Line) /\ Len(u) = c.body /\ \A i \in 1..c.body : u[i] = Track!Text(b, i)
      BY <1>4, BodyLinesAre
    <3> HIDE DEF u
    <3>2. Len(body) = Len(u) /\ \A i \in 1..Len(body) : body[i] = u[i]
      BY <1>4, <2>3, <3>1
    <3>3. body = u
      BY <2>3, <3>1, <3>2, SeqEqual
    <3> QED
      BY <3>3 DEF u
  <2>5. body = <<>> <=> ~(c.body > 0)
    BY <1>4, <2>3
  <2>6. at \in 1..2 /\ ls[at].start = c.start /\ ls[at].end = c.end
    BY <1>4, <1>8, <2>1, LineKinds
  <2>7. CASE c.body > 0
    <3> DEFINE e == NewCue(o, b, c)
    <3>1. Track!Flush(s) = [out |-> Append(o, e), number |-> Len(o) + 1, block |-> <<>>]
      BY <1>2, <2>4, <2>5, <2>6, <2>7 DEF NewCue
    <3>2. Len(Append(o, e)) = Len(o) + 1
      OBVIOUS
    <3> HIDE DEF e
    <3>3. Written(o, b, c) = Append(o, e)
      BY <1>8, <2>7 DEF Written, e
    <3> QED
      BY <3>1, <3>2, <3>3 DEF Between, s
  <2>8. CASE ~(c.body > 0)
    <3>1. Written(o, b, c) = o
      BY <2>8 DEF Written
    <3> QED
      BY <1>2, <1>3, <2>5, <2>8, <3>1 DEF s
  <2> QED
    BY <2>7, <2>8
<1> QED
  BY <1>4, <1>7, <1>8

\* The states of vtt_to_srt's loop over the lines ls.
ConvertRun(cs, ls) ==
    /\ \A n \in 0..Len(ls) : cs[n] \in Converting
    /\ \A n \in 1..Len(ls) : cs[n] = Track!ConvertLine(cs[n - 1], ls, n)

\* State s is what the loop has made of block b, as c, after the cues o.
BlockIsConverted(cs, ls, q, o, b, c) ==
    /\ q + 1 <= Len(ls) /\ ls[q + 1] = Track!Blank => cs[q + 1] = Between(Written(o, b, c))
    /\ q = Len(ls) => cs[q] = Between(Written(o, b, c))

\* vtt_to_srt over a block, ended by a blank line or by the end of the document.
LEMMA BlockConverts ==
    ASSUME NEW ls \in Seq(Line), NEW cs, ConvertRun(cs, ls),
           NEW b \in Nat, NEW c \in Block, NEW p \in Nat, StandsAt(ls, p, b, c),
           NEW o \in Seq(Cue), cs[p] = Between(o)
    PROVE  BlockIsConverted(cs, ls, p + HeadLines(c) + c.body, o, b, c)
<1> DEFINE m == HeadLines(c) + c.body
           bl == Track!BlockLines(b, c)
<1>1. AreOf(bl, b, c)
  BY BlockLinesAre
<1>2. /\ bl \in Seq(Line) /\ Len(bl) = m /\ m \in Nat /\ Len(ls) \in Nat
      /\ p + HeadLines(c) + c.body = p + m
  <2>1. c.body \in Nat /\ HeadLines(c) \in Nat
    BY DEF Block, HeadLines
  <2>2. bl \in Seq(Line) /\ Len(bl) = m
    BY <1>1 DEF AreOf
  <2> HIDE DEF bl
  <2> QED
    BY <2>1, <2>2
<1>3. /\ p + m <= Len(ls) /\ \A i \in 1..m : ls[p + i] = bl[i]
  BY <1>2 DEF StandsAt
<1>4. \A i \in 1..m : bl[i].kind # "blank" /\ bl[i] \in Line
  <2> HIDE DEF bl
  <2> QED
    BY <1>1, <1>2, LinesOfBlocks
<1> HIDE DEF m, bl
\* One line of the block.
<1>5. ASSUME NEW j \in Nat, j + 1 <= m, cs[p + j] = Collecting(o, SubSeq(bl, 1, j))
      PROVE  cs[p + (j + 1)] = IF p + (j + 1) < Len(ls) THEN Collecting(o, SubSeq(bl, 1, j + 1))
                               ELSE Track!Flush(Collecting(o, SubSeq(bl, 1, j + 1)))
  <2> DEFINE i == p + (j + 1)
             s == cs[p + j]
  <2>1. i \in 1..Len(ls) /\ i - 1 = p + j /\ j + 1 \in 1..m
    BY <1>2, <1>3, <1>5
  <2>2. cs[i] = Track!ConvertLine(s, ls, i)
    BY <2>1 DEF ConvertRun
  <2>3. ls[i] = bl[j + 1] /\ ls[i].kind # "blank"
    BY <1>3, <1>4, <2>1
  <2>4. SubSeq(bl, 1, j + 1) = Append(SubSeq(bl, 1, j), bl[j + 1])
    <3> DEFINE u == SubSeq(bl, 1, j)
    <3>1. SubSeq(bl, 1, j + 1) = SubSeq(bl, 1, (j + 1) - 1) \o <<bl[j + 1]>>
      <4>1. 1 \in 1..Len(bl) /\ j + 1 \in 1..Len(bl)
        BY <1>2, <2>1
      <4> QED
        BY <1>2, <4>1, SubSeqRecursiveSecond
    <3>2. (j + 1) - 1 = j
      OBVIOUS
    <3>3. u \in Seq(Line)
      <4>1. \A k \in 1..j : bl[k] \in Line
        BY <1>4, <1>5, <1>2
      <4> QED
        BY <4>1, SubSeqProperties
    <3>4. bl[j + 1] \in Line
      BY <1>4, <2>1
    <3> HIDE DEF u
    <3>5. Append(u, bl[j + 1]) = u \o <<bl[j + 1]>>
      BY <3>3, <3>4, AppendIsConcat
    <3> QED
      BY <3>1, <3>2, <3>5 DEF u
  <2> DEFINE t == [s EXCEPT !.block = Append(s.block, ls[i])]
  <2>5. cs[i] = IF i < Len(ls) THEN t ELSE Track!Flush(t)
    <3> HIDE DEF s, i
    <3> QED
      BY <2>2, <2>3 DEF Track!ConvertLine
  <2>6. t = Collecting(o, SubSeq(bl, 1, j + 1))
    <3> DEFINE u == SubSeq(bl, 1, j)
               w == SubSeq(bl, 1, j + 1)
               l == ls[i]
    <3>1. s = Collecting(o, u) /\ w = Append(u, l)
      BY <1>5, <2>3, <2>4
    <3> HIDE DEF u, w, l, s, i
    <3>2. s.block = u
      BY <3>1 DEF Collecting
    <3>3. [s EXCEPT !.block = w] = Collecting(o, w)
      <4>1. [Collecting(o, u) EXCEPT !.block = w] = Collecting(o, w)
        BY DEF Collecting
      <4> QED
        BY <3>1, <4>1
    <3>4. t = [s EXCEPT !.block = w]
      BY <3>1, <3>2 DEF l
    <3> QED
      BY <3>3, <3>4 DEF w
  <2> HIDE DEF t, s
  <2> QED
    BY <2>5, <2>6
<1> DEFINE Collected(j) == p + j < Len(ls) \/ j = 0 => cs[p + j] = Collecting(o, SubSeq(bl, 1, j))
           S == {j \in Nat : j <= m => Collected(j)}
<1>6. 0 \in S
  <2>1. SubSeq(bl, 1, 0) = <<>>
    BY SubSeqEmpty
  <2>2. p + 0 = p /\ Between(o) = Collecting(o, <<>>)
    BY DEF Between, Collecting
  <2>3. Collected(0)
    BY <2>1, <2>2
  <2> QED
    BY <2>3
<1>7. ASSUME NEW j \in Nat, j \in S PROVE j + 1 \in S
  <2> SUFFICES ASSUME j + 1 <= m, p + (j + 1) < Len(ls)
               PROVE  cs[p + (j + 1)] = Collecting(o, SubSeq(bl, 1, j + 1))
    OBVIOUS
  <2>1. j <= m /\ p + j < Len(ls)
    BY <1>2
  <2>2. cs[p + j] = Collecting(o, SubSeq(bl, 1, j))
    BY <1>7, <2>1
  <2> QED
    BY <1>5, <2>2
<1> HIDE DEF S
<1>8. \A j \in 0..m : Collected(j)
  <2>1. Nat \subseteq S
    BY <1>6, <1>7, Induction
  <2>2. \A j \in 0..m : j \in Nat /\ j <= m
    BY <1>2
  <2> QED
    BY <2>1, <2>2 DEF S
<1>9. SubSeq(bl, 1, m) = bl
  BY <1>2, SubSeqFull
<1>10. Track!Flush(Collecting(o, bl)) = Between(Written(o, b, c))
  BY <1>1, BlockIsFlushed
<1> DEFINE q == p + m
<1>11. ASSUME q + 1 <= Len(ls), ls[q + 1] = Track!Blank
       PROVE  cs[q + 1] = Between(Written(o, b, c))
  <2>1. cs[q] = Collecting(o, bl)
    <3>1. m \in 0..m /\ p + m < Len(ls)
      BY <1>2, <1>11
    <3> QED
      BY <1>8, <1>9, <3>1
  <2>2. q + 1 \in 1..Len(ls) /\ (q + 1) - 1 = q
    BY <1>2, <1>11
  <2>3. cs[q + 1] = Track!ConvertLine(cs[q], ls, q + 1)
    BY <2>2 DEF ConvertRun
  <2>4. Track!ConvertLine(cs[q], ls, q + 1) = Track!Flush(cs[q])
    BY <1>11, LineKinds DEF Track!ConvertLine
  <2> QED
    BY <1>10, <2>1, <2>3, <2>4
<1>12. ASSUME q = Len(ls)
       PROVE  cs[q] = Between(Written(o, b, c))
  <2>1. CASE m = 0
    <3>1. ~c.cue
      <4>1. c.cue \in BOOLEAN /\ c.id \in BOOLEAN /\ c.body \in Nat
        BY DEF Block
      <4> QED
        BY <2>1, <4>1 DEF HeadLines, m
    <3>2. p + m = p
      BY <2>1
    <3> QED
      BY <3>1, <3>2 DEF Written
  <2>2. CASE m # 0
    <3> DEFINE j == m - 1
    <3>1. j \in Nat /\ j + 1 = m /\ j \in 0..m /\ p + j < Len(ls) /\ p + (j + 1) = q
      BY <1>2, <1>12, <2>2
    <3> HIDE DEF j
    <3>2. cs[p + j] = Collecting(o, SubSeq(bl, 1, j))
      BY <1>8, <3>1
    <3>3. j + 1 <= m
      BY <1>2, <3>1
    <3>4. cs[p + (j + 1)] = IF p + (j + 1) < Len(ls) THEN Collecting(o, SubSeq(bl, 1, j + 1))
                            ELSE Track!Flush(Collecting(o, SubSeq(bl, 1, j + 1)))
      BY <1>5, <3>1, <3>2, <3>3
    <3>5. ~(p + (j + 1) < Len(ls))
      BY <1>2, <1>12, <3>1
    <3> QED
      BY <1>9, <1>10, <3>1, <3>4, <3>5
  <2> QED
    BY <2>1, <2>2
<1> HIDE DEF q
<1>13. BlockIsConverted(cs, ls, q, o, b, c)
  BY <1>11, <1>12 DEF BlockIsConverted
<1> QED
  BY <1>2, <1>13 DEF q

\* The cues of the first blocks, as they are to be shown.
ShownCues(C) ==
    /\ C[0] = <<>>
    /\ \A b \in 0..Len(doc) : C[b] \in Seq(Cue)
    /\ \A b \in 1..Len(doc) : C[b] = Track!ShowCue(C[b - 1], <<b, doc[b]>>)
    /\ C[Len(doc)] = Track!FoldLeft(Track!ShowCue, <<>>, Track!Numbered(doc))

LEMMA ShownCuesExist ==
    ASSUME TrackInputs
    PROVE  \E C : ShownCues(C)
<1> DEFINE nb == Track!Numbered(doc)
<1>1. /\ Len(doc) \in Nat /\ nb \in Seq(Nat \X Block) /\ Len(nb) = Len(doc)
      /\ \A b \in 1..Len(doc) : nb[b] = <<b, doc[b]>>
      /\ offset \in Nat
  BY NumberedBlocks DEF TrackInputs
<1> HIDE DEF nb
<1>2. PICK C : /\ C[0] = <<>>
               /\ \A n \in 1..Len(nb) : C[n] = Track!ShowCue(C[n - 1], nb[n])
               /\ \A n \in 0..Len(nb) : C[n] \in Seq(Cue)
               /\ C[Len(nb)] = Track!FoldLeft(Track!ShowCue, <<>>, nb)
  BY <1>1, ShowFold
<1>3. ASSUME NEW b \in 1..Len(doc)
      PROVE  C[b] = Track!ShowCue(C[b - 1], <<b, doc[b]>>)
  <2>1. b \in 1..Len(nb)
    BY <1>1
  <2> QED
    BY <1>1, <1>2, <2>1
<1>4. ShownCues(C)
  BY <1>1, <1>2, <1>3 DEF ShownCues, nb
<1> QED
  BY <1>4

LEMMA WrittenIsShown ==
    ASSUME offset \in Nat, NEW b \in Nat, NEW c \in Block, NEW o \in Seq(Cue)
    PROVE  Track!ShowCue(o, <<b, c>>) =
              IF Track!Remains(c) THEN Written(o, b, Track!Retimed(c)) ELSE o
<1> DEFINE r == Track!Retimed(c)
<1>1. /\ r.cue = c.cue /\ r.body = c.body
      /\ r.start = Track!InStream(c.start) /\ r.end = Track!InStream(c.end)
  <2>1. r = [cue |-> c.cue, id |-> c.id, start |-> Track!InStream(c.start),
             end |-> Track!InStream(c.end), body |-> c.body]
    BY RetimedTyped
  <2> HIDE DEF r
  <2> QED
    BY <2>1
<1> HIDE DEF r
<1>2. NewCue(o, b, r) = [number |-> Len(o) + 1, start |-> Track!InStream(c.start),
                         end |-> Track!InStream(c.end), text |-> Track!BodyLines(b, c.body)]
  BY <1>1 DEF NewCue
<1>3. Track!ShowCue(o, <<b, c>>) =
         IF Track!Remains(c) /\ c.cue /\ c.body > 0 THEN Append(o, NewCue(o, b, r)) ELSE o
  BY <1>2 DEF Track!ShowCue
<1> QED
  BY <1>1, <1>3 DEF Written, r

\* vtt_to_srt: its output is the cues that are still to be shown, numbered.
LEMMA ConvertIsExact ==
    ASSUME TrackInputs, NEW W, KeptLines(W), NEW v, Ends(v, W[Len(doc)])
    PROVE  Track!VttToSrt(v) = Track!FoldLeft(Track!ShowCue, <<>>, Track!Numbered(doc))
<1> DEFINE N == Len(doc)
<1>1. /\ N \in Nat /\ \A b \in 1..N : doc[b] \in Block
      /\ offset \in Nat /\ Growing(W, N)
  BY NumberedBlocks DEF TrackInputs, KeptLines
<1>2. PICK C : ShownCues(C)
  BY ShownCuesExist
<1>3. v \in Seq(Line) /\ Len(v) \in Nat
  BY DEF Ends
<1>4. Nearly(v, W[N]) /\ (v = W[N] \/ Len(W[N]) = Len(v) + 1)
  BY EndsNearly
<1> DEFINE is == [i \in DOMAIN v |-> i]
<1>5. is \in Seq(1..Len(v)) /\ Len(is) = Len(v) /\ \A i \in 1..Len(v) : is[i] = i
  <2>1. DOMAIN v = 1..Len(v)
    BY <1>3
  <2> QED
    BY <1>3, <2>1
<1> HIDE DEF is
<1>6. PICK cs :
        /\ cs[0] = Unconverted
        /\ \A n \in 1..Len(is) : cs[n] = Track!ConvertLine(cs[n - 1], v, is[n])
        /\ \A n \in 0..Len(is) : cs[n] \in Converting
        /\ cs[Len(is)] =
             Track!FoldLeft(LAMBDA u, i : Track!ConvertLine(u, v, i), Unconverted, is)
  BY <1>3, <1>5, ConvertFold
<1>7. Track!VttToSrt(v) = cs[Len(v)].out
  BY <1>5, <1>6 DEF Track!VttToSrt, Unconverted, is
<1>8. ConvertRun(cs, v)
  <2>1. ASSUME NEW n \in 1..Len(v) PROVE cs[n] = Track!ConvertLine(cs[n - 1], v, n)
    <3>1. n \in 1..Len(is)
      BY <1>5
    <3> QED
      BY <1>5, <1>6, <3>1
  <2>2. ASSUME NEW n \in 0..Len(v) PROVE cs[n] \in Converting
    <3>1. n \in 0..Len(is)
      BY <1>5
    <3> QED
      BY <1>6, <3>1
  <2> QED
    BY <2>1, <2>2 DEF ConvertRun
<1> DEFINE After(k) ==
              /\ Len(W[k]) <= Len(v) => cs[Len(W[k])] = Between(C[k])
              /\ Len(W[k]) = Len(v) + 1 => cs[Len(v)] = Between(C[k])
           S == {k \in Nat : k <= N => After(k)}
<1>9. 0 \in S
  <2>1. W[0] = <<>> /\ C[0] = <<>> /\ Len(<<>>) = 0
    BY <1>2 DEF KeptLines, ShownCues
  <2>2. cs[0] = Between(<<>>)
    BY <1>6 DEF Between, Unconverted
  <2>3. After(0)
    BY <1>3, <2>1, <2>2
  <2> QED
    BY <2>3
<1>10. ASSUME NEW k \in Nat, k \in S PROVE k + 1 \in S
  <2>0. SUFFICES ASSUME k + 1 <= N PROVE After(k + 1)
    <3> HIDE DEF After
    <3> QED
      OBVIOUS
  <2> DEFINE b == k + 1
             c == doc[b]
  <2>1. b \in 1..N /\ b \in Nat /\ b - 1 = k /\ k <= N /\ k \in 0..N
    BY <1>1, <2>0
  <2>2. After(k)
    <3> HIDE DEF After
    <3> QED
      BY <1>10, <2>1
  <2>3. c \in Block /\ C[k] \in Seq(Cue) /\ C[b] = Track!ShowCue(C[k], <<b, c>>)
    BY <1>1, <1>2, <2>1 DEF ShownCues
  <2>4. W[b] = IF Track!Remains(c) THEN Track!AddBlock(W[b - 1], <<b, Track!Retimed(c)>>)
               ELSE W[b - 1]
    BY <2>1 DEF KeptLines
  <2> DEFINE o == C[k]
  <2> HIDE DEF c, b, o
  <2>5. C[b] = IF Track!Remains(c) THEN Written(o, b, Track!Retimed(c)) ELSE o
    BY <1>1, <2>1, <2>3, WrittenIsShown DEF o
  <2>6. CASE ~Track!Remains(c)
    <3>1. W[b] = W[k] /\ C[b] = C[k]
      BY <2>1, <2>4, <2>5, <2>6 DEF o
    <3> QED
      BY <2>2, <3>1 DEF b
  <2>7. CASE Track!Remains(c)
    <3> DEFINE r == Track!Retimed(c)
               p == Len(W[k])
               q == p + HeadLines(r) + r.body
    <3>1. r \in Block
      BY <1>1, <2>3, RetimedTyped
    <3>2. W[b] = Track!AddBlock(W[b - 1], <<b, r>>)
      BY <2>4, <2>7
    <3> HIDE DEF r, N
    <3>3. StandsIn(W, v, b, r)
      BY <1>1, <1>4, <2>1, <3>1, <3>2, BlockStands
    <3>4. /\ p \in Nat /\ StandsAt(v, p, b, r) /\ Len(W[b]) = q + 1 /\ q \in Nat
          /\ q + 1 <= Len(v) => v[q + 1] = Track!Blank
      <4>1. /\ p \in Nat /\ StandsAt(v, p, b, r) /\ Len(W[b]) = q + 1
            /\ Len(W[b]) <= Len(v) => v[Len(W[b])] = Track!Blank
        BY <2>1, <3>3 DEF StandsIn
      <4>2. r.body \in Nat /\ HeadLines(r) \in Nat
        BY <3>1 DEF Block, HeadLines
      <4> QED
        BY <4>1, <4>2
    <3>5. p <= Len(v)
      <4>1. q <= Len(v) /\ r.body \in Nat /\ HeadLines(r) \in Nat
        BY <3>1, <3>4 DEF StandsAt, Block, HeadLines
      <4> QED
        BY <1>3, <3>4, <4>1
    <3>6. cs[p] = Between(o)
      BY <2>2, <3>5 DEF o
    <3>7. BlockIsConverted(cs, v, q, o, b, r)
      <4>1. o \in Seq(Cue)
        BY <2>3 DEF o
      <4> HIDE DEF p
      <4> QED
        BY <1>3, <1>8, <2>1, <3>1, <3>4, <3>6, <4>1, BlockConverts
    <3>8. C[b] = Written(o, b, r)
      BY <2>5, <2>7 DEF r
    <3> HIDE DEF q, p
    <3>9. ASSUME Len(W[b]) <= Len(v) PROVE cs[Len(W[b])] = Between(C[b])
      BY <3>4, <3>7, <3>8, <3>9 DEF BlockIsConverted
    <3>10. ASSUME Len(W[b]) = Len(v) + 1 PROVE cs[Len(v)] = Between(C[b])
      <4>1. q = Len(v)
        BY <1>3, <3>4, <3>10
      <4> QED
        BY <3>7, <3>8, <4>1 DEF BlockIsConverted
    <3> QED
      BY <3>9, <3>10 DEF b
  <2> QED
    BY <2>6, <2>7
<1> HIDE DEF S
<1>11. N \in S
  BY <1>1, <1>9, <1>10, Induction
<1>12. After(N)
  BY <1>1, <1>11 DEF S
<1>13. cs[Len(v)] = Between(C[N])
  <2>1. CASE v = W[N]
    <3>1. Len(W[N]) <= Len(v)
      BY <1>3, <2>1
    <3> QED
      BY <1>12, <2>1, <3>1
  <2>2. CASE Len(W[N]) = Len(v) + 1
    BY <1>12, <2>2
  <2> QED
    BY <1>4, <2>1, <2>2
<1> QED
  BY <1>2, <1>7, <1>13 DEF Between, ShownCues

\* The three inputs of subtitle_response.
TrackTyped ==
    /\ doc \in Seq(Track!Cues \cup {Track!Note}) /\ closed \in BOOLEAN /\ offset \in Track!Times

LEMMA BlocksTyped ==
    ASSUME NEW c \in Track!Cues \cup {Track!Note}
    PROVE  /\ c \in Block /\ c.start \in Nat /\ c.end \in Nat
           /\ c.cue => c.start \in Track!Times /\ c.end \in Track!Times /\ c.start < c.end
<1>1. Bodies \subseteq Nat /\ Track!Times \subseteq Nat
  BY TrackAssumption DEF Track!BoundsAssumption, Track!Times
<1>2. CASE c \in Track!Cues
  <2>1. /\ c.cue = TRUE /\ c.id \in BOOLEAN /\ c.start \in Track!Times /\ c.end \in Track!Times
        /\ c.body \in Bodies /\ c.start < c.end
        /\ c = [cue |-> c.cue, id |-> c.id, start |-> c.start, end |-> c.end, body |-> c.body]
    BY <1>2 DEF Track!Cues
  <2>2. c.start \in Nat /\ c.end \in Nat /\ c.body \in Nat
    BY <1>1, <2>1
  <2> DEFINE cue == c.cue
  <2>4. cue \in BOOLEAN
    BY <2>1
  <2> HIDE DEF cue
  <2>3. [cue |-> cue, id |-> c.id, start |-> c.start, end |-> c.end, body |-> c.body] \in Block
    BY <2>1, <2>2, <2>4 DEF Block
  <2> QED
    BY <2>1, <2>2, <2>3 DEF cue
<1>3. CASE c = Track!Note
  BY <1>3 DEF Track!Note, Block
<1> QED
  BY <1>2, <1>3

LEMMA InputsOfTracks ==
    ASSUME TrackTyped
    PROVE  TrackInputs
<1>1. /\ Len(doc) \in Nat /\ DOMAIN doc = 1..Len(doc) /\ doc = [b \in 1..Len(doc) |-> doc[b]]
      /\ \A b \in 1..Len(doc) : doc[b] \in Track!Cues \cup {Track!Note}
  BY DEF TrackTyped
<1>2. \A b \in 1..Len(doc) : doc[b] \in Block /\ doc[b].start \in Nat /\ doc[b].end \in Nat
  BY <1>1, BlocksTyped
<1>3. doc \in Seq(Block)
  <2>1. [b \in 1..Len(doc) |-> doc[b]] \in Seq(Block)
    BY <1>1, <1>2
  <2> QED
    BY <1>1, <2>1
<1>4. offset \in Nat
  BY TrackAssumption DEF TrackTyped, Track!BoundsAssumption, Track!Times
<1> QED
  BY <1>2, <1>3, <1>4 DEF TrackInputs

\* The timing lines of ls have their type.
WellTimed(ls) ==
    \A i \in 1..Len(ls) :
        ls[i].kind = "timing" =>
            ls[i].start \in Track!Times /\ ls[i].end \in Track!Times /\ ls[i].start < ls[i].end

\* A re-timed cue still ends after it starts.
LEMMA KeptTimes ==
    ASSUME TrackTyped, NEW W, KeptLines(W)
    PROVE  WellTimed(W[Len(doc)])
<1> DEFINE N == Len(doc)
           S == {k \in Nat : k <= N => WellTimed(W[k])}
<1>1. /\ N \in Nat /\ Growing(W, N) /\ offset \in Nat /\ MaxTime \in Nat
      /\ offset \in Track!Times /\ Track!Times = 0..MaxTime
      /\ \A b \in 1..N : doc[b] \in Track!Cues \cup {Track!Note}
  BY InputsOfTracks, TrackAssumption
     DEF TrackTyped, TrackInputs, KeptLines, Track!BoundsAssumption, Track!Times
<1>2. 0 \in S
  BY DEF KeptLines, WellTimed
<1>3. ASSUME NEW k \in Nat, k \in S PROVE k + 1 \in S
  <2>0. SUFFICES ASSUME k + 1 <= N PROVE WellTimed(W[k + 1])
    OBVIOUS
  <2> DEFINE b == k + 1
             c == doc[b]
             r == Track!Retimed(c)
             x == W[k]
  <2>1. b \in 1..N /\ b \in Nat /\ b - 1 = k /\ k <= N /\ k \in 0..N
    BY <1>1, <2>0
  <2>2. WellTimed(x)
    BY <1>3, <2>1
  <2>3. /\ c \in Block /\ c.start \in Nat /\ c.end \in Nat
        /\ c.cue => c.start \in Track!Times /\ c.end \in Track!Times /\ c.start < c.end
    BY <1>1, <2>1, BlocksTyped
  <2>4. W[b] = IF Track!Remains(c) THEN Track!AddBlock(W[b - 1], <<b, r>>) ELSE W[b - 1]
    BY <2>1 DEF KeptLines
  <2>5. x \in Seq(Line)
    BY <1>1, <2>1 DEF Growing
  <2> HIDE DEF c, b, x
  <2>6. CASE ~Track!Remains(c)
    <3>1. W[b] = x
      BY <2>1, <2>4, <2>6 DEF x
    <3> QED
      BY <2>2, <3>1 DEF b
  <2>7. CASE Track!Remains(c)
    <3> DEFINE bl == Track!BlockLines(b, r)
               e == <<Track!Blank>>
    <3>1. /\ r \in Block /\ r.cue = c.cue
          /\ r.start = Track!InStream(c.start) /\ r.end = Track!InStream(c.end)
      <4>1. /\ r \in Block
            /\ r = [cue |-> c.cue, id |-> c.id, start |-> Track!InStream(c.start),
                    end |-> Track!InStream(c.end), body |-> c.body]
        BY <1>1, <2>3, RetimedTyped
      <4> HIDE DEF r
      <4> QED
        BY <4>1
    <3> HIDE DEF r
    <3>2. r.cue => r.start \in Track!Times /\ r.end \in Track!Times /\ r.start < r.end
      <4> SUFFICES ASSUME c.cue
                   PROVE  r.start \in Track!Times /\ r.end \in Track!Times /\ r.start < r.end
        BY <3>1
      <4>1. /\ offset = 0 \/ c.end > offset
            /\ c.start \in 0..MaxTime /\ c.end \in 0..MaxTime /\ c.start < c.end
        BY <1>1, <2>3, <2>7 DEF Track!Remains
      <4>2. /\ r.start = IF c.start > offset THEN c.start - offset ELSE 0
            /\ r.end = IF c.end > offset THEN c.end - offset ELSE 0
        BY <3>1 DEF Track!InStream
      <4> QED
        BY <1>1, <4>1, <4>2
    <3>3. AreOf(bl, b, r)
      BY <2>1, <3>1, BlockLinesAre
    <3>4. \A i \in 1..Len(bl) :
             bl[i].kind = "timing" =>
                /\ bl[i].start \in Track!Times /\ bl[i].end \in Track!Times
                /\ bl[i].start < bl[i].end
      <4> HIDE DEF bl
      <4> SUFFICES ASSUME NEW i \in 1..Len(bl), bl[i].kind = "timing"
                   PROVE  /\ bl[i].start \in Track!Times /\ bl[i].end \in Track!Times
                          /\ bl[i].start < bl[i].end
        OBVIOUS
      <4>1. bl[i].kind = IF r.cue /\ i = HeadLines(r) THEN "timing" ELSE "text"
        BY <2>1, <3>1, <3>3, LinesOfBlocks
      <4>2. r.cue /\ i = HeadLines(r)
        BY <4>1
      <4>3. bl[i] = Track!Timing(r.start, r.end)
        BY <3>3, <4>2 DEF AreOf
      <4>4. bl[i].start = r.start /\ bl[i].end = r.end
        BY <4>3 DEF Track!Timing
      <4> QED
        BY <3>2, <4>2, <4>4
    <3>5. bl \in Seq(Line) /\ e \in Seq(Line) /\ Len(e) = 1 /\ e[1].kind = "blank"
      BY <3>3, LineKinds DEF AreOf
    <3>6. W[b] = (x \o bl) \o e
      BY <2>1, <2>4, <2>7 DEF Track!AddBlock, x
    <3> HIDE DEF bl, e
    <3> DEFINE y == x \o bl
    <3>7. /\ y \in Seq(Line) /\ Len(x) \in Nat /\ Len(bl) \in Nat /\ Len(y) = Len(x) + Len(bl)
          /\ \A i \in 1..Len(y) : y[i] = IF i <= Len(x) THEN x[i] ELSE bl[i - Len(x)]
      BY <2>5, <3>5, ConcatProperties
    <3>8. /\ Len(y \o e) = Len(y) + 1
          /\ \A i \in 1..Len(y) : (y \o e)[i] = y[i]
          /\ (y \o e)[Len(y) + 1] = e[1]
      <4> HIDE DEF y
      <4>1. 1 \in 1..Len(e)
        BY <3>5
      <4>2. /\ Len(y \o e) = Len(y) + Len(e)
            /\ \A i \in 1..Len(y) : (y \o e)[i] = y[i]
            /\ \A i \in 1..Len(e) : (y \o e)[Len(y) + i] = e[i]
        BY <3>5, <3>7, JoinedLines
      <4> QED
        BY <3>5, <4>1, <4>2
    <3> HIDE DEF y
    <3>9. WellTimed(y \o e)
      <4> SUFFICES ASSUME NEW i \in 1..Len(y \o e), (y \o e)[i].kind = "timing"
                   PROVE  /\ (y \o e)[i].start \in Track!Times /\ (y \o e)[i].end \in Track!Times
                          /\ (y \o e)[i].start < (y \o e)[i].end
        BY DEF WellTimed
      <4>1. i \in 1..(Len(y) + 1) /\ Len(y) \in Nat
        BY <3>7, <3>8
      <4>2. CASE i <= Len(x)
        <5>1. i \in 1..Len(x) /\ i \in 1..Len(y)
          BY <3>7, <4>1, <4>2
        <5>2. (y \o e)[i] = x[i]
          BY <3>7, <3>8, <4>1, <4>2, <5>1
        <5> QED
          BY <2>2, <5>1, <5>2 DEF WellTimed
      <4>3. CASE ~(i <= Len(x)) /\ i <= Len(y)
        <5>1. i - Len(x) \in 1..Len(bl) /\ i \in 1..Len(y)
          BY <3>7, <4>1, <4>3
        <5>2. (y \o e)[i] = bl[i - Len(x)]
          BY <3>7, <3>8, <4>1, <4>3, <5>1
        <5> QED
          BY <3>4, <5>1, <5>2
      <4>4. CASE ~(i <= Len(y))
        <5>1. i = Len(y) + 1
          BY <4>1, <4>4
        <5>2. (y \o e)[i] = e[1]
          BY <3>8, <4>1, <4>4, <5>1
        <5> QED
          BY <3>5, <5>2
      <4> QED
        BY <4>2, <4>3, <4>4
    <3> QED
      BY <3>6, <3>9 DEF b, y
  <2> QED
    BY <2>6, <2>7
<1> HIDE DEF S
<1>4. N \in S
  BY <1>1, <1>2, <1>3, Induction
<1> QED
  BY <1>1, <1>4 DEF S

\* The track is what the two conversions make of the document.
TrackInv ==
    /\ TrackTyped /\ forms \in 0..2
    /\ forms = 0 => vtt = <<>>
    /\ forms > 0 => vtt = Track!ShiftVtt(Track!TrackOf(doc, closed), offset)
    /\ forms = 2 => srt = Track!VttToSrt(vtt)

LEMMA TrackInvInit == MCInit => TrackInv
<1> SUFFICES ASSUME MCInit PROVE TrackInv
  OBVIOUS
<1>1. forms = 0 /\ vtt = <<>>
  BY DEF MCInit, TrackRests, Track!Init
<1>2. TrackTyped
  <2>1. CASE TrackRests
    <3>1. 0 \in Track!Times
      BY TrackAssumption DEF Track!BoundsAssumption, Track!Times
    <3> QED
      BY <2>1, <3>1, EmptySeq DEF TrackRests, TrackTyped
  <2>2. CASE Track!Init
    <3>1. PICK n \in 0..MaxBlocks : doc \in [1..n -> Track!Cues \cup {Track!Note}]
      BY <2>2 DEF Track!Init, Track!Documents
    <3>2. n \in Nat
      BY <3>1, TrackAssumption DEF Track!BoundsAssumption
    <3>3. doc \in Seq(Track!Cues \cup {Track!Note})
      BY <3>1, <3>2
    <3> QED
      BY <2>2, <3>3 DEF Track!Init, TrackTyped
  <2> QED
    BY <2>1, <2>2 DEF MCInit
<1> QED
  BY <1>1, <1>2 DEF TrackInv

LEMMA TrackInvNext ==
    TrackInv /\ [MCNext]_<<part, vars, trackVars, scanVars, cacheVars>> => TrackInv'
<1> SUFFICES ASSUME TrackInv, [MCNext]_<<part, vars, trackVars, scanVars, cacheVars>>
             PROVE  TrackInv'
  OBVIOUS
<1>1. CASE Track!Retime
  <2>1. /\ forms' = 1 /\ doc' = doc /\ closed' = closed /\ offset' = offset
        /\ vtt' = Track!ShiftVtt(Track!TrackOf(doc, closed), offset)
    BY <1>1 DEF Track!Retime
  <2> QED
    BY <2>1 DEF TrackInv, TrackTyped
<1>2. CASE Track!Convert
  <2>1. /\ forms = 1 /\ forms' = 2 /\ doc' = doc /\ closed' = closed /\ offset' = offset
        /\ vtt' = vtt /\ srt' = Track!VttToSrt(vtt)
    BY <1>2 DEF Track!Convert
  <2> QED
    BY <2>1 DEF TrackInv, TrackTyped
<1>3. CASE UNCHANGED trackVars
  <2>1. /\ forms' = forms /\ doc' = doc /\ closed' = closed /\ offset' = offset
        /\ vtt' = vtt /\ srt' = srt
    BY <1>3 DEF trackVars
  <2> QED
    BY <2>1 DEF TrackInv, TrackTyped
<1>4. Track!Retime \/ Track!Convert \/ UNCHANGED trackVars
  BY DEF MCNext, RangeStep, TrackStep, ScanStep, CacheStep, Track!Next, Track!Done, Track!vars,
         trackVars
<1> QED
  BY <1>1, <1>2, <1>3, <1>4

LEMMA TrackIsExact ==
    ASSUME TrackInv
    PROVE  TracksAreExact /\ Track!TypeOK
<1>1. TrackTyped /\ TrackInputs /\ closed \in BOOLEAN
  BY InputsOfTracks DEF TrackInv, TrackTyped
<1>2. PICK W : KeptLines(W)
  BY <1>1, KeptLinesExist
<1> DEFINE ref == Track!FoldLeft(Track!KeepBlock, <<>>, Track!Numbered(doc))
<1>3. W[Len(doc)] = ref
  BY <1>2 DEF KeptLines
<1>4. ASSUME forms > 0 PROVE Ends(vtt, ref)
  <2>1. vtt = Track!ShiftVtt(Track!TrackOf(doc, closed), offset)
    BY <1>4 DEF TrackInv
  <2> QED
    BY <1>1, <1>2, <1>3, <2>1, ShiftIsExact
<1>5. Track!RetimedIsExact
  <2> HIDE DEF ref
  <2>1. forms > 0 => vtt = ref \/ vtt \o <<Track!Blank>> = ref
    BY <1>4 DEF Ends
  <2> QED
    BY <2>1 DEF Track!RetimedIsExact, ref
<1>6. Track!SubRipIsExact
  <2>1. ASSUME forms = 2
        PROVE  srt = Track!FoldLeft(Track!ShowCue, <<>>, Track!Numbered(doc))
    <3>1. srt = Track!VttToSrt(vtt) /\ Ends(vtt, W[Len(doc)])
      BY <1>3, <1>4, <2>1 DEF TrackInv
    <3> QED
      BY <1>1, <1>2, <3>1, ConvertIsExact
  <2> QED
    BY <2>1 DEF Track!SubRipIsExact
<1>7. ASSUME NEW l \in Track!ToSet(vtt), l.kind = "timing"
      PROVE  l.start \in Track!Times /\ l.end \in Track!Times /\ l.start < l.end
  <2>1. CASE forms = 0
    <3>1. Track!ToSet(vtt) = {}
      BY <2>1 DEF TrackInv, Track!ToSet
    <3> QED
      BY <1>7, <3>1
  <2>2. CASE forms > 0
    <3>1. WellTimed(ref) /\ Nearly(vtt, ref)
      BY <1>1, <1>2, <1>3, <1>4, <2>2, KeptTimes, EndsNearly
    <3> HIDE DEF ref
    <3>2. PICK i \in 1..Len(vtt) : l = vtt[i]
      BY <1>7, <3>1 DEF Nearly, Track!ToSet
    <3>3. l = ref[i] /\ i \in 1..Len(ref)
      BY <3>1, <3>2 DEF Nearly
    <3> QED
      BY <1>7, <3>1, <3>3 DEF WellTimed
  <2> QED
    BY <2>1, <2>2 DEF TrackInv
<1>8. Track!TypeOK
  BY <1>7 DEF Track!TypeOK, TrackInv, TrackTyped
<1> QED
  BY <1>5, <1>6, <1>8 DEF TracksAreExact, Track!TracksAreExact

\* Whatever the track and wherever the stream starts in the file, both forms have
\* just the cues that are still to be shown, in their order, each with its own text
\* at its own time, the SubRip form numbered without a gap (subtitles.rs, shift_vtt,
\* vtt_to_srt).
THEOREM TracksAreExactHolds == MCSpec => []TracksAreExact
<1>1. TrackInv => TracksAreExact
  BY TrackIsExact
<1> QED
  BY <1>1, TrackInvInit, TrackInvNext, PTL DEF MCSpec

-------------------------------------------------------------------------------
(* The types of the four components *)

AnswersInv ==
    /\ part \in {"range", "track", "scan", "cache"}
    /\ part = "range" => Exact
    /\ TrackInv /\ ScanInv /\ CacheInv
    /\ part = "scan" => Scan!TypeOK

LEMMA ScanTypedInit == MCInit /\ part = "scan" => Scan!TypeOK
<1> SUFFICES ASSUME MCInit, Scan!Init PROVE Scan!TypeOK
  BY DEF MCInit
<1>1. Inputs
  BY InputsInit
<1>2. PICK m \in 0..MaxEvents : events \in [1..m -> Scan!Announced]
  BY DEF Scan!Init, Scan!SeqOf
<1>3. m \in Nat /\ m <= MaxEvents
  BY <1>2, ScanAssumption DEF Scan!BoundsAssumption
<1>4. Len(events) = m
  BY <1>2, <1>3
<1> QED
  BY <1>1, <1>3, <1>4 DEF Scan!Init, Scan!TypeOK, Inputs

LEMMA AnswersInvInit == MCInit => AnswersInv
<1> SUFFICES ASSUME MCInit PROVE AnswersInv
  OBVIOUS
<1>1. part = "range" => Exact
  BY ExactInit DEF MCInit
<1> QED
  BY <1>1, TrackInvInit, ScanInvInit, CacheInvInit, ScanTypedInit DEF MCInit, AnswersInv

LEMMA AnswersInvNext ==
    AnswersInv /\ [MCNext]_<<part, vars, trackVars, scanVars, cacheVars>> => AnswersInv'
<1> SUFFICES ASSUME AnswersInv, [MCNext]_<<part, vars, trackVars, scanVars, cacheVars>>
             PROVE  AnswersInv'
  OBVIOUS
<1>1. part' = part /\ part \in {"range", "track", "scan", "cache"}
  BY DEF MCNext, RangeStep, TrackStep, ScanStep, CacheStep, AnswersInv
<1>2. ASSUME part = "range" PROVE Exact'
  <2>1. [Next]_vars
    BY <1>2 DEF MCNext, RangeStep, TrackStep, ScanStep, CacheStep
  <2> QED
    BY <1>2, <2>1, ExactNext DEF AnswersInv
<1>3. TrackInv' /\ ScanInv' /\ CacheInv'
  BY TrackInvNext, ScanInvNext, CacheInvNext DEF AnswersInv
<1>4. ASSUME part = "scan" PROVE Scan!TypeOK'
  <2>1. Scan!TypeOK /\ Inputs
    BY <1>4 DEF AnswersInv, ScanInv
  <2>2. CASE Scan!Discover
    <3>1. devices' \subseteq Scan!Device
      BY <2>1, <2>2, MergeAllSums DEF Scan!Discover
    <3> QED
      BY <2>1, <2>2, <3>1 DEF Scan!Discover, Scan!TypeOK
  <2>3. CASE UNCHANGED scanVars
    BY <2>1, <2>3 DEF scanVars, Scan!TypeOK
  <2>4. Scan!Discover \/ UNCHANGED scanVars
    BY DEF MCNext, RangeStep, TrackStep, ScanStep, CacheStep, Scan!Next, Scan!Done, Scan!vars,
           scanVars
  <2> QED
    BY <2>2, <2>3, <2>4
<1> QED
  BY <1>1, <1>2, <1>3, <1>4 DEF AnswersInv

\* Every variable of the component a behaviour is about has its type; no re-timed
\* line has a time before the start of the stream (MCAnswers).
THEOREM AnswersTypeOKHolds == MCSpec => []AnswersTypeOK
<1>1. AnswersInv => AnswersTypeOK
  BY TrackIsExact DEF AnswersInv, AnswersTypeOK, Exact, CacheInv
<1> QED
  BY <1>1, AnswersInvInit, AnswersInvNext, PTL DEF MCSpec

================================================================================
