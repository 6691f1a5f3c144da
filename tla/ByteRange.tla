------------------------------ MODULE ByteRange ------------------------------
(***************************************************************************)
(* The byte range of a download: parse_range and file_response of          *)
(* media_server.rs, against what RFC 9110 says of a single range.          *)
(*                                                                         *)
(* A Range header is modelled by its parts: the two numbers around the     *)
(* dash, either of which may be missing, or no usable header at all.  A    *)
(* number above MaxU64 does not parse.  `saturating_sub` is the            *)
(* subtraction Sat.                                                        *)
(***************************************************************************)
EXTENDS Integers

CONSTANTS
    Sizes,    \* sizes of the file
    Numbers,  \* numbers a receiver may put into a range
    MaxU64,   \* the largest u64
    Missing   \* a number that is left out

ASSUME SizesAssumption == Sizes \subseteq 0..MaxU64 /\ Numbers \subseteq Nat /\ MaxU64 \in Nat
ASSUME MissingAssumption == Missing \notin Nat

\* A header: usable is FALSE without one, without "bytes=", without a dash, or
\* with a comma.
Headers == [usable : BOOLEAN, first : Numbers \cup {Missing}, second : Numbers \cup {Missing}]

VARIABLES
    size,   \* the size of the file
    range,  \* the header
    reply   \* status, and the bytes sent: length of them from start

vars == <<size, range, reply>>

Statuses == {0, 200, 206, 416}

NoReply == [status |-> 0, start |-> 0, length |-> 0]

Init ==
    /\ size \in Sizes
    /\ range \in Headers
    /\ reply = NoReply

Sat(a, b) == IF a > b THEN a - b ELSE 0

Parses(n) == n # Missing /\ n <= MaxU64

\* parse_range has a result.
Valid(r) ==
    /\ r.usable
    /\ \/ r.first = Missing /\ Parses(r.second)
       \/ Parses(r.first) /\ r.second = Missing
       \/ Parses(r.first) /\ Parses(r.second) /\ r.first <= r.second

\* The first byte of the result; a suffix counts from the end.
Low(r, n) == IF r.first = Missing THEN Sat(n, r.second) ELSE r.first

\* Mutation of High: one byte more.
HighPastEnd(r, n) ==
    IF r.first = Missing \/ r.second = Missing THEN Sat(n, 1)
    ELSE IF r.second < n THEN r.second ELSE n

\* The last byte of the result, within the file.
High(r, n) ==
    IF r.first = Missing \/ r.second = Missing THEN Sat(n, 1)
    ELSE IF r.second < Sat(n, 1) THEN r.second ELSE Sat(n, 1)

\* file_response.
Respond(r, n) ==
    IF ~Valid(r) THEN [status |-> 200, start |-> 0, length |-> n]
    ELSE IF Low(r, n) > High(r, n) \/ Low(r, n) >= n
    THEN [status |-> 416, start |-> 0, length |-> 0]
    ELSE [status |-> 206, start |-> Low(r, n), length |-> High(r, n) - Low(r, n) + 1]

Answer ==
    /\ reply.status = 0
    /\ reply' = Respond(range, size)
    /\ UNCHANGED <<size, range>>

Done ==
    /\ reply.status # 0
    /\ UNCHANGED vars

Next == Answer \/ Done

Spec == Init /\ [][Next]_vars

-------------------------------------------------------------------------------
(* Properties *)

\* Every variable has its type.
TypeOK ==
    /\ size \in Sizes /\ range \in Headers
    /\ reply \in [status : Statuses, start : 0..MaxU64, length : 0..MaxU64]

\* Position p of the file is one that the header asks for (RFC 9110, 14.1.2).
AskedFor(r, p, n) ==
    IF r.first = Missing THEN p >= n - r.second
    ELSE p >= r.first /\ (r.second = Missing \/ p <= r.second)

\* A partial reply holds just the bytes of the file that were asked for.
PartialIsExact ==
    reply.status = 206 =>
        /\ reply.length > 0
        /\ \A p \in 0..MaxU64 :
             p \in reply.start..(reply.start + reply.length - 1)
                <=> p < size /\ AskedFor(range, p, size)

\* 416 is for a range in order that asks for no byte of the file.
UnsatisfiableIsRefused ==
    reply.status = 416 =>
        /\ range.usable
        /\ Missing \in {range.first, range.second} \/ range.first <= range.second
        /\ \A p \in 0..MaxU64 : p < size => ~AskedFor(range, p, size)

\* A header that is ignored costs the receiver nothing: the whole file is sent,
\* and only when there is no range, one that is not a range of u64 numbers, or one
\* that ends before it starts.
WholeFileOtherwise ==
    reply.status = 200 =>
        /\ reply.start = 0 /\ reply.length = size
        /\ \/ ~range.usable
           \/ range.first = Missing /\ range.second = Missing
           \/ \E n \in {range.first, range.second} \ {Missing} : n > MaxU64
           \/ /\ Missing \notin {range.first, range.second}
              /\ range.second < range.first

\* Whatever the header, the receiver is sent just the bytes it asked for, refused
\* only a range without a byte of the file, and sent the whole file only for a
\* header that is to be ignored: no subtraction of parse_range wraps around, and
\* none of its ends is off by one (media_server.rs, parse_range, file_response).
RepliesAreExact == PartialIsExact /\ UnsatisfiableIsRefused /\ WholeFileOtherwise
===============================================================================
