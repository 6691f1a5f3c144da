------------------------------ MODULE CueTiming ------------------------------
(***************************************************************************)
(* What a receiver is given of a converted subtitle track: shift_vtt of    *)
(* subtitles.rs re-times it for a stream that starts `offset` into the     *)
(* file, vtt_to_srt turns it into SubRip with its cues numbered.  Both go  *)
(* over the document line by line; they are checked against what they are  *)
(* to do to the cues.                                                      *)
(*                                                                         *)
(* A document is what ffmpeg writes: blocks of lines, each a note or a cue *)
(* with an optional id, a timing line and a body, parted by blank lines;   *)
(* the last may or may not be followed by one.  Times are in milliseconds, *)
(* as they are written; the code adds and compares them as f64 seconds.    *)
(* A line of text is known by its block and its part of it; its markup,    *)
(* and the settings of a cue, are left out.                                *)
(***************************************************************************)
EXTENDS Integers, SequencesExt

CONSTANTS
    MaxBlocks, \* blocks of a document
    MaxTime,   \* bound on times
    Bodies     \* the numbers of body lines of a cue

BoundsAssumption ==
    MaxBlocks \in Nat /\ MaxTime \in Nat \ {0} /\ Bodies \subseteq Nat

Times == 0..MaxTime

\* A note has no cue; an unlabelled cue has no id line.
Note == [cue |-> FALSE, id |-> FALSE, start |-> 0, end |-> 0, body |-> 1]

Cues ==
    {c \in [cue : {TRUE}, id : BOOLEAN, start : Times, end : Times, body : Bodies] :
        c.start < c.end}

Documents == UNION {[1..n -> Cues \cup {Note}] : n \in 0..MaxBlocks}

VARIABLES
    doc,     \* the blocks of the track
    closed,  \* a blank line follows the last
    offset,  \* the `start` of the request, 0 without one
    vtt,     \* the lines of the re-timed track
    srt,     \* the cues of the SubRip form
    done     \* how many of the two forms are made

vars == <<doc, closed, offset, vtt, srt, done>>

Init ==
    /\ doc \in Documents
    /\ closed \in BOOLEAN
    /\ offset \in Times
    /\ vtt = <<>>
    /\ srt = <<>>
    /\ done = 0

-------------------------------------------------------------------------------
(* The lines of a track *)

Blank == [kind |-> "blank"]
Text(b, part) == [kind |-> "text", block |-> b, part |-> part]
Timing(s, e) == [kind |-> "timing", start |-> s, end |-> e]

BodyLines(b, n) == [i \in 1..n |-> Text(b, i)]

BlockLines(b, c) ==
    IF ~c.cue THEN BodyLines(b, c.body)
    ELSE (IF c.id THEN <<Text(b, 0)>> ELSE <<>>)
         \o <<Timing(c.start, c.end)>> \o BodyLines(b, c.body)

\* The lines of the blocks bs, a sequence of <<number, block>>.
AddBlock(ls, nb) == ls \o BlockLines(nb[1], nb[2]) \o <<Blank>>

Lines(bs) == FoldLeft(AddBlock, <<>>, bs)

Numbered(d) == [b \in DOMAIN d |-> <<b, d[b]>>]

TrackOf(d, c) == LET ls == Lines(Numbered(d)) IN IF c \/ ls = <<>> THEN ls ELSE Front(ls)

-------------------------------------------------------------------------------
(* shift_vtt *)

\* Mutation of Shifted: a start before the offset is not clamped.
ShiftedRaw(line, by) == Timing(line.start - by, line.end - by)

Shifted(line, by) ==
    Timing(IF line.start > by THEN line.start - by ELSE 0, line.end - by)

\* Mutation of ShiftLine: the id of a dropped cue is kept.
ShiftLineKeepsId(s, line, by) ==
    CASE line.kind = "blank" ->
           [out |-> s.out \o s.pending \o (IF s.dropping THEN <<>> ELSE <<Blank>>),
            pending |-> <<>>, dropping |-> FALSE]
      [] line.kind # "blank" /\ s.dropping -> s
      [] line.kind = "timing" /\ ~s.dropping ->
           IF line.end - by <= 0 THEN [s EXCEPT !.dropping = TRUE]
           ELSE [s EXCEPT !.out = @ \o s.pending \o <<Shifted(line, by)>>, !.pending = <<>>]
      [] line.kind = "text" /\ ~s.dropping -> [s EXCEPT !.pending = Append(@, line)]

\* One line of the loop.  Lines are pending until it is known whether the block
\* is a cue that ends before the offset, which is dropped up to the blank line.
ShiftLine(s, line, by) ==
    CASE line.kind = "blank" ->
           [out |-> IF s.dropping THEN s.out ELSE s.out \o s.pending \o <<Blank>>,
            pending |-> <<>>, dropping |-> FALSE]
      [] line.kind # "blank" /\ s.dropping -> s
      [] line.kind = "timing" /\ ~s.dropping ->
           IF line.end - by <= 0 THEN [s EXCEPT !.dropping = TRUE, !.pending = <<>>]
           ELSE [s EXCEPT !.out = @ \o s.pending \o <<Shifted(line, by)>>, !.pending = <<>>]
      [] line.kind = "text" /\ ~s.dropping -> [s EXCEPT !.pending = Append(@, line)]

ShiftVtt(ls, by) ==
    IF by <= 0 THEN ls
    ELSE LET s == FoldLeft(LAMBDA t, line : ShiftLine(t, line, by),
                           [out |-> <<>>, pending |-> <<>>, dropping |-> FALSE], ls)
         IN IF s.dropping THEN s.out ELSE s.out \o s.pending

-------------------------------------------------------------------------------
(* vtt_to_srt *)

\* The end of a block: the timing line is its first or second; the lines before
\* it are dropped, and a cue without text is not written.
Flush(s) ==
    LET at == SelectInSeq(s.block, LAMBDA l : l.kind = "timing")
        body == SubSeq(s.block, at + 1, Len(s.block))
    IN IF at \notin 1..2 \/ body = <<>> THEN [s EXCEPT !.block = <<>>]
       ELSE [out |-> Append(s.out, [number |-> s.number + 1,
                        start |-> s.block[at].start, end |-> s.block[at].end, text |-> body]),
             number |-> s.number + 1, block |-> <<>>]

\* Line i of the loop.  A block ends at a blank line, or with the last line of the
\* document.
ConvertLine(s, ls, i) ==
    LET t == IF ls[i].kind = "blank" THEN s ELSE [s EXCEPT !.block = Append(@, ls[i])]
    IN IF ls[i].kind # "blank" /\ i < Len(ls) THEN t ELSE Flush(t)

VttToSrt(ls) ==
    FoldLeft(LAMBDA s, i : ConvertLine(s, ls, i),
             [out |-> <<>>, number |-> 0, block |-> <<>>],
             [i \in DOMAIN ls |-> i]).out

-------------------------------------------------------------------------------
(* subtitle_response *)

Retime ==
    /\ done = 0
    /\ done' = 1
    /\ vtt' = ShiftVtt(TrackOf(doc, closed), offset)
    /\ UNCHANGED <<doc, closed, offset, srt>>

Convert ==
    /\ done = 1
    /\ done' = 2
    /\ srt' = VttToSrt(vtt)
    /\ UNCHANGED <<doc, closed, offset, vtt>>

Done ==
    /\ done = 2
    /\ UNCHANGED vars

Next == Retime \/ Convert \/ Done

Spec == Init /\ [][Next]_vars

-------------------------------------------------------------------------------
(* Properties *)

\* A stream that starts at the offset still has to show the block.
Remains(c) == ~c.cue \/ offset = 0 \/ c.end > offset

\* Time t of the file, in the stream.
InStream(t) == IF t > offset THEN t - offset ELSE 0

Retimed(c) == [c EXCEPT !.start = InStream(c.start), !.end = InStream(c.end)]

KeepBlock(ls, nb) ==
    IF Remains(nb[2]) THEN AddBlock(ls, <<nb[1], Retimed(nb[2])>>) ELSE ls

\* The re-timed track is the track of the remaining blocks, ids and notes
\* included, each cue earlier by the offset and none before the start.
RetimedIsExact ==
    done > 0 =>
        LET ref == FoldLeft(KeepBlock, <<>>, Numbered(doc))
        IN vtt = ref \/ vtt \o <<Blank>> = ref

ShowCue(cues, nb) ==
    LET b == nb[1]
        c == nb[2]
    IN IF Remains(c) /\ c.cue /\ c.body > 0
       THEN Append(cues, [number |-> Len(cues) + 1,
                          start |-> InStream(c.start), end |-> InStream(c.end),
                          text |-> BodyLines(b, c.body)])
       ELSE cues

\* The SubRip form has just the cues with text that are not over, in their order,
\* numbered from 1 without a gap, with their own text at their own time.
SubRipIsExact == done = 2 => srt = FoldLeft(ShowCue, <<>>, Numbered(doc))

\* Every variable has its type, and no time that is written is negative.
TypeOK ==
    /\ doc \in Seq(Cues \cup {Note}) /\ closed \in BOOLEAN /\ offset \in Times
    /\ done \in 0..2
    /\ \A l \in ToSet(vtt) :
         l.kind = "timing" => l.start \in Times /\ l.end \in Times /\ l.start < l.end

\* A receiver that starts in the middle of a file is given the cues it still has to
\* show, each once and at the right time, in either form (subtitles.rs, shift_vtt,
\* vtt_to_srt).
TracksAreExact == RetimedIsExact /\ SubRipIsExact
===============================================================================
