---------------------------- MODULE SessionLogFile ----------------------------
(***************************************************************************)
(* The files of one session's log and everything that writes them: the     *)
(* append of the live generation with its rolls and its failed writes      *)
(* (packages/session/src/log), the clear, and the compaction that replaces *)
(* the current file (packages/runtime/src/compact, session-lifecycle.ts).  *)
(*                                                                         *)
(* A row is the start or the end of a turn.  A file is a sequence of rows, *)
(* in which "torn" is a record without its end and "scrap" an unreadable   *)
(* record with its newline.  A descriptor matters only in that it is the   *)
(* one of the current path or that of a file which has lost its name.      *)
(***************************************************************************)
EXTENDS Naturals, SequencesExt

CONSTANTS
    Threshold,    \* COMPACT_THRESHOLD: complete turns that are not worth a summary
    Keep,         \* COMPACT_KEEP_TURNS: turns that survive a compaction
    SegmentRows,  \* SESSION_LOG_MAX_BYTES: the rows at which a file is rolled
    Compactors,   \* the compaction requests that may be under way at once
    MaxTurns,     \* bound: turns begun
    MaxFaults,    \* bound: failed or short writes
    MaxCrashes    \* bound: crashes of the process

ASSUME LogFileAssumption ==
    /\ Keep \in Nat \ {0} /\ Threshold \in Nat /\ Keep < Threshold
    /\ SegmentRows \in Nat \ {0}
    /\ MaxTurns \in Nat /\ MaxFaults \in Nat /\ MaxCrashes \in Nat

VARIABLES
    current,     \* cli-main.jsonl
    rolled,      \* its rolled segments, oldest first
    precompact,  \* the backup a compaction leaves
    gen,         \* the live generation's log, or NoGen
    clearing,    \* is clear() between its truncation and the segments' removal?
    compaction   \* [Compactors -> where a compaction is and what it has read]

disk == <<current, rolled, precompact>>

VARIABLES
    begun,       \* how many turns have begun: the next one's serial
    written,     \* turns both of whose rows were written
    folded,      \* turns that a summary stands for
    unsaved,     \* rows of the live generation whose write failed: in memory only
    tears,       \* short writes so far
    crossed,     \* has a compaction replaced a file that was no longer the one it read?
    cutBehind,   \* has a compaction replaced the current file in front of segments?
    revived,     \* has one brought a cleared history back under a live generation?
    faults, crashes

history == <<begun, written, folded, tears, crossed, cutBehind, revived, faults, crashes>>
vars == <<disk, gen, clearing, compaction, unsaved, history>>

-----------------------------------------------------------------------------
(* Rows and files. *)

Summary == 0   \* the serial of the head turn of a compaction
TurnRow(kind, id, turn) == [kind |-> kind, id |-> id, turn |-> turn]
Damaged(kind) == TurnRow(kind, 0, Summary)
IsReadable(row) == row.kind \in {"start", "end"}

(* The files one after the other. *)
Stream(files) ==
    LET upTo[i \in 0..Len(files)] == IF i = 0 THEN <<>> ELSE upTo[i - 1] \o files[i]
    IN upTo[Len(files)]

(* Rows without those that have failed: SelectSeq as a recursive function. *)
Saved(rows, failed) ==
    LET upTo[i \in 0..Len(rows)] ==
            IF i = 0 THEN <<>>
            ELSE IF rows[i] \in failed THEN upTo[i - 1] ELSE Append(upTo[i - 1], rows[i])
    IN upTo[Len(rows)]

NoGen == [live |-> FALSE]
(* path: is the descriptor that of the current path?  turn: the turn in flight. *)
Open(mirror, id) ==
    [live |-> TRUE, mirror |-> mirror, counter |-> id, path |-> TRUE,
     turn |-> Summary, id |-> 0]

(* The longest prefix without an unreadable record: what a replay returns. *)
ValidPrefix(file) ==
    LET damage == {i \in DOMAIN file : ~IsReadable(file[i])}
    IN IF damage = {} THEN file
       ELSE SubSeq(file, 1, Min(damage) - 1)
Replay == ValidPrefix(Stream(Append(rolled, current)))
EndsTorn(file) == file # <<>> /\ Last(file).kind = "torn"

\* mutant: the number of turns instead of the highest id.
NextTurnNumberOfCount(rows) == Cardinality({i \in DOMAIN rows : rows[i].kind = "start"})
NextTurnNumber(rows) ==
    IF rows = <<>> THEN 0
    ELSE 1 + Max({rows[i].id : i \in DOMAIN rows})

(* What a record becomes in a file: after a record without its end it merges
   with it and the line stays unreadable. *)
Written(file, row, outcome) ==
    LET kept == IF EndsTorn(file) THEN Front(file) ELSE file
    IN CASE outcome = "fails" -> file
         [] outcome = "short" -> Append(kept, Damaged("torn"))
         [] outcome = "ok"    -> Append(kept, IF EndsTorn(file) THEN Damaged("scrap") ELSE row)

(* rotateIfLarge: at or above the threshold, to one generation above the newest. *)
Large(file) == Len(file) >= SegmentRows
Rolled(segments, file) == Append(segments, file)

-----------------------------------------------------------------------------
(* The plan of a compaction. *)

(* The complete turns of a list of rows, one row more at a time; a start
   discards an unfinished turn. *)
NothingRead == [done |-> <<>>, cut |-> <<>>]
WithRow(read, row) ==
    IF row.kind = "start" THEN [read EXCEPT !.cut = <<row>>]
    ELSE IF read.cut = <<>> THEN read
    ELSE [done |-> Append(read.done, read.cut[1].turn), cut |-> <<>>]
Split(rows) ==
    LET upTo[i \in 0..Len(rows)] ==
            IF i = 0 THEN NothingRead ELSE WithRow(upTo[i - 1], rows[i])
    IN upTo[Len(rows)]
CompleteTurns(rows) == Split(rows).done

(* The two rows of each turn, numbered from 2. *)
Renumbered(turns) ==
    [k \in 1..(2 * Len(turns)) |->
        LET i == (k + 1) \div 2
        IN TurnRow(IF k % 2 = 1 THEN "start" ELSE "end", i + 1, turns[i])]

(* The turns that stay as they are, and those of which only the summary tells: it
   is asked for with the whole file, rows outside the complete turns included. *)
\* mutant: one turn too few.
KeptTurnsShort(turns) == SubSeq(turns, Len(turns) - Keep + 2, Len(turns))
KeptTurns(turns) == SubSeq(turns, Len(turns) - Keep + 1, Len(turns))
Told(rows) ==
    LET turns == CompleteTurns(rows)
    IN {rows[i].turn : i \in DOMAIN rows}
           \ {turns[i] : i \in (Len(turns) - Keep + 1)..Len(turns)}

WorthCompacting(rows) == Len(CompleteTurns(rows)) > Threshold

PlanCompaction(rows) ==
    <<TurnRow("start", 1, Summary), TurnRow("end", 1, Summary)>>
        \o Renumbered(KeptTurns(CompleteTurns(rows)))

(* stale: has the log been cleared since it was read? *)
NotCompacting == [at |-> "idle", read |-> <<>>, rebind |-> FALSE, stale |-> FALSE]

-----------------------------------------------------------------------------
Init ==
    /\ current = <<>> /\ rolled = <<>> /\ precompact = <<>>
    /\ gen = NoGen /\ clearing = FALSE
    /\ compaction = [c \in Compactors |-> NotCompacting]
    /\ begun = 0 /\ written = {} /\ folded = {} /\ unsaved = {}
    /\ tears = 0 /\ crossed = FALSE /\ cutBehind = FALSE /\ revived = FALSE
    /\ faults = 0 /\ crashes = 0

(* PersistentSessionLog.open: replay every segment up to the first unreadable
   record, cut that record's own segment there, end a last line that has no
   newline. *)
OpenLog(segments) ==
    LET torn == {i \in DOMAIN segments : ValidPrefix(segments[i]) # segments[i]}
        cut  == IF torn = {} THEN segments
                ELSE [segments EXCEPT ![Min(torn)] = ValidPrefix(@)]
        rows == ValidPrefix(Stream(segments))
    IN /\ rolled' = Front(cut)
       /\ current' = IF EndsTorn(Last(cut)) THEN Append(Front(Last(cut)), Damaged("scrap"))
                     ELSE Last(cut)
       /\ gen' = Open(rows, NextTurnNumber(rows)) /\ unsaved' = {}

(* A request composes the session's generation. *)
Compose ==
    /\ ~clearing /\ ~gen.live
    /\ OpenLog(Append(rolled, current))
    /\ UNCHANGED <<precompact, clearing, compaction, history>>

(* The registry lets go of an idle generation; its log is closed. *)
Evict ==
    /\ ~clearing /\ gen.live /\ gen.turn = Summary
    /\ gen' = NoGen
    /\ UNCHANGED <<disk, clearing, compaction, unsaved, history>>

(* append: roll the file of the path when it is large, then write the row to
   the descriptor; whatever happens, the row is in the mirror. *)
AppendRow(row, outcome, renamed) ==
    LET large  == Large(current)
        roll   == large /\ renamed
        onPath == large \/ gen.path
        file   == IF roll THEN <<>> ELSE current
    IN /\ outcome # "ok" \/ (large /\ ~renamed) => faults < MaxFaults
       /\ ~large => renamed
       /\ rolled' = IF roll THEN Rolled(rolled, current) ELSE rolled
       /\ current' = IF onPath THEN Written(file, row, outcome) ELSE file
       /\ gen' = [gen EXCEPT !.mirror = Append(@, row), !.path = onPath,
                             !.counter = IF row.kind = "start" THEN @ + 1 ELSE @,
                             !.turn = IF row.kind = "start" THEN row.turn ELSE Summary,
                             !.id = row.id]
       /\ unsaved' = IF outcome = "ok" THEN unsaved ELSE unsaved \cup {row}
       /\ tears' = IF outcome = "short" THEN tears + 1 ELSE tears
       /\ faults' = IF outcome = "ok" /\ (large => renamed) THEN faults ELSE faults + 1
       /\ UNCHANGED <<precompact, clearing, compaction, folded, crossed, cutBehind,
                      revived, crashes>>

TurnStarts(outcome, renamed) ==
    /\ ~clearing /\ gen.live /\ gen.turn = Summary /\ begun < MaxTurns
    /\ begun' = begun + 1
    /\ AppendRow(TurnRow("start", gen.counter, begun + 1), outcome, renamed)
    /\ UNCHANGED written

TurnEnds(outcome, renamed) ==
    /\ ~clearing /\ gen.live /\ gen.turn # Summary
    /\ AppendRow(TurnRow("end", gen.id, gen.turn), outcome, renamed)
    /\ written' = IF outcome = "ok" /\ TurnRow("start", gen.id, gen.turn) \notin unsaved
                  THEN written \cup {gen.turn} ELSE written
    /\ UNCHANGED begun

(* clear, refused while a turn is in flight: truncate the path, then remove
   the segments. *)
ClearTruncates ==
    /\ ~clearing /\ gen.live /\ gen.turn = Summary
    /\ current' = <<>> /\ clearing' = TRUE
    /\ gen' = Open(<<>>, 0) /\ unsaved' = {}
    /\ compaction' = [c \in Compactors |->
                         [compaction[c] EXCEPT !.stale = compaction[c].at = "summary"]]
    /\ written' = {} /\ folded' = {}
    /\ UNCHANGED <<rolled, precompact, begun, tears, crossed, cutBehind, revived,
                   faults, crashes>>

\* mutant: the segments stay.
ClearedSegmentsStay(segments) == segments
ClearedSegments(segments) == <<>>

ClearRemoves ==
    /\ clearing
    /\ clearing' = FALSE /\ rolled' = ClearedSegments(rolled)
    /\ UNCHANGED <<current, precompact, gen, compaction, unsaved, history>>

-----------------------------------------------------------------------------
(* A compaction: refused while a turn is in flight, it evicts the generation
   there is, reads the current file, awaits the summary and replaces the file. *)

Moves(c, state) == compaction' = [compaction EXCEPT ![c] = state]

CompactEvicts(c) ==
    /\ ~clearing /\ compaction[c].at = "idle"
    /\ gen.live => gen.turn = Summary
    /\ gen' = NoGen
    /\ Moves(c, [NotCompacting EXCEPT !.at = "evicted", !.rebind = gen.live])
    /\ UNCHANGED <<disk, clearing, unsaved, history>>

CompactReads(c) ==
    /\ ~clearing /\ compaction[c].at = "evicted"
    /\ WorthCompacting(ValidPrefix(current))
    /\ Moves(c, [compaction[c] EXCEPT !.at = "summary", !.read = ValidPrefix(current)])
    /\ UNCHANGED <<disk, gen, clearing, unsaved, history>>

CompactSkips(c) ==
    /\ ~clearing /\ compaction[c].at = "evicted"
    /\ ~WorthCompacting(ValidPrefix(current))
    /\ IF compaction[c].rebind /\ ~gen.live
       THEN OpenLog(Append(rolled, current))
       ELSE UNCHANGED <<current, rolled, gen, unsaved>>
    /\ Moves(c, NotCompacting)
    /\ UNCHANGED <<precompact, clearing, history>>

(* The summary or the rewrite failed: the request is answered with an error
   and nothing is composed again. *)
CompactFails(c) ==
    /\ ~clearing /\ compaction[c].at = "summary"
    /\ Moves(c, NotCompacting)
    /\ UNCHANGED <<disk, gen, clearing, unsaved, history>>

(* rewriteAtomic, then ensure: a generation composed in the meantime keeps its
   mirror and the descriptor of the file that has lost its name. *)
CompactReplaces(c) ==
    LET rows == compaction[c].read
        plan == PlanCompaction(rows)
    IN /\ ~clearing /\ compaction[c].at = "summary"
       /\ precompact' = current
       /\ IF compaction[c].rebind /\ ~gen.live
          THEN OpenLog(Append(rolled, plan))
          ELSE /\ current' = plan /\ UNCHANGED <<rolled, unsaved>>
               /\ gen' = IF gen.live THEN [gen EXCEPT !.path = FALSE] ELSE gen
       /\ Moves(c, NotCompacting)
       /\ folded' = folded \cup Told(rows)
       /\ crossed' = (crossed \/ gen.live \/ current # rows)
       /\ cutBehind' = (cutBehind \/ rolled # <<>>)
       /\ revived' = (revived \/ (gen.live /\ compaction[c].stale))
       /\ UNCHANGED <<clearing, begun, written, tears, faults, crashes>>

(* A crash at any moment, also between the two steps of a clear. *)
Crash ==
    /\ crashes < MaxCrashes /\ crashes' = crashes + 1
    /\ gen' = NoGen /\ clearing' = FALSE
    /\ compaction' = [c \in Compactors |-> NotCompacting]
    /\ UNCHANGED <<disk, begun, written, folded, unsaved, tears, crossed, cutBehind,
                   revived, faults>>

Outcome == {"ok", "fails", "short"}

Next ==
    \/ Compose \/ Evict \/ ClearTruncates \/ ClearRemoves \/ Crash
    \/ \E outcome \in Outcome, renamed \in BOOLEAN :
          TurnStarts(outcome, renamed) \/ TurnEnds(outcome, renamed)
    \/ \E c \in Compactors :
          \/ CompactEvicts(c) \/ CompactReads(c) \/ CompactSkips(c)
          \/ CompactFails(c) \/ CompactReplaces(c)

Spec == Init /\ [][Next]_vars

-----------------------------------------------------------------------------
(* While the generation writes to the path, what a restart would read is what
   it shows, without the rows whose write failed (persistent.ts:134): rolls,
   compactions, clears and crashes lose, add and reorder nothing. *)
RestartShowsMirror ==
    gen.live /\ gen.path /\ ~clearing /\ ~crossed /\ tears = 0 =>
        Replay = Saved(gen.mirror, unsaved)

(* A turn whose rows were written is read back, or a summary stands for it. *)
Lost == {t \in written \ folded :
            ~ \E i \in DOMAIN Replay : Replay[i].kind = "end" /\ Replay[i].turn = t}
WrittenSurvives == tears = 0 => Lost = {}
WrittenSurvivesApart == ~crossed => WrittenSurvives

(* Turn ids increase along the log: auditTurnIds finds nothing. *)
TurnIdsIncrease ==
    \A i, j \in DOMAIN Replay :
        i < j /\ Replay[i].kind = "start" /\ Replay[j].kind = "start" =>
            Replay[i].id < Replay[j].id
(* The next turn's id is above all that is on disk, also where a compaction has
   numbered the current file anew (plan.ts:13). *)
NextIdIsNew ==
    gen.live /\ ~clearing => \A i \in DOMAIN Replay : Replay[i].id < gen.counter
TurnIdsIncreaseApart ==
    ~revived /\ tears = 0 => NextIdIsNew /\ (~cutBehind => TurnIdsIncrease)
=============================================================================
