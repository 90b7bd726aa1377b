---------------------------- MODULE WorkerTable ----------------------------
(***************************************************************************)
(* The worker table of a Studio process: registry.tsv, one row per         *)
(* background worker, shared by the worker registries of all sessions of   *)
(* the process and read back by the next process.                          *)
(*                                                                         *)
(* Each registry works on a view it read when its session was composed and *)
(* writes the table as a whole, merging its own rows into what the disk    *)
(* holds.  A worker's driver runs its brief in one turn and then reports   *)
(* (closeLoop), in one synchronous section with several disk writes:       *)
(* `section` says how far it has got, and only a crash interleaves.        *)
(*                                                                         *)
(* A driver is followed up to its report: what it does afterwards, in the  *)
(* mailbox loop, changes no row.  The watchdog re-dispatches a worker only *)
(* from the brief its registry remembers, and a registry that remembers a  *)
(* brief still drives it: a row without a driver has no brief, and the     *)
(* attempt of a row stays 0.                                               *)
(***************************************************************************)
EXTENDS Naturals

CONSTANTS
    Host,            \* sessions that spawn workers
    Wid,             \* worker ids, chosen by the model
    SharedNames,     \* may two sessions choose the same id?
    Recover,         \* CELESTEA_WORKER_RECOVER
    MaxCrashes,      \* bound: crashes
    MaxFailures      \* bound: writes of the table that fail

ASSUME SharedNamesAssumption == SharedNames \in BOOLEAN
ASSUME RecoverAssumption == Recover \in BOOLEAN
ASSUME MaxCrashesAssumption == MaxCrashes \in Nat
ASSUME MaxFailuresAssumption == MaxFailures \in Nat

Terminal == {"DONE", "FAILED", "STOPPED"}
Pid == 0 .. MaxCrashes
NoRow == [none |-> TRUE]
Empty == [w \in Wid |-> NoRow]

\* proc: the process that owns the row; notify: report_to was given.
Row == [status : Terminal \cup {"RUNNING"}, host : Host, proc : Pid,
        notify : BOOLEAN, receipt : BOOLEAN]
Worker == [host : Host, wid : Wid]
NoSection == [none |-> TRUE]

VARIABLES
    table,      \* disk: registry.tsv
    reports,    \* disk: the ids a report file names
    pid,        \* the id of the running process
    booting,    \* the boot recovery is still at work
    composed,   \* sessions with a live registry
    view,       \* the rows each registry holds
    drivers,    \* workers whose brief turn is running
    section,    \* the closeLoop or claim under way
    told,       \* history: receipts sent to the session, by worker
    failures, crashes

budget == <<failures, crashes>>
vars == <<table, reports, pid, booting, composed, view, drivers, section, told, budget>>

-----------------------------------------------------------------------------
Is(row, status) == row # NoRow /\ row.status = status
Settled(row) == row # NoRow /\ row.status \in Terminal

\* isMine: this process's row, of this session.
Mine(h, row) == row # NoRow /\ row.proc = pid /\ row.host = h

\* The RUNNING rows of a registry.
Open(h) == {w \in Wid : Mine(h, view[h][w]) /\ Is(view[h][w], "RUNNING")}
Driven(h) == {d.wid : d \in {d \in drivers : d.host = h}}
Free == ~booting /\ section = NoSection

\* mutant: every row of the view wins over the disk.
MergedWholeView(h, rows) == [w \in Wid |-> IF rows[w] # NoRow THEN rows[w] ELSE table[w]]

\* persist: its own rows are merged into the table as it is on disk ...
Merged(h, rows) == [w \in Wid |-> IF Mine(h, rows[w]) THEN rows[w] ELSE table[w]]

\* ... and the view becomes the merge.  A write that fails is only logged.
Persist(h, rows) ==
    \/ /\ table' = Merged(h, rows)
       /\ view' = [view EXCEPT ![h] = Merged(h, rows)]
       /\ failures' = failures
    \/ /\ failures < MaxFailures /\ failures' = failures + 1
       /\ view' = [view EXCEPT ![h] = rows]
       /\ table' = table

\* finalize: an open row gets its verdict.
Finalize(h, w, verdict) == Persist(h, [view[h] EXCEPT ![w].status = verdict])

Init ==
    /\ table = Empty /\ reports = {}
    /\ pid = 0 /\ booting = Recover
    /\ composed = {} /\ view = [h \in Host |-> Empty]
    /\ drivers = {} /\ section = NoSection
    /\ told = [d \in Worker |-> 0]
    /\ failures = 0 /\ crashes = 0

(* --- sessions ------------------------------------------------------------ *)

\* A session is composed: its registry reads the table.
Compose(h) ==
    /\ Free /\ h \notin composed
    /\ composed' = composed \cup {h} /\ view' = [view EXCEPT ![h] = table]
    /\ UNCHANGED <<table, reports, pid, booting, drivers, section, told, budget>>

\* hasLiveWorkersOf: an open row, or a turn of a stopped worker.
Pinned(h) == Open(h) # {} \/ Driven(h) # {}

\* Eviction or a swap of its generation: only without live workers.
Evict(h) ==
    /\ Free /\ h \in composed /\ ~Pinned(h)
    /\ composed' = composed \ {h} /\ view' = [view EXCEPT ![h] = Empty]
    /\ UNCHANGED <<table, reports, pid, booting, drivers, section, told, budget>>

(* --- tools --------------------------------------------------------------- *)

\* The check of spawn_worker looks at the view of its own session.
NameFree(h, w) ==
    /\ view[h][w] = NoRow
    /\ ~SharedNames => table[w] = NoRow /\ \A g \in Host : view[g][w] = NoRow

\* spawn_worker.
Spawn(h, w) ==
    /\ Free /\ h \in composed /\ NameFree(h, w)
    /\ \E notify \in BOOLEAN :
          Persist(h, [view[h] EXCEPT ![w] =
              [status |-> "RUNNING", host |-> h, proc |-> pid, notify |-> notify, receipt |-> FALSE]])
    /\ drivers' = drivers \cup {[host |-> h, wid |-> w]}
    /\ UNCHANGED <<reports, pid, booting, composed, section, told, crashes>>

\* stop_worker: the row is settled; the brief turn is not aborted.
Stop(h, w) ==
    /\ Free /\ h \in composed /\ w \in Open(h)
    /\ Finalize(h, w, "STOPPED")
    /\ UNCHANGED <<reports, pid, booting, composed, drivers, section, told, crashes>>

(* --- the end of a brief: closeLoop --------------------------------------- *)

\* mutant: the receipt is sent before the verdict is written.
StepAfterSendFirst(step) ==
    CASE step = "report" -> "send" [] step = "send" -> "verdict" [] step = "verdict" -> "token"
      [] OTHER -> "end"

StepAfter(step) ==
    CASE step = "report" -> "verdict" [] step = "verdict" -> "token" [] step = "token" -> "send"
      [] OTHER -> "end"

\* Without report_to the row is only settled.
EndsUnnoticed(d, verdict) ==
    /\ ~view[d.host][d.wid].notify
    /\ \/ d.wid \in Open(d.host) /\ Finalize(d.host, d.wid, verdict)
       \/ d.wid \notin Open(d.host) /\ UNCHANGED <<table, view, failures>>
    /\ UNCHANGED <<reports, section>>

\* executeReceipt: a report that could not be written fails the worker.
Reports(d, verdict) ==
    /\ view[d.host][d.wid].notify
    /\ \E written \in BOOLEAN :
          /\ reports' = IF written THEN reports \cup {d.wid} ELSE reports
          /\ section' = [worker |-> d, step |-> StepAfter("report"), settled |-> FALSE,
                         verdict |-> IF written THEN verdict ELSE "FAILED"]
    /\ UNCHANGED <<table, view, failures>>

BriefEnds(d) ==
    /\ Free /\ d \in drivers
    /\ \E verdict \in {"DONE", "FAILED"} : EndsUnnoticed(d, verdict) \/ Reports(d, verdict)
    /\ drivers' = drivers \ {d}
    /\ UNCHANGED <<pid, booting, composed, told, crashes>>

In(step) == section # NoSection /\ section.step = step

Then(settled) ==
    IF StepAfter(section.step) = "end" THEN NoSection
    ELSE [section EXCEPT !.step = StepAfter(section.step), !.settled = settled]

\* The row is settled, unless it was stopped meanwhile.
WriteVerdict ==
    /\ In("verdict")
    /\ LET h == section.worker.host  w == section.worker.wid
       IN /\ section' = Then(w \in Open(h))
          /\ \/ w \in Open(h) /\ Finalize(h, w, section.verdict)
             \/ w \notin Open(h) /\ UNCHANGED <<table, view, failures>>
    /\ UNCHANGED <<reports, pid, booting, composed, drivers, told, crashes>>

\* markReceipt: the token, in a write of its own.
WriteToken ==
    /\ In("token")
    /\ LET h == section.worker.host  w == section.worker.wid
       IN \/ section.settled /\ Persist(h, [view[h] EXCEPT ![w].receipt = TRUE])
          \/ ~section.settled /\ UNCHANGED <<table, view, failures>>
    /\ section' = Then(section.settled)
    /\ UNCHANGED <<reports, pid, booting, composed, drivers, told, crashes>>

\* The receipt goes to the mailbox of the session.
Send ==
    /\ In("send")
    /\ told' = [told EXCEPT ![section.worker] = @ + 1]
    /\ section' = Then(section.settled)
    /\ UNCHANGED <<table, reports, pid, booting, composed, view, drivers, budget>>

(* --- the watchdog --------------------------------------------------------- *)

\* mutant: the driver and the open turn are not asked for.
UnattendedOpen(h, w) == w \in Open(h)

\* An open row with neither driver nor turn.
Unattended(h, w) == w \in Open(h) \ Driven(h)

\* hasDeliverable: a report file names the id, whoever wrote it.
Reported(w) == w \in reports

\* mutant: a row without a report is put off like one in its grace.
WatchReported(h, w) ==
    /\ Free /\ h \in composed /\ Unattended(h, w) /\ Reported(w)
    /\ Finalize(h, w, "DONE")
    /\ UNCHANGED <<reports, pid, booting, composed, drivers, section, told, crashes>>

\* tickOne: DONE if a report names the id, else, after the grace and without a
\* brief to dispatch again, FAILED.
Watch(h, w) ==
    /\ Free /\ Unattended(h, w)
    /\ Finalize(h, w, IF Reported(w) THEN "DONE" ELSE "FAILED")
    /\ UNCHANGED <<reports, pid, booting, composed, drivers, section, told, crashes>>

(* --- the process ---------------------------------------------------------- *)

\* The process dies.  The next one may get the same id.
Crash ==
    /\ crashes < MaxCrashes /\ crashes' = crashes + 1
    /\ pid' \in {pid, crashes + 1}
    /\ booting' = Recover
    /\ composed' = {} /\ view' = [h \in Host |-> Empty]
    /\ drivers' = {} /\ section' = NoSection
    /\ UNCHANGED <<table, reports, told, failures>>

\* The boot recovery, if it is armed: a row of a dead process is claimed ...
\* (A row of the process's own id is taken for a live one.)
Claim(w) ==
    /\ booting /\ section = NoSection
    /\ Is(table[w], "RUNNING") /\ table[w].proc # pid
    /\ table' = [table EXCEPT ![w].proc = pid]
    /\ section' = [wid |-> w, step |-> "claimed"]
    /\ UNCHANGED <<reports, pid, booting, composed, view, drivers, told, budget>>

\* ... and settled: nobody remembers its brief.
SettleClaimed ==
    /\ In("claimed")
    /\ table' = [table EXCEPT ![section.wid].status = IF Reported(section.wid) THEN "DONE" ELSE "FAILED"]
    /\ section' = NoSection
    /\ UNCHANGED <<reports, pid, booting, composed, view, drivers, told, budget>>

BootEnds ==
    /\ booting /\ section = NoSection
    /\ \A w \in Wid : Is(table[w], "RUNNING") => table[w].proc = pid
    /\ booting' = FALSE
    /\ UNCHANGED <<table, reports, pid, composed, view, drivers, section, told, budget>>

SectionMoves == WriteVerdict \/ WriteToken \/ Send \/ SettleClaimed

Next ==
    \/ \E h \in Host : Compose(h) \/ Evict(h)
    \/ \E h \in Host, w \in Wid : Spawn(h, w) \/ Stop(h, w) \/ Watch(h, w)
    \/ \E d \in drivers : BriefEnds(d)
    \/ SectionMoves \/ Crash
    \/ \E w \in Wid : Claim(w)
    \/ BootEnds

Spec == Init /\ [][Next]_vars

\* The watchdog's timer fires; a synchronous section runs to its end.
FairSpec == Spec /\ WF_vars(SectionMoves) /\ \A h \in Host, w \in Wid : WF_vars(Watch(h, w))

-----------------------------------------------------------------------------
(* Properties *)

TypeOK ==
    /\ table \in [Wid -> Row \cup {NoRow}] /\ reports \subseteq Wid
    /\ pid \in Pid /\ booting \in BOOLEAN
    /\ composed \subseteq Host /\ view \in [Host -> [Wid -> Row \cup {NoRow}]]
    /\ drivers \subseteq Worker
    /\ section \in [worker : Worker, step : {"verdict", "token", "send"}, settled : BOOLEAN,
                     verdict : {"DONE", "FAILED"}]
                   \cup [wid : Wid, step : {"claimed"}] \cup {NoSection}
    /\ told \in [Worker -> Nat]
    /\ failures \in 0 .. MaxFailures /\ crashes \in 0 .. MaxCrashes

\* No row of the table is lost, and a verdict on disk stands: the write of a
\* registry whose view is old, of another session or of a later process never
\* takes it back or changes it (registry.ts: "a sibling's terminal row is never
\* rolled back").
VerdictStandsStep ==
    \A w \in Wid : table[w] # NoRow =>
        /\ table'[w] # NoRow
        /\ Settled(table[w]) =>
              /\ table'[w].status = table[w].status /\ table'[w].host = table[w].host
              /\ table[w].receipt => table'[w].receipt
VerdictStands == [][VerdictStandsStep]_vars

\* A worker at work is never given up: whatever other sessions write and the
\* watchdog finds, its session keeps its row, open or stopped by request.
WorkerKeepsRow ==
    \A d \in drivers :
        /\ d.host \in composed
        /\ Mine(d.host, view[d.host][d.wid])
        /\ view[d.host][d.wid].status \in {"RUNNING", "STOPPED"}

\* A session is told of a worker's end once at most, and finds the verdict in
\* the table then and later, after a crash too, unless a write of the table failed.
ReceiptIsBacked ==
    \A d \in Worker : told[d] > 0 /\ failures = 0 => told[d] = 1 /\ Settled(table[d.wid])

\* A row that lost its worker (its verdict was not written, or the process died
\* and the next one has its id) does not stay open in a composed session.
UnattendedSettles ==
    \A h \in Host, w \in Wid : Unattended(h, w) ~> ~Unattended(h, w)
=============================================================================
