------------------------- MODULE WorkerTableProofs -------------------------
(***************************************************************************)
(* What holds of the worker table for every set of sessions and workers    *)
(* and every number of crashes and failed writes: a worker at work keeps   *)
(* its row, a verdict stands, and a receipt has its verdict behind it.     *)
(***************************************************************************)
EXTENDS WorkerTable, TLAPS

-----------------------------------------------------------------------------
(* Rows and sections *)

\* The absent row is no row.
LEMMA NoRowIsNoRow == NoRow \notin Row
<1>1. \A r \in Row : DOMAIN r = {"status", "host", "proc", "notify", "receipt"}
    BY DEF Row
<1>2. DOMAIN NoRow = {"none"}
    BY DEF NoRow
<1>3. "status" \notin {"none"}
    OBVIOUS
<1> QED  BY <1>1, <1>2, <1>3

\* The code replaces the status, the owning process or the receipt of a row.
LEMMA RowFields ==
    ASSUME NEW r \in Row
    PROVE  /\ r # NoRow
           /\ r.status \in Terminal \cup {"RUNNING"} /\ r.host \in Host /\ r.receipt \in BOOLEAN
           /\ [r EXCEPT !.receipt = TRUE] \in Row
           /\ [r EXCEPT !.receipt = TRUE].status = r.status /\ [r EXCEPT !.receipt = TRUE].host = r.host
           /\ [r EXCEPT !.receipt = TRUE].proc = r.proc /\ [r EXCEPT !.receipt = TRUE].receipt = TRUE
<1>1. r # NoRow
    BY NoRowIsNoRow
<1> QED  BY <1>1 DEF Row

\* A row whose process changes is one, and the rest of it stays.
LEMMA RowProc ==
    ASSUME NEW r \in Row, NEW p \in Pid
    PROVE  /\ [r EXCEPT !.proc = p] \in Row /\ [r EXCEPT !.proc = p].status = r.status
           /\ [r EXCEPT !.proc = p].host = r.host /\ [r EXCEPT !.proc = p].receipt = r.receipt
BY DEF Row

\* So is one whose status changes.
LEMMA RowStatus ==
    ASSUME NEW r \in Row, NEW s \in Terminal
    PROVE  /\ [r EXCEPT !.status = s] \in Row
           /\ [r EXCEPT !.status = s].status = s /\ [r EXCEPT !.status = s].host = r.host
           /\ [r EXCEPT !.status = s].proc = r.proc /\ [r EXCEPT !.status = s].receipt = r.receipt
BY DEF Row

\* The section of a closeLoop, as a type of its own.
Closing == [worker : Worker, step : {"verdict", "token", "send"}, settled : BOOLEAN,
            verdict : {"DONE", "FAILED"}]

\* What a section in progress is.
LEMMA Sections ==
    ASSUME TypeOK
    PROVE  /\ In("verdict") \/ In("token") \/ In("send") => section \in Closing
           /\ In("claimed") => section.wid \in Wid
           /\ \A c \in Closing : c # NoSection /\ c.step # "claimed"
           /\ \A w \in Wid : LET c == [wid |-> w, step |-> "claimed"]
                             IN c # NoSection /\ c.step = "claimed"
<1>1. \A c \in Closing : c # NoSection
  <2>1. \A c \in Closing : DOMAIN c = {"worker", "step", "settled", "verdict"}
      BY DEF Closing
  <2>2. DOMAIN NoSection = {"none"}
      BY DEF NoSection
  <2>3. "worker" \notin {"none"}
      OBVIOUS
  <2> QED  BY <2>1, <2>2, <2>3
<1>2. \A c \in Closing : c.step \in {"verdict", "token", "send"}
    BY DEF Closing
<1>3. \A c \in [wid : Wid, step : {"claimed"}] : c.step = "claimed" /\ c.wid \in Wid
    OBVIOUS
<1>4. section \in Closing \cup [wid : Wid, step : {"claimed"}] \cup {NoSection}
    BY DEF TypeOK, Closing
<1>5. ASSUME NEW w \in Wid
      PROVE  [wid |-> w, step |-> "claimed"] # NoSection
  <2>1. DOMAIN [wid |-> w, step |-> "claimed"] = {"wid", "step"}
      OBVIOUS
  <2>2. DOMAIN NoSection = {"none"}
      BY DEF NoSection
  <2>3. "wid" \notin {"none"}
      OBVIOUS
  <2> QED  BY <2>1, <2>2, <2>3
<1> QED  BY <1>1, <1>2, <1>3, <1>4, <1>5 DEF In

\* The section that follows a write.
LEMMA ThenStep ==
    ASSUME TypeOK, section \in Closing, NEW settled \in BOOLEAN
    PROVE  /\ section.step = "verdict" =>
                 /\ Then(settled) \in Closing /\ Then(settled).step = "token"
                 /\ Then(settled).worker = section.worker /\ Then(settled).settled = settled
           /\ section.step = "token" =>
                 /\ Then(settled) \in Closing /\ Then(settled).step = "send"
                 /\ Then(settled).worker = section.worker
           /\ section.step = "send" => Then(settled) = NoSection
BY DEF Then, StepAfter, Closing

-----------------------------------------------------------------------------
(* One write: the registry of h puts its row r at w. *)

Puts(h, w, r) == Persist(h, [view[h] EXCEPT ![w] = r])

\* What one write does to the table, to the view of its writer and to those of the others.
LEMMA PutsRow ==
    ASSUME TypeOK, NEW h \in Host, NEW w \in Wid, NEW r \in Row, Mine(h, r), Puts(h, w, r)
    PROVE  /\ table' \in [Wid -> Row \cup {NoRow}]
           /\ view' \in [Host -> [Wid -> Row \cup {NoRow}]]
           /\ failures' \in 0 .. MaxFailures /\ (failures' = 0 => failures = 0)
           /\ \A g \in Host : g # h => view'[g] = view[g]
           /\ view'[h][w] = r
           /\ \A v \in Wid : v # w /\ Mine(h, view[h][v]) => view'[h][v] = view[h][v]
           /\ \A v \in Wid : view'[h][v] \in {r, view[h][v], table[v]}
<1> DEFINE rows == [view[h] EXCEPT ![w] = r]
<1>1. /\ view \in [Host -> [Wid -> Row \cup {NoRow}]] /\ table \in [Wid -> Row \cup {NoRow}]
      /\ failures \in 0 .. MaxFailures
    BY DEF TypeOK
<1>2. rows \in [Wid -> Row \cup {NoRow}] /\ rows[w] = r /\ \A v \in Wid : v # w => rows[v] = view[h][v]
    BY <1>1
<1>3. Merged(h, rows) \in [Wid -> Row \cup {NoRow}]
    BY <1>1, <1>2 DEF Merged
<1>4. \A v \in Wid : Merged(h, rows)[v] = IF Mine(h, rows[v]) THEN rows[v] ELSE table[v]
    BY DEF Merged
<1>5. Persist(h, rows)
    BY DEF Puts
<1> HIDE DEF rows
<1>6. CASE /\ table' = Merged(h, rows) /\ view' = [view EXCEPT ![h] = Merged(h, rows)]
           /\ failures' = failures
  <2>1. /\ view' \in [Host -> [Wid -> Row \cup {NoRow}]] /\ view'[h] = Merged(h, rows)
        /\ \A g \in Host : g # h => view'[g] = view[g]
      BY <1>1, <1>3, <1>6
  <2>2. \A v \in Wid : view'[h][v] = IF Mine(h, rows[v]) THEN rows[v] ELSE table[v]
      BY <2>1, <1>4
  <2> QED  BY <2>1, <2>2, <1>1, <1>2, <1>3, <1>6
<1>7. CASE /\ failures < MaxFailures /\ failures' = failures + 1
           /\ view' = [view EXCEPT ![h] = rows] /\ table' = table
  <2>1. /\ view' \in [Host -> [Wid -> Row \cup {NoRow}]] /\ view'[h] = rows
        /\ \A g \in Host : g # h => view'[g] = view[g]
      BY <1>1, <1>2, <1>7
  <2>2. failures' \in 0 .. MaxFailures /\ failures' # 0
      BY <1>1, <1>7, MaxFailuresAssumption
  <2> QED  BY <2>1, <2>2, <1>1, <1>2, <1>7
<1> QED  BY <1>5, <1>6, <1>7 DEF Persist

\* finalize puts the row with its verdict.
LEMMA FinalizePuts ==
    ASSUME TypeOK, NEW h \in Host, NEW w \in Open(h), NEW s \in Terminal, Finalize(h, w, s)
    PROVE  LET r == [view[h][w] EXCEPT !.status = s]
           IN /\ w \in Wid /\ view[h][w] \in Row /\ r \in Row /\ Mine(h, r) /\ Puts(h, w, r)
              /\ r.status = s /\ r.receipt = view[h][w].receipt
              /\ Mine(h, view[h][w]) /\ view[h][w].status = "RUNNING"
<1>1. w \in Wid /\ Mine(h, view[h][w]) /\ view[h][w].status = "RUNNING"
    BY DEF Open, Is
<1>2. view[h][w] \in Row
    BY <1>1 DEF TypeOK, Mine
<1> DEFINE r == [view[h][w] EXCEPT !.status = s]
<1>3. /\ r \in Row /\ r.status = s /\ r.host = view[h][w].host
      /\ r.proc = view[h][w].proc /\ r.receipt = view[h][w].receipt
    BY <1>2, RowStatus
<1>4. [view[h] EXCEPT ![w].status = s] = [view[h] EXCEPT ![w] = r]
    OBVIOUS
<1>5. Puts(h, w, r)
    BY <1>4 DEF Finalize, Puts
<1> HIDE DEF r
<1>6. Mine(h, r)
    BY <1>1, <1>3, NoRowIsNoRow DEF Mine
<1>7. /\ w \in Wid /\ view[h][w] \in Row /\ r \in Row /\ Mine(h, r) /\ Puts(h, w, r)
      /\ r.status = s /\ r.receipt = view[h][w].receipt
      /\ Mine(h, view[h][w]) /\ view[h][w].status = "RUNNING"
    BY <1>1, <1>2, <1>3, <1>5, <1>6
<1> QED  BY <1>7 DEF r

\* markReceipt puts the row with its token.
LEMMA TokenPuts ==
    ASSUME TypeOK, NEW h \in Host, NEW w \in Wid, Mine(h, view[h][w]),
           Persist(h, [view[h] EXCEPT ![w].receipt = TRUE])
    PROVE  LET r == [view[h][w] EXCEPT !.receipt = TRUE]
           IN /\ view[h][w] \in Row /\ r \in Row /\ Mine(h, r) /\ Puts(h, w, r)
              /\ r.status = view[h][w].status /\ r.receipt = TRUE
<1>2. view[h][w] \in Row
    BY DEF TypeOK, Mine
<1> DEFINE r == [view[h][w] EXCEPT !.receipt = TRUE]
<1>3. /\ r \in Row /\ r.status = view[h][w].status /\ r.host = view[h][w].host
      /\ r.proc = view[h][w].proc /\ r.receipt = TRUE
    BY <1>2, RowFields
<1>4. [view[h] EXCEPT ![w].receipt = TRUE] = [view[h] EXCEPT ![w] = r]
    OBVIOUS
<1>5. Puts(h, w, r)
    BY <1>4 DEF Puts
<1> HIDE DEF r
<1>6. Mine(h, r)
    BY <1>3, NoRowIsNoRow DEF Mine
<1>7. /\ view[h][w] \in Row /\ r \in Row /\ Mine(h, r) /\ Puts(h, w, r)
      /\ r.status = view[h][w].status /\ r.receipt = TRUE
    BY <1>2, <1>3, <1>5, <1>6
<1> QED  BY <1>7 DEF r

-----------------------------------------------------------------------------
(* Types, sections and the rows of workers at work *)

InClosing == In("verdict") \/ In("token") \/ In("send")

\* A closeLoop under way belongs to a worker whose turn is over and whose row its
\* session holds; a claim under way is of an open row, while the process boots.
SectionOK ==
    /\ InClosing => /\ ~booting /\ section.worker \notin drivers
                    /\ Mine(section.worker.host, view[section.worker.host][section.worker.wid])
    /\ In("claimed") => booting /\ Is(table[section.wid], "RUNNING")

\* While the process boots, no session is composed.
BootEmpty == booting => \A h \in Host : view[h] = Empty

Keeps(d) ==
    /\ d.host \in composed /\ Mine(d.host, view[d.host][d.wid])
    /\ view[d.host][d.wid].status \in {"RUNNING", "STOPPED"}

BaseInv == TypeOK /\ SectionOK /\ BootEmpty /\ WorkerKeepsRow

\* The property, driver by driver.
LEMMA KeepsRow == WorkerKeepsRow <=> \A d \in drivers : Keeps(d)
BY DEF WorkerKeepsRow, Keeps

\* The base invariant holds at the start.
LEMMA BaseInit == Init => BaseInv
<1> SUFFICES ASSUME Init PROVE BaseInv
    OBVIOUS
<1>1. Empty \in [Wid -> Row \cup {NoRow}]
    BY DEF Empty
<1>2. TypeOK
  <2>1. section \in {NoSection} /\ pid \in Pid /\ failures \in 0 .. MaxFailures /\ crashes \in 0 .. MaxCrashes
      BY MaxCrashesAssumption, MaxFailuresAssumption DEF Init, Pid
  <2>2. booting \in BOOLEAN /\ told \in [Worker -> Nat]
      BY RecoverAssumption DEF Init
  <2> QED  BY <1>1, <2>1, <2>2 DEF Init, TypeOK
<1> QED  BY <1>2 DEF Init, BaseInv, SectionOK, BootEmpty, WorkerKeepsRow, InClosing, In

\* What a worker has kept, a write of another row leaves to it.
LEMMA PutsKeeps ==
    ASSUME TypeOK, NEW h \in Host, NEW w \in Wid, NEW r \in Row, Mine(h, r), Puts(h, w, r),
           pid' = pid, composed' = composed, NEW d \in Worker, Keeps(d),
           d.host = h /\ d.wid = w => r.status \in {"RUNNING", "STOPPED"}
    PROVE  Keeps(d)'
<1>1. d.host \in Host /\ d.wid \in Wid
    BY DEF Worker
<1>2. CASE d.host # h
    BY <1>1, <1>2, PutsRow DEF Keeps, Mine
<1>3. CASE d.host = h /\ d.wid # w
    BY <1>1, <1>3, PutsRow DEF Keeps, Mine
<1>4. CASE d.host = h /\ d.wid = w
    BY <1>1, <1>4, PutsRow DEF Keeps, Mine
<1> QED  BY <1>2, <1>3, <1>4

\* spawn_worker, stop_worker, the watchdog and a brief that ends unnoticed put one
\* row, outside of any section.
LEMMA PutsBase ==
    ASSUME BaseInv, Free, NEW h \in Host, NEW w \in Wid, NEW r \in Row, Mine(h, r), Puts(h, w, r),
           NEW d \in Worker, d = [host |-> h, wid |-> w], drivers' \subseteq drivers \cup {d},
           d \in drivers' => h \in composed /\ r.status \in {"RUNNING", "STOPPED"},
           UNCHANGED <<reports, pid, booting, composed, section, told, crashes>>
    PROVE  BaseInv'
<1>1. TypeOK
    BY DEF BaseInv
<1>2. TypeOK'
  <2>1. table' \in [Wid -> Row \cup {NoRow}] /\ view' \in [Host -> [Wid -> Row \cup {NoRow}]]
        /\ failures' \in 0 .. MaxFailures
      BY <1>1, PutsRow
  <2>2. drivers' \subseteq Worker
      BY <1>1 DEF TypeOK
  <2> QED  BY <1>1, <2>1, <2>2 DEF TypeOK
<1>3. SectionOK' /\ BootEmpty'
    BY DEF Free, SectionOK, BootEmpty, InClosing, In
<1>4. ASSUME NEW e \in drivers'
      PROVE  Keeps(e)'
  <2>1. e \in Worker /\ (e \in drivers \/ e = d)
      BY <1>1 DEF TypeOK
  <2>2. CASE e = d
    <3>1. e.host = h /\ e.wid = w
        BY <2>2
    <3> QED  BY <2>1, <2>2, <3>1, <1>1, <1>4, PutsRow DEF Keeps, Mine
  <2>3. CASE e # d /\ e \in drivers
    <3>1. ~(e.host = h /\ e.wid = w)
        BY <2>1, <2>3 DEF Worker
    <3>2. Keeps(e)
        BY <2>3, KeepsRow DEF BaseInv
    <3> QED  BY <2>1, <3>1, <3>2, <1>1, PutsKeeps
  <2> QED  BY <2>1, <2>2, <2>3
<1>5. WorkerKeepsRow'
    BY <1>4 DEF WorkerKeepsRow, Keeps
<1> QED  BY <1>2, <1>3, <1>5 DEF BaseInv

\* A spawn keeps the base invariant.
LEMMA SpawnBase ==
    ASSUME BaseInv, NEW h \in Host, NEW w \in Wid, Spawn(h, w)
    PROVE  BaseInv'
<1> DEFINE d == [host |-> h, wid |-> w]
<1>1. PICK notify \in BOOLEAN :
          Puts(h, w, [status |-> "RUNNING", host |-> h, proc |-> pid, notify |-> notify, receipt |-> FALSE])
    BY DEF Spawn, Puts
<1> DEFINE r == [status |-> "RUNNING", host |-> h, proc |-> pid, notify |-> notify, receipt |-> FALSE]
<1>2. r \in Row /\ r.status = "RUNNING" /\ r.host = h /\ r.proc = pid
    BY DEF BaseInv, TypeOK, Row
<1>3. d \in Worker
    BY DEF Worker
<1>4. Puts(h, w, r)
    BY <1>1
<1> HIDE DEF r
<1>5. Mine(h, r)
    BY <1>2, NoRowIsNoRow DEF Mine
<1> QED  BY <1>2, <1>3, <1>4, <1>5, PutsBase DEF Spawn

\* So does a stop.
LEMMA StopBase ==
    ASSUME BaseInv, NEW h \in Host, NEW w \in Wid, Stop(h, w)
    PROVE  BaseInv'
<1> DEFINE d == [host |-> h, wid |-> w]  r == [view[h][w] EXCEPT !.status = "STOPPED"]
<1>1. r \in Row /\ Mine(h, r) /\ Puts(h, w, r) /\ r.status = "STOPPED"
    BY FinalizePuts DEF Stop, BaseInv, Terminal
<1>2. d \in Worker
    BY DEF Worker
<1> HIDE DEF r
<1> QED  BY <1>1, <1>2, PutsBase DEF Stop

\* So does the watchdog.
LEMMA WatchBase ==
    ASSUME BaseInv, NEW h \in Host, NEW w \in Wid, Watch(h, w)
    PROVE  BaseInv'
<1> DEFINE d == [host |-> h, wid |-> w]
           s == IF Reported(w) THEN "DONE" ELSE "FAILED"
           r == [view[h][w] EXCEPT !.status = s]
<1>1. w \in Open(h) /\ w \notin Driven(h)
    BY DEF Watch, Unattended
<1>2. s \in Terminal
    BY DEF Terminal
<1>3. Finalize(h, w, s)
    BY DEF Watch
<1>4. r \in Row /\ Mine(h, r) /\ Puts(h, w, r)
  <2> HIDE DEF s
  <2> QED  BY <1>1, <1>2, <1>3, FinalizePuts DEF BaseInv
<1>5. d \in Worker /\ d \notin drivers
    BY <1>1 DEF Worker, Driven
<1> HIDE DEF r
<1> QED  BY <1>4, <1>5, PutsBase DEF Watch

\* So does the end of a brief.
LEMMA BriefEndsBase ==
    ASSUME BaseInv, NEW d \in drivers, BriefEnds(d)
    PROVE  BaseInv'
<1> DEFINE h == d.host  w == d.wid
<1>0. TypeOK /\ d \in Worker /\ h \in Host /\ w \in Wid /\ d = [host |-> h, wid |-> w]
    BY DEF BaseInv, TypeOK, Worker
<1>1. PICK verdict \in {"DONE", "FAILED"} : EndsUnnoticed(d, verdict) \/ Reports(d, verdict)
    BY DEF BriefEnds
<1>2. drivers' = drivers \ {d} /\ Free /\ UNCHANGED <<pid, booting, composed, told, crashes>>
    BY DEF BriefEnds
<1>3. ASSUME w \in Open(h), Finalize(h, w, verdict), UNCHANGED <<reports, section>>
      PROVE  BaseInv'
  <2> DEFINE r == [view[h][w] EXCEPT !.status = verdict]
  <2>1. r \in Row /\ Mine(h, r) /\ Puts(h, w, r)
    <3>1. verdict \in Terminal
        BY <1>1 DEF Terminal
    <3> QED  BY <1>0, <1>3, <3>1, FinalizePuts
  <2> HIDE DEF r
  <2> QED  BY <1>0, <1>2, <1>3, <2>1, PutsBase
<1>4. ASSUME UNCHANGED <<table, view, failures, reports, section>>
      PROVE  BaseInv'
  <2>1. TypeOK'
      BY <1>0, <1>2, <1>4 DEF TypeOK
  <2>2. SectionOK' /\ BootEmpty' /\ WorkerKeepsRow'
      BY <1>2, <1>4 DEF BaseInv, SectionOK, BootEmpty, WorkerKeepsRow, Free, InClosing, In, Mine
  <2> QED  BY <2>1, <2>2 DEF BaseInv
<1>5. CASE Reports(d, verdict)
  <2>1. PICK written \in BOOLEAN :
            /\ reports' = IF written THEN reports \cup {d.wid} ELSE reports
            /\ section' = [worker |-> d, step |-> StepAfter("report"), settled |-> FALSE,
                           verdict |-> IF written THEN verdict ELSE "FAILED"]
      BY <1>5 DEF Reports
  <2>2. section' \in Closing /\ section'.worker = d /\ section'.step = "verdict"
      BY <1>0, <1>1, <2>1 DEF Closing, StepAfter
  <2>3. UNCHANGED <<table, view, failures>>
      BY <1>5 DEF Reports
  <2>4. TypeOK'
      BY <1>0, <1>2, <2>1, <2>2, <2>3 DEF TypeOK, Closing
  <2>5. Mine(h, view[h][w])'
      BY <1>2, <2>3 DEF BaseInv, WorkerKeepsRow, Mine
  <2>6. SectionOK' /\ BootEmpty' /\ WorkerKeepsRow'
      BY <1>2, <2>2, <2>3, <2>5 DEF BaseInv, SectionOK, BootEmpty, WorkerKeepsRow, Free, In, Mine
  <2> QED  BY <2>4, <2>6 DEF BaseInv
<1> QED  BY <1>1, <1>3, <1>4, <1>5 DEF EndsUnnoticed

\* In a section: the write of the closeLoop under way.
LEMMA ClosingPuts ==
    ASSUME BaseInv, InClosing, NEW r \in Row, NEW h \in Host, NEW w \in Wid,
           h = section.worker.host, w = section.worker.wid, Mine(h, r),
           \/ Puts(h, w, r)
           \/ r = view[h][w] /\ UNCHANGED <<table, view, failures>>,
           \/ section' = NoSection
           \/ section' \in Closing /\ section'.worker = section.worker,
           UNCHANGED <<reports, pid, booting, composed, drivers, told, crashes>>
    PROVE  BaseInv'
<1>1. TypeOK /\ ~booting /\ section \in Closing /\ section.worker \notin drivers
    BY Sections DEF BaseInv, SectionOK, InClosing
<1>2. /\ table' \in [Wid -> Row \cup {NoRow}] /\ view' \in [Host -> [Wid -> Row \cup {NoRow}]]
      /\ failures' \in 0 .. MaxFailures /\ view'[h][w] = r
    BY <1>1, PutsRow DEF TypeOK
<1>3. TypeOK'
  <2>1. section' \in Closing \cup {NoSection}
      OBVIOUS
  <2> QED  BY <1>1, <1>2, <2>1 DEF TypeOK, Closing
<1>4. SectionOK' /\ BootEmpty'
  <2>1. section' = NoSection \/ (section' \in Closing /\ section'.step # "claimed")
      BY <1>1, Sections
  <2> QED  BY <1>1, <1>2, <2>1 DEF SectionOK, BootEmpty, InClosing, In, Mine
<1>5. ASSUME NEW d \in drivers
      PROVE  Keeps(d)'
  <2>1. d \in Worker /\ ~(d.host = h /\ d.wid = w)
      BY <1>1 DEF TypeOK, Worker, Closing
  <2>2. Keeps(d)
      BY KeepsRow DEF BaseInv
  <2> QED  BY <1>1, <2>1, <2>2, PutsKeeps DEF Keeps, Mine
<1>6. WorkerKeepsRow'
    BY <1>5 DEF WorkerKeepsRow, Keeps
<1> QED  BY <1>3, <1>4, <1>6 DEF BaseInv

\* So do the writes of a closing section.
LEMMA ClosingBase ==
    ASSUME BaseInv, WriteVerdict \/ WriteToken \/ Send
    PROVE  BaseInv'
<1> DEFINE h == section.worker.host  w == section.worker.wid
<1>1. /\ TypeOK /\ InClosing /\ section \in Closing /\ h \in Host /\ w \in Wid
      /\ Mine(h, view[h][w]) /\ view[h][w] \in Row
  <2>1. InClosing
      BY DEF WriteVerdict, WriteToken, Send, InClosing
  <2>2. TypeOK /\ section \in Closing
      BY <2>1, Sections DEF BaseInv, InClosing
  <2>3. h \in Host /\ w \in Wid
      BY <2>2 DEF Closing, Worker
  <2>4. Mine(h, view[h][w])
      BY <2>1 DEF BaseInv, SectionOK
  <2> QED  BY <2>1, <2>2, <2>3, <2>4 DEF TypeOK, Mine
<1>2. CASE WriteVerdict
  <2>1. section.step = "verdict" /\ section' = Then(w \in Open(h)) /\ (w \in Open(h)) \in BOOLEAN
      BY <1>2 DEF WriteVerdict, In
  <2>2. section' \in Closing /\ section'.worker = section.worker
      BY <1>1, <2>1, ThenStep
  <2>3. CASE w \in Open(h) /\ Finalize(h, w, section.verdict)
    <3> DEFINE r == [view[h][w] EXCEPT !.status = section.verdict]
    <3>1. section.verdict \in Terminal
        BY <1>1 DEF Closing, Terminal
    <3>2. r \in Row /\ Mine(h, r) /\ Puts(h, w, r)
        BY <1>1, <2>3, <3>1, FinalizePuts
    <3> HIDE DEF r
    <3> QED  BY <1>1, <1>2, <2>2, <3>2, ClosingPuts DEF WriteVerdict
  <2>4. CASE UNCHANGED <<table, view, failures>>
      BY <1>1, <1>2, <2>2, <2>4, ClosingPuts DEF WriteVerdict
  <2> QED  BY <1>2, <2>3, <2>4 DEF WriteVerdict
<1>3. CASE WriteToken
  <2>1. section.step = "token" /\ section' = Then(section.settled) /\ section.settled \in BOOLEAN
      BY <1>1, <1>3 DEF WriteToken, In, Closing
  <2>2. section' \in Closing /\ section'.worker = section.worker
      BY <1>1, <2>1, ThenStep
  <2>3. CASE Persist(h, [view[h] EXCEPT ![w].receipt = TRUE])
    <3> DEFINE r == [view[h][w] EXCEPT !.receipt = TRUE]
    <3>1. r \in Row /\ Mine(h, r) /\ Puts(h, w, r)
        BY <1>1, <2>3, TokenPuts
    <3> HIDE DEF r
    <3> QED  BY <1>1, <1>3, <2>2, <3>1, ClosingPuts DEF WriteToken
  <2>4. CASE UNCHANGED <<table, view, failures>>
      BY <1>1, <1>3, <2>2, <2>4, ClosingPuts DEF WriteToken
  <2> QED  BY <1>3, <2>3, <2>4 DEF WriteToken
<1>4. CASE Send
  <2>1. section.step = "send" /\ section' = Then(section.settled) /\ section.settled \in BOOLEAN
      BY <1>1, <1>4 DEF Send, In, Closing
  <2>2. section' = NoSection
      BY <1>1, <2>1, ThenStep
  <2>3. told' \in [Worker -> Nat]
      BY <1>1, <1>4 DEF Send, TypeOK, Closing
  <2>4. TypeOK'
      BY <1>1, <1>4, <2>2, <2>3 DEF Send, TypeOK, budget
  <2>5. SectionOK' /\ BootEmpty' /\ WorkerKeepsRow'
      BY <1>4, <2>2 DEF Send, BaseInv, SectionOK, BootEmpty, WorkerKeepsRow, InClosing, In, Mine
  <2> QED  BY <2>4, <2>5 DEF BaseInv
<1> QED  BY <1>2, <1>3, <1>4

\* So do the registries that come and go.
LEMMA SessionsBase ==
    ASSUME BaseInv, NEW h \in Host, Compose(h) \/ Evict(h)
    PROVE  BaseInv'
<1>1. TypeOK /\ Free /\ UNCHANGED <<table, reports, pid, booting, drivers, section, told, budget>>
    BY DEF BaseInv, Compose, Evict
<1>2. /\ composed' \subseteq Host /\ view' \in [Host -> [Wid -> Row \cup {NoRow}]]
      /\ \A g \in Host : g # h => view'[g] = view[g] /\ (g \in composed => g \in composed')
  <2>1. Empty \in [Wid -> Row \cup {NoRow}]
      BY DEF Empty
  <2> QED  BY <2>1, <1>1 DEF Compose, Evict, TypeOK
<1>3. TypeOK'
    BY <1>1, <1>2 DEF TypeOK, budget
<1>4. SectionOK' /\ BootEmpty'
    BY <1>1 DEF Free, SectionOK, BootEmpty, InClosing, In
<1>5. ASSUME NEW d \in drivers
      PROVE  Keeps(d)'
  <2>1. Keeps(d) /\ d.host \in Host
      BY <1>1, KeepsRow DEF BaseInv, TypeOK, Worker
  <2>2. d.host # h
    <3>1. CASE Compose(h)
        BY <2>1, <3>1 DEF Compose, Keeps
    <3>2. CASE Evict(h)
        BY <3>2 DEF Evict, Pinned, Driven
    <3> QED  BY <3>1, <3>2
  <2> QED  BY <1>1, <1>2, <2>1, <2>2 DEF Keeps, Mine
<1>6. WorkerKeepsRow'
    BY <1>1, <1>5 DEF WorkerKeepsRow, Keeps
<1> QED  BY <1>3, <1>4, <1>6 DEF BaseInv

\* So do a crash and the boot.
LEMMA ProcessBase ==
    ASSUME BaseInv, Crash \/ SettleClaimed \/ BootEnds \/ \E w \in Wid : Claim(w)
    PROVE  BaseInv'
<1>0. TypeOK
    BY DEF BaseInv
<1>1. CASE Crash
  <2>1. Empty \in [Wid -> Row \cup {NoRow}]
      BY DEF Empty
  <2>2. pid' \in Pid /\ crashes' \in 0 .. MaxCrashes
      BY <1>0, <1>1, MaxCrashesAssumption DEF Crash, TypeOK, Pid
  <2>3. TypeOK'
      BY <1>0, <1>1, <2>1, <2>2, RecoverAssumption DEF Crash, TypeOK
  <2> QED  BY <1>1, <2>3 DEF Crash, BaseInv, SectionOK, BootEmpty, WorkerKeepsRow, InClosing, In
<1>2. ASSUME NEW w \in Wid, Claim(w)
      PROVE  BaseInv'
  <2>1. table[w] \in Row /\ table[w].status = "RUNNING"
      BY <1>0, <1>2 DEF Claim, Is, TypeOK
  <2>2. [table[w] EXCEPT !.proc = pid] \in Row /\ [table[w] EXCEPT !.proc = pid].status = "RUNNING"
      BY <1>0, <2>1, RowProc DEF TypeOK
  <2>3. table' = [table EXCEPT ![w] = [table[w] EXCEPT !.proc = pid]]
    <3>1. table' = [table EXCEPT ![w].proc = pid]
        BY <1>2 DEF Claim
    <3>2. [table EXCEPT ![w].proc = pid] = [table EXCEPT ![w] = [table[w] EXCEPT !.proc = pid]]
        OBVIOUS
    <3> QED  BY <3>1, <3>2
  <2>4. table' \in [Wid -> Row \cup {NoRow}] /\ Is(table'[w], "RUNNING")
    <3>1. table'[w] = [table[w] EXCEPT !.proc = pid]
        BY <1>0, <2>3 DEF TypeOK
    <3>2. \A v \in Wid : v # w => table'[v] = table[v]
        BY <1>0, <2>3 DEF TypeOK
    <3>3. DOMAIN table' = Wid /\ table' = [v \in Wid |-> table'[v]]
        BY <1>0, <2>3 DEF TypeOK
    <3>4. Is(table'[w], "RUNNING")
        BY <3>1, <2>2, NoRowIsNoRow DEF Is
    <3>5. \A v \in Wid : table'[v] \in Row \cup {NoRow}
        BY <1>0, <2>2, <3>1, <3>2 DEF TypeOK
    <3> QED  BY <3>3, <3>4, <3>5
  <2>5. /\ section' = [wid |-> w, step |-> "claimed"] /\ booting
        /\ UNCHANGED <<reports, pid, booting, composed, view, drivers, told, budget>>
      BY <1>2 DEF Claim
  <2>6. TypeOK'
    <3>1. section' \in [wid : Wid, step : {"claimed"}]
        BY <2>5
    <3> QED  BY <1>0, <2>4, <2>5, <3>1 DEF TypeOK, budget
  <2>7. SectionOK' /\ BootEmpty' /\ WorkerKeepsRow'
      BY <2>4, <2>5 DEF BaseInv, SectionOK, BootEmpty, WorkerKeepsRow, InClosing, In, Mine
  <2> QED  BY <2>6, <2>7 DEF BaseInv
<1>3. CASE SettleClaimed
  <2> DEFINE w == section.wid  s == IF Reported(section.wid) THEN "DONE" ELSE "FAILED"
  <2>1. w \in Wid /\ booting /\ table[w] \in Row
      BY <1>0, <1>3, Sections DEF SettleClaimed, BaseInv, SectionOK, Is, TypeOK
  <2>2. s \in Terminal
      BY DEF Terminal
  <2>3. table' = [table EXCEPT ![w].status = s]
      BY <1>3 DEF SettleClaimed
  <2>4. table' \in [Wid -> Row \cup {NoRow}]
    <3> HIDE DEF s, w
    <3> QED  BY <1>0, <2>1, <2>2, <2>3, RowStatus DEF TypeOK
  <2>5. section' = NoSection /\ UNCHANGED <<reports, pid, booting, composed, view, drivers, told, budget>>
      BY <1>3 DEF SettleClaimed
  <2>6. TypeOK'
      BY <1>0, <2>4, <2>5 DEF TypeOK, budget
  <2>7. SectionOK' /\ BootEmpty' /\ WorkerKeepsRow'
      BY <2>5 DEF BaseInv, SectionOK, BootEmpty, WorkerKeepsRow, InClosing, In, Mine
  <2> QED  BY <2>6, <2>7 DEF BaseInv
<1>4. CASE BootEnds
  <2>1. TypeOK'
      BY <1>0, <1>4 DEF BootEnds, TypeOK, budget
  <2> QED  BY <1>4, <2>1 DEF BootEnds, BaseInv, SectionOK, BootEmpty, WorkerKeepsRow, InClosing, In, Mine
<1> QED  BY <1>1, <1>2, <1>3, <1>4

\* Every step keeps the base invariant.
LEMMA BaseStep == BaseInv /\ [Next]_vars => BaseInv'
<1> SUFFICES ASSUME BaseInv, [Next]_vars PROVE BaseInv'
    OBVIOUS
<1>1. ASSUME NEW h \in Host, Compose(h) \/ Evict(h) PROVE BaseInv'
    BY <1>1, SessionsBase
<1>2. ASSUME NEW h \in Host, NEW w \in Wid, Spawn(h, w) \/ Stop(h, w) \/ Watch(h, w) PROVE BaseInv'
    BY <1>2, SpawnBase, StopBase, WatchBase
<1>3. ASSUME NEW d \in drivers, BriefEnds(d) PROVE BaseInv'
    BY <1>3, BriefEndsBase
<1>4. CASE WriteVerdict \/ WriteToken \/ Send
    BY <1>4, ClosingBase
<1>5. CASE Crash \/ SettleClaimed \/ BootEnds \/ \E w \in Wid : Claim(w)
    BY <1>5, ProcessBase
<1>6. CASE UNCHANGED vars
    BY <1>6 DEF vars, budget, BaseInv, TypeOK, SectionOK, BootEmpty, WorkerKeepsRow, InClosing, In, Mine
<1> QED  BY <1>1, <1>2, <1>3, <1>4, <1>5, <1>6 DEF Next, SectionMoves

\* The worker table keeps its type, whatever the interleaving of sessions, the
\* watchdog, crashes and failed writes.
THEOREM WorkerTableTypeCorrect == Spec => []TypeOK
<1>1. BaseInv => TypeOK  BY DEF BaseInv
<1> QED  BY <1>1, BaseInit, BaseStep, PTL DEF Spec

\* A worker at work is never given up, also where two sessions may choose one id:
\* its session is not evicted and keeps its row, open or stopped by request.
THEOREM WorkersKeepTheirRows == Spec => []WorkerKeepsRow
<1>1. BaseInv => WorkerKeepsRow  BY DEF BaseInv
<1> QED  BY <1>1, BaseInit, BaseStep, PTL DEF Spec

-----------------------------------------------------------------------------
(* Sessions that choose different ids: owners, verdicts and receipts *)

\* Two registries never hold one row as theirs.
OneOwner ==
    \A g, h \in Host : \A w \in Wid :
        g # h => ~(Mine(g, view[g][w]) /\ Mine(h, view[h][w]))

\* A row a registry holds as its own is its row on disk too, and if that row has
\* a verdict, the registry knows it.
Agree ==
    \A h \in Host : \A w \in Wid :
        Mine(h, view[h][w]) /\ table[w] # NoRow =>
            /\ table[w].host = h
            /\ Settled(table[w]) =>
                  /\ view[h][w].status = table[w].status
                  /\ table[w].receipt => view[h][w].receipt

\* As long as no write failed, the disk has the rows of every registry.
SyncOwn ==
    failures = 0 => \A h \in Host : \A w \in Wid : Mine(h, view[h][w]) => table[w] = view[h][w]

OwnInv == BaseInv /\ OneOwner /\ Agree /\ SyncOwn

\* The row r may be put at w: the id is new, or r settles or marks a row of h.
Fits(h, w, r) ==
    \/ table[w] = NoRow /\ \A g \in Host : view[g][w] = NoRow
    \/ /\ Mine(h, view[h][w])
       /\ Settled(view[h][w]) => /\ r.status = view[h][w].status
                                 /\ view[h][w].receipt => r.receipt

\* A write that succeeds, and one that fails.
LEMMA PutsCases ==
    ASSUME TypeOK, NEW h \in Host, NEW w \in Wid, NEW r \in Row, Mine(h, r), Puts(h, w, r)
    PROVE  /\ \A g \in Host : g # h => view'[g] = view[g]
           /\ \/ /\ failures' = failures /\ table'[w] = r
                 /\ \A v \in Wid : view'[h][v] = table'[v]
                 /\ \A v \in Wid : v # w =>
                       table'[v] = IF Mine(h, view[h][v]) THEN view[h][v] ELSE table[v]
              \/ /\ failures' # 0 /\ table' = table /\ view'[h][w] = r
                 /\ \A v \in Wid : v # w => view'[h][v] = view[h][v]
<1> DEFINE rows == [view[h] EXCEPT ![w] = r]
<1>1. /\ view \in [Host -> [Wid -> Row \cup {NoRow}]] /\ table \in [Wid -> Row \cup {NoRow}]
      /\ failures \in 0 .. MaxFailures
    BY DEF TypeOK
<1>2. rows[w] = r /\ \A v \in Wid : v # w => rows[v] = view[h][v]
    BY <1>1
<1>3. \A v \in Wid : Merged(h, rows)[v] = IF Mine(h, rows[v]) THEN rows[v] ELSE table[v]
    BY DEF Merged
<1>4. Persist(h, rows)
    BY DEF Puts
<1> HIDE DEF rows
<1>5. CASE /\ table' = Merged(h, rows) /\ view' = [view EXCEPT ![h] = Merged(h, rows)]
           /\ failures' = failures
  <2>1. view'[h] = table' /\ \A g \in Host : g # h => view'[g] = view[g]
      BY <1>1, <1>5
  <2>2. table'[w] = r
      BY <1>2, <1>3, <1>5
  <2>3. \A v \in Wid : v # w => table'[v] = IF Mine(h, view[h][v]) THEN view[h][v] ELSE table[v]
      BY <1>2, <1>3, <1>5
  <2> QED  BY <2>1, <2>2, <2>3, <1>5
<1>6. CASE /\ failures < MaxFailures /\ failures' = failures + 1
           /\ view' = [view EXCEPT ![h] = rows] /\ table' = table
  <2>1. view'[h] = rows /\ \A g \in Host : g # h => view'[g] = view[g]
      BY <1>1, <1>6
  <2>2. failures' # 0
      BY <1>1, <1>6
  <2> QED  BY <2>1, <2>2, <1>2, <1>6
<1> QED  BY <1>4, <1>5, <1>6 DEF Persist

\* A write of a row by its owner keeps the rows of the others and its own verdicts.
LEMMA PutsOwn ==
    ASSUME OwnInv, NEW h \in Host, NEW w \in Wid, NEW r \in Row, Mine(h, r), Puts(h, w, r),
           Fits(h, w, r), pid' = pid
    PROVE  OneOwner' /\ Agree' /\ SyncOwn' /\ VerdictStandsStep
<1>1. TypeOK /\ OneOwner /\ Agree /\ SyncOwn
    BY DEF OwnInv, BaseInv
<1>2. \A g \in Host : g # h => ~Mine(g, view[g][w])
    BY <1>1 DEF Fits, OneOwner, Mine
<1>4. r # NoRow /\ r.host = h
    BY DEF Mine
<1>5. CASE /\ failures' = failures /\ table'[w] = r
           /\ \A v \in Wid : view'[h][v] = table'[v]
           /\ \A v \in Wid : v # w => table'[v] = IF Mine(h, view[h][v]) THEN view[h][v] ELSE table[v]
  <2>1. \A g \in Host : g # h => view'[g] = view[g]
      BY <1>1, PutsCases
  <2>2. ASSUME NEW g \in Host, g # h, NEW v \in Wid, Mine(g, view[g][v])
        PROVE  v # w /\ table'[v] = table[v] /\ ~Mine(h, table'[v])
    <3>1. v # w /\ ~Mine(h, view[h][v])
        BY <1>1, <1>2, <2>2 DEF OneOwner
    <3>2. table'[v] = table[v]
        BY <1>5, <3>1
    <3>3. table[v] # NoRow => table[v].host = g
        BY <1>1, <2>2 DEF Agree
    <3> QED  BY <2>2, <3>1, <3>2, <3>3 DEF Mine
  <2>3. OneOwner'
    <3>1. ASSUME NEW g \in Host, NEW k \in Host, g # k, g # h, NEW v \in Wid,
                 Mine(g, view'[g][v]), Mine(k, view'[k][v])
          PROVE  FALSE
      <4>1. Mine(g, view[g][v])
          BY <2>1, <3>1
      <4>2. CASE k = h
          BY <1>5, <2>2, <3>1, <4>1, <4>2
      <4>3. CASE k # h
        <5>1. Mine(k, view[k][v])
            BY <2>1, <3>1, <4>3
        <5> QED  BY <1>1, <3>1, <4>1, <5>1 DEF OneOwner
      <4> QED  BY <4>2, <4>3
    <3>2. \A g \in Host, v \in Wid : Mine(g, view[g][v])' <=> Mine(g, view'[g][v])
        BY DEF Mine
    <3> QED  BY <3>1, <3>2 DEF OneOwner
  <2>4. Agree'
      BY <1>1, <1>5, <2>1, <2>2 DEF Agree, Mine, Settled
  <2>5. SyncOwn'
      BY <1>1, <1>5, <2>1, <2>2 DEF SyncOwn, Mine
  <2>6. ASSUME NEW v \in Wid, table[v] # NoRow
        PROVE  /\ table'[v] # NoRow
               /\ Settled(table[v]) =>
                     /\ table'[v].status = table[v].status /\ table'[v].host = table[v].host
                     /\ table[v].receipt => table'[v].receipt
    <3>1. CASE v = w
      <4>1. Mine(h, view[h][w])
          BY <2>6, <3>1 DEF Fits
      <4>2. table[w].host = h /\ (Settled(table[w]) =>
                /\ view[h][w].status = table[w].status
                /\ table[w].receipt => view[h][w].receipt)
          BY <1>1, <2>6, <3>1, <4>1 DEF Agree
      <4>3. Settled(table[w]) => Settled(view[h][w])
          BY <4>1, <4>2 DEF Settled, Mine
      <4> QED  BY <1>4, <1>5, <2>6, <3>1, <4>1, <4>2, <4>3 DEF Fits
    <3>2. CASE v # w /\ Mine(h, view[h][v])
      <4>1. table'[v] = view[h][v] /\ table'[v] # NoRow /\ table'[v].host = h
          BY <1>5, <3>2 DEF Mine
      <4> QED  BY <1>1, <2>6, <3>2, <4>1 DEF Agree
    <3>3. CASE v # w /\ ~Mine(h, view[h][v])
        BY <1>5, <2>6, <3>3
    <3> QED  BY <3>1, <3>2, <3>3
  <2>7. VerdictStandsStep
      BY <2>6 DEF VerdictStandsStep
  <2> QED  BY <2>3, <2>4, <2>5, <2>7
<1>6. CASE /\ failures' # 0 /\ table' = table /\ view'[h][w] = r
           /\ \A v \in Wid : v # w => view'[h][v] = view[h][v]
  <2>1. \A g \in Host : g # h => view'[g] = view[g]
      BY <1>1, PutsCases
  <2>2. OneOwner'
      BY <1>1, <1>2, <1>6, <2>1 DEF OneOwner, Mine
  <2>3. ASSUME NEW g \in Host, NEW v \in Wid, Mine(g, view'[g][v]), table[v] # NoRow
        PROVE  /\ table[v].host = g
               /\ Settled(table[v]) => /\ view'[g][v].status = table[v].status
                                       /\ table[v].receipt => view'[g][v].receipt
    <3>1. CASE g = h /\ v = w
      <4>1. Mine(h, view[h][w])
          BY <2>3, <3>1 DEF Fits
      <4>2. table[w].host = h /\ (Settled(table[w]) =>
                /\ view[h][w].status = table[w].status
                /\ table[w].receipt => view[h][w].receipt)
          BY <1>1, <2>3, <3>1, <4>1 DEF Agree
      <4>3. Settled(table[w]) => Settled(view[h][w])
          BY <4>1, <4>2 DEF Settled, Mine
      <4> QED  BY <1>6, <2>3, <3>1, <4>1, <4>2, <4>3 DEF Fits
    <3>2. CASE ~(g = h /\ v = w)
        BY <1>1, <1>6, <2>1, <2>3, <3>2 DEF Agree
    <3> QED  BY <3>1, <3>2
  <2>4. Agree'
      BY <1>6, <2>3 DEF Agree, Mine, Settled
  <2>5. SyncOwn' /\ VerdictStandsStep
      BY <1>6 DEF SyncOwn, VerdictStandsStep
  <2> QED  BY <2>2, <2>4, <2>5
<1> QED  BY <1>1, <1>5, <1>6, PutsCases

OwnStep == OneOwner' /\ Agree' /\ SyncOwn' /\ VerdictStandsStep

\* A verdict keeps the owners.
LEMMA FinalizeOwn ==
    ASSUME OwnInv, NEW h \in Host, NEW w \in Open(h), NEW s \in Terminal, Finalize(h, w, s), pid' = pid
    PROVE  OwnStep
<1> DEFINE r == [view[h][w] EXCEPT !.status = s]
<1>1. /\ w \in Wid /\ r \in Row /\ Mine(h, r) /\ Puts(h, w, r) /\ Mine(h, view[h][w])
      /\ view[h][w].status = "RUNNING"
    BY FinalizePuts DEF OwnInv, BaseInv
<1> HIDE DEF r
<1>2. Fits(h, w, r)
    BY <1>1 DEF Fits, Settled, Terminal
<1> QED  BY <1>1, <1>2, PutsOwn DEF OwnStep

\* Where nothing is written, the owners stay.
LEMMA SameOwn ==
    ASSUME OwnInv, UNCHANGED <<table, view, failures, pid>>
    PROVE  OwnStep
BY DEF OwnInv, OwnStep, OneOwner, Agree, SyncOwn, VerdictStandsStep, Mine, Settled

\* The tools and the watchdog of a session keep the owners, when names differ.
LEMMA ToolsOwn ==
    ASSUME ~SharedNames, OwnInv, NEW h \in Host, NEW w \in Wid, Spawn(h, w) \/ Stop(h, w) \/ Watch(h, w)
    PROVE  OwnStep
<1>1. CASE Spawn(h, w)
  <2>1. PICK notify \in BOOLEAN :
            Puts(h, w, [status |-> "RUNNING", host |-> h, proc |-> pid, notify |-> notify, receipt |-> FALSE])
      BY <1>1 DEF Spawn, Puts
  <2> DEFINE r == [status |-> "RUNNING", host |-> h, proc |-> pid, notify |-> notify, receipt |-> FALSE]
  <2>2. r \in Row /\ r.status = "RUNNING" /\ r.host = h /\ r.proc = pid
      BY DEF OwnInv, BaseInv, TypeOK, Row
  <2>3. Puts(h, w, r)
      BY <2>1
  <2> HIDE DEF r
  <2>4. Mine(h, r)
      BY <2>2, NoRowIsNoRow DEF Mine
  <2>5. Fits(h, w, r) /\ pid' = pid
      BY <1>1 DEF Spawn, NameFree, Fits
  <2> QED  BY <2>2, <2>3, <2>4, <2>5, PutsOwn DEF OwnStep
<1>2. CASE Stop(h, w)
    BY <1>2, FinalizeOwn DEF Stop, Terminal
<1>3. CASE Watch(h, w)
  <2> DEFINE s == IF Reported(w) THEN "DONE" ELSE "FAILED"
  <2>1. w \in Open(h) /\ s \in Terminal /\ Finalize(h, w, s) /\ pid' = pid
      BY <1>3 DEF Watch, Unattended, Terminal
  <2> HIDE DEF s
  <2> QED  BY <2>1, FinalizeOwn
<1> QED  BY <1>1, <1>2, <1>3

\* The end of a brief keeps the owners.
LEMMA BriefEndsOwn ==
    ASSUME OwnInv, NEW d \in drivers, BriefEnds(d)
    PROVE  OwnStep
<1>1. PICK verdict \in {"DONE", "FAILED"} : EndsUnnoticed(d, verdict) \/ Reports(d, verdict)
    BY DEF BriefEnds
<1>2. pid' = pid
    BY DEF BriefEnds
<1>3. CASE d.wid \in Open(d.host) /\ Finalize(d.host, d.wid, verdict)
  <2>1. d.host \in Host /\ verdict \in Terminal
      BY <1>1 DEF OwnInv, BaseInv, TypeOK, Worker, Terminal
  <2> QED  BY <1>2, <1>3, <2>1, FinalizeOwn
<1>4. CASE UNCHANGED <<table, view, failures>>
    BY <1>2, <1>4, SameOwn
<1> QED  BY <1>1, <1>3, <1>4 DEF EndsUnnoticed, Reports

\* The writes of a closing section keep the owners.
LEMMA ClosingOwn ==
    ASSUME OwnInv, WriteVerdict \/ WriteToken \/ Send
    PROVE  OwnStep
<1> DEFINE h == section.worker.host  w == section.worker.wid
<1>1. /\ TypeOK /\ section \in Closing /\ h \in Host /\ w \in Wid /\ Mine(h, view[h][w])
  <2>1. InClosing
      BY DEF WriteVerdict, WriteToken, Send, InClosing
  <2>2. TypeOK /\ section \in Closing
      BY <2>1, Sections DEF OwnInv, BaseInv, InClosing
  <2>3. h \in Host /\ w \in Wid
      BY <2>2 DEF Closing, Worker
  <2> QED  BY <2>1, <2>2, <2>3 DEF OwnInv, BaseInv, SectionOK
<1>2. CASE WriteVerdict
  <2>1. section.verdict \in Terminal /\ pid' = pid
      BY <1>1, <1>2 DEF Closing, Terminal, WriteVerdict
  <2> QED  BY <1>1, <1>2, <2>1, FinalizeOwn, SameOwn DEF WriteVerdict
<1>3. CASE WriteToken
  <2>1. CASE Persist(h, [view[h] EXCEPT ![w].receipt = TRUE])
    <3> DEFINE r == [view[h][w] EXCEPT !.receipt = TRUE]
    <3>1. r \in Row /\ Mine(h, r) /\ Puts(h, w, r) /\ r.status = view[h][w].status /\ r.receipt = TRUE
        BY <1>1, <2>1, TokenPuts
    <3> HIDE DEF r
    <3>2. Fits(h, w, r) /\ pid' = pid
        BY <1>1, <1>3, <3>1 DEF Fits, WriteToken
    <3> QED  BY <1>1, <3>1, <3>2, PutsOwn DEF OwnInv, OwnStep
  <2>2. CASE UNCHANGED <<table, view, failures>>
      BY <1>3, <2>2, SameOwn DEF WriteToken
  <2> QED  BY <1>3, <2>1, <2>2 DEF WriteToken
<1>4. CASE Send
    BY <1>4, SameOwn DEF Send, budget
<1> QED  BY <1>2, <1>3, <1>4

\* An empty registry owns nothing.
LEMMA EmptyOwns ==
    ASSUME NEW h \in Host, NEW w \in Wid, view[h] = Empty
    PROVE  ~Mine(h, view[h][w])
BY DEF Empty, Mine

\* Registries that come and go keep the owners.
LEMMA SessionsOwn ==
    ASSUME OwnInv, NEW h \in Host, Compose(h) \/ Evict(h)
    PROVE  OwnStep
<1>1. TypeOK /\ OneOwner /\ Agree /\ SyncOwn /\ UNCHANGED <<table, pid, failures>>
    BY DEF OwnInv, BaseInv, Compose, Evict, budget
<1>2. \A g \in Host : g # h => view'[g] = view[g]
    BY <1>1 DEF Compose, Evict, TypeOK
<1>3. VerdictStandsStep
    BY <1>1 DEF VerdictStandsStep
<1>4. CASE Compose(h)
  <2>1. view'[h] = table
      BY <1>1, <1>4 DEF Compose, TypeOK
  <2>2. \A g \in Host, v \in Wid : g # h /\ Mine(g, view[g][v]) => ~Mine(h, table[v])
      BY <1>1 DEF Agree, Mine
  <2>3. OneOwner'
    <3>1. ASSUME NEW g \in Host, NEW k \in Host, g # k, g # h, NEW v \in Wid,
                 Mine(g, view'[g][v]), Mine(k, view'[k][v])
          PROVE  FALSE
        BY <1>1, <1>2, <2>1, <2>2, <3>1 DEF OneOwner
    <3>2. \A g \in Host, v \in Wid : Mine(g, view[g][v])' <=> Mine(g, view'[g][v])
        BY <1>1 DEF Mine
    <3> QED  BY <3>1, <3>2 DEF OneOwner
  <2>4. Agree'
      BY <1>1, <1>2, <2>1 DEF Agree, Mine, Settled
  <2>5. SyncOwn'
      BY <1>1, <1>2, <2>1 DEF SyncOwn, Mine
  <2> QED  BY <1>3, <2>3, <2>4, <2>5 DEF OwnStep
<1>5. CASE Evict(h)
  <2>1. view'[h] = Empty
      BY <1>1, <1>5 DEF Evict, TypeOK
  <2>2. \A v \in Wid : view'[h][v] = NoRow
      BY <2>1 DEF Empty
  <2>3. OneOwner'
      BY <1>1, <1>2, <2>2 DEF OneOwner, Mine
  <2>4. Agree'
      BY <1>1, <1>2, <2>2 DEF Agree, Mine, Settled
  <2>5. SyncOwn'
      BY <1>1, <1>2, <2>2 DEF SyncOwn, Mine
  <2> QED  BY <1>3, <2>3, <2>4, <2>5 DEF OwnStep
<1> QED  BY <1>4, <1>5

\* A crash and the boot keep the owners.
LEMMA ProcessOwn ==
    ASSUME OwnInv, Crash \/ SettleClaimed \/ BootEnds \/ \E w \in Wid : Claim(w)
    PROVE  OwnStep
<1>0. TypeOK
    BY DEF OwnInv, BaseInv
<1>1. ASSUME \A h \in Host : view'[h] = Empty
      PROVE  OneOwner' /\ Agree' /\ SyncOwn'
  <2>1. \A h \in Host, v \in Wid : view'[h][v] = NoRow
      BY <1>1 DEF Empty
  <2> QED  BY <2>1 DEF OneOwner, Agree, SyncOwn, Mine
<1>2. CASE Crash
  <2>1. \A h \in Host : view'[h] = Empty
      BY <1>2 DEF Crash
  <2> QED  BY <1>1, <1>2, <2>1 DEF Crash, OwnStep, VerdictStandsStep
<1>3. ASSUME NEW w \in Wid, Claim(w)
      PROVE  OwnStep
  <2>1. \A h \in Host : view'[h] = Empty
      BY <1>3 DEF Claim, OwnInv, BaseInv, BootEmpty
  <2>2. table[w] \in Row /\ table[w].status = "RUNNING"
      BY <1>0, <1>3 DEF Claim, Is, TypeOK
  <2>3. [table[w] EXCEPT !.proc = pid] \in Row
      BY <1>0, <2>2, RowProc DEF TypeOK
  <2>4. table' = [table EXCEPT ![w].proc = pid]
      BY <1>3 DEF Claim
  <2>5. table'[w] \in Row /\ \A v \in Wid : v # w => table'[v] = table[v]
      BY <1>0, <2>3, <2>4 DEF TypeOK
  <2>6. VerdictStandsStep
      BY <2>2, <2>5, NoRowIsNoRow DEF VerdictStandsStep, Settled, Terminal
  <2> QED  BY <1>1, <2>1, <2>6 DEF OwnStep
<1>4. CASE SettleClaimed
  <2> DEFINE w == section.wid  s == IF Reported(section.wid) THEN "DONE" ELSE "FAILED"
  <2>1. w \in Wid /\ booting /\ table[w] \in Row /\ table[w].status = "RUNNING"
      BY <1>0, <1>4, Sections DEF SettleClaimed, OwnInv, BaseInv, SectionOK, Is, TypeOK
  <2>2. s \in Terminal
      BY DEF Terminal
  <2>3. table' = [table EXCEPT ![w].status = s]
      BY <1>4 DEF SettleClaimed
  <2>4. table'[w] \in Row /\ \A v \in Wid : v # w => table'[v] = table[v]
    <3> HIDE DEF s, w
    <3> QED  BY <1>0, <2>1, <2>2, <2>3, RowStatus DEF TypeOK
  <2>5. VerdictStandsStep
      BY <2>1, <2>4, NoRowIsNoRow DEF VerdictStandsStep, Settled, Terminal
  <2>6. \A h \in Host : view'[h] = Empty
      BY <1>4, <2>1 DEF SettleClaimed, OwnInv, BaseInv, BootEmpty
  <2> QED  BY <1>1, <2>5, <2>6 DEF OwnStep
<1>5. CASE BootEnds
    BY <1>5, SameOwn DEF BootEnds, budget
<1> QED  BY <1>2, <1>3, <1>4, <1>5

\* Every step keeps the owners and the verdicts, when names differ.
LEMMA OwnInvStep ==
    ASSUME ~SharedNames
    PROVE  OwnInv /\ [Next]_vars => OwnInv' /\ VerdictStandsStep
<1> SUFFICES ASSUME OwnInv, [Next]_vars PROVE OwnInv' /\ VerdictStandsStep
    OBVIOUS
<1>0. BaseInv'
    BY BaseStep DEF OwnInv
<1>1. ASSUME NEW h \in Host, Compose(h) \/ Evict(h) PROVE OwnStep
    BY <1>1, SessionsOwn
<1>2. ASSUME NEW h \in Host, NEW w \in Wid, Spawn(h, w) \/ Stop(h, w) \/ Watch(h, w) PROVE OwnStep
    BY <1>2, ToolsOwn
<1>3. ASSUME NEW d \in drivers, BriefEnds(d) PROVE OwnStep
    BY <1>3, BriefEndsOwn
<1>4. ASSUME WriteVerdict \/ WriteToken \/ Send PROVE OwnStep
    BY <1>4, ClosingOwn
<1>5. ASSUME Crash \/ SettleClaimed \/ BootEnds \/ \E w \in Wid : Claim(w) PROVE OwnStep
    BY <1>5, ProcessOwn
<1>6. ASSUME UNCHANGED vars PROVE OwnStep
    BY <1>6, SameOwn DEF vars, budget
<1>7. OwnStep
    BY <1>1, <1>2, <1>3, <1>4, <1>5, <1>6 DEF Next, SectionMoves
<1> QED  BY <1>0, <1>7 DEF OwnStep, OwnInv

\* Nobody owns a row at the start.
LEMMA OwnInit == Init => OwnInv
<1>1. Init => \A h \in Host : view[h] = Empty
    BY DEF Init
<1> QED  BY <1>1, BaseInit, EmptyOwns DEF OwnInv, OneOwner, Agree, SyncOwn

\* Where sessions choose different ids, no row is lost and no verdict on disk is
\* taken back or changed: not by a registry with an old view, not by a failed
\* write, not by the boot recovery of a later process.
THEOREM VerdictsStand ==
    ASSUME ~SharedNames
    PROVE  Spec => VerdictStands
<1>1. OwnInv /\ [Next]_vars => OwnInv' /\ VerdictStandsStep
    BY OwnInvStep
<1>2. OwnInv /\ [Next]_vars => [VerdictStandsStep]_vars
    BY OwnInvStep
<1> QED  BY <1>1, <1>2, OwnInit, PTL DEF Spec, VerdictStands

-----------------------------------------------------------------------------
(* Receipts *)

\* Until a write fails: who was told of has a verdict and works no more, and a
\* closeLoop has not told yet, nor tells before the verdict is on disk.
ToldOnce ==
    \A d \in Worker : told[d] > 0 => told[d] = 1 /\ Settled(table[d.wid]) /\ d \notin drivers
ClosingTells ==
    /\ InClosing => told[section.worker] = 0
    /\ In("token") \/ In("send") => Settled(table[section.worker.wid])
ToldInv == failures = 0 => ToldOnce /\ ClosingTells

\* Failures are never forgotten.
LEMMA FailuresGrow ==
    ASSUME TypeOK, [Next]_vars, failures' = 0
    PROVE  failures = 0
<1>1. failures \in Nat
    BY MaxFailuresAssumption DEF TypeOK
<1>2. \A h, rows : Persist(h, rows) => failures' = failures \/ failures' = failures + 1
    BY DEF Persist
<1>3. failures' = failures \/ failures' = failures + 1
  <2>1. ASSUME NEW h \in Host, Compose(h) \/ Evict(h) PROVE failures' = failures
      BY <2>1 DEF Compose, Evict, budget
  <2>2. ASSUME NEW h \in Host, NEW w \in Wid, Spawn(h, w) \/ Stop(h, w) \/ Watch(h, w)
        PROVE  failures' = failures \/ failures' = failures + 1
      BY <1>2, <2>2 DEF Spawn, Stop, Watch, Finalize
  <2>3. ASSUME NEW d \in drivers, BriefEnds(d)
        PROVE  failures' = failures \/ failures' = failures + 1
      BY <1>2, <2>3 DEF BriefEnds, EndsUnnoticed, Reports, Finalize
  <2>4. ASSUME WriteVerdict \/ WriteToken \/ Send
        PROVE  failures' = failures \/ failures' = failures + 1
      BY <1>2, <2>4 DEF WriteVerdict, WriteToken, Send, Finalize, budget
  <2>5. ASSUME Crash \/ SettleClaimed \/ BootEnds \/ (\E w \in Wid : Claim(w)) \/ UNCHANGED vars
        PROVE  failures' = failures
      BY <2>5 DEF Crash, SettleClaimed, BootEnds, Claim, budget, vars
  <2> QED  BY <2>1, <2>2, <2>3, <2>4, <2>5 DEF Next, SectionMoves
<1> QED  BY <1>1, <1>3

\* A verdict that stands keeps what was told backed.
LEMMA ToldStays ==
    ASSUME TypeOK, VerdictStandsStep
    PROVE  /\ \A w \in Wid : Settled(table[w]) => Settled(table'[w])
           /\ ToldOnce /\ told' = told /\ drivers' \subseteq drivers => ToldOnce'
<1>1. \A w \in Wid : Settled(table[w]) => Settled(table'[w])
    BY DEF VerdictStandsStep, Settled
<1>2. \A d \in Worker : d.wid \in Wid
    BY DEF Worker
<1> QED  BY <1>1, <1>2 DEF ToldOnce, Settled

\* Every step keeps the receipts backed, when names differ.
LEMMA ToldStep ==
    ASSUME ~SharedNames, OwnInv, ToldInv, [Next]_vars
    PROVE  ToldInv'
<1> SUFFICES ASSUME failures' = 0
             PROVE  ToldOnce' /\ ClosingTells'
    BY DEF ToldInv, ToldOnce, ClosingTells, Settled, InClosing, In
<1>0. /\ TypeOK /\ SyncOwn /\ VerdictStandsStep /\ failures = 0 /\ ToldOnce /\ ClosingTells
    BY OwnInvStep, FailuresGrow DEF OwnInv, BaseInv, ToldInv
<1>1. ASSUME UNCHANGED <<section, told>>, section = NoSection, drivers' \subseteq drivers
      PROVE  ToldOnce' /\ ClosingTells'
    BY <1>0, <1>1, ToldStays DEF ClosingTells, InClosing, In
<1>2. ASSUME NEW h \in Host, Compose(h) \/ Evict(h)
      PROVE  ToldOnce' /\ ClosingTells'
    BY <1>1, <1>2 DEF Compose, Evict, Free
<1>3. ASSUME NEW h \in Host, NEW w \in Wid, Stop(h, w) \/ Watch(h, w)
      PROVE  ToldOnce' /\ ClosingTells'
    BY <1>1, <1>3 DEF Stop, Watch, Free
<1>4. ASSUME NEW h \in Host, NEW w \in Wid, Spawn(h, w)
      PROVE  ToldOnce' /\ ClosingTells'
  <2> DEFINE d == [host |-> h, wid |-> w]
  <2>1. d \in Worker /\ d.wid = w /\ ~Settled(table[w])
      BY <1>4 DEF Worker, Spawn, NameFree, Settled
  <2>2. told[d] = 0
    <3>1. told[d] \in Nat /\ ~(told[d] > 0)
        BY <1>0, <2>1 DEF ToldOnce, TypeOK
    <3> QED  BY <3>1
  <2>3. told' = told /\ drivers' = drivers \cup {d}
      BY <1>4 DEF Spawn
  <2>4. ToldOnce'
    <3>1. ASSUME NEW e \in Worker, told'[e] > 0
          PROVE  told'[e] = 1 /\ Settled(table'[e.wid]) /\ e \notin drivers'
      <4>1. e # d /\ told[e] = 1 /\ Settled(table[e.wid]) /\ e \notin drivers
          BY <1>0, <2>2, <2>3, <3>1 DEF ToldOnce
      <4>2. e.wid \in Wid
          BY DEF Worker
      <4> QED  BY <1>0, <2>3, <4>1, <4>2, ToldStays
    <3> QED  BY <3>1 DEF ToldOnce, Settled
  <2>5. ClosingTells'
      BY <1>4 DEF Spawn, Free, ClosingTells, InClosing, In
  <2> QED  BY <2>4, <2>5
<1>5. ASSUME NEW d \in drivers, BriefEnds(d)
      PROVE  ToldOnce' /\ ClosingTells'
  <2>1. d \in Worker /\ told[d] = 0
    <3>1. d \in Worker /\ told[d] \in Nat /\ ~(told[d] > 0)
        BY <1>0 DEF ToldOnce, TypeOK
    <3> QED  BY <3>1
  <2>2. told' = told /\ drivers' \subseteq drivers /\ section = NoSection
      BY <1>5 DEF BriefEnds, Free
  <2>3. ToldOnce'
      BY <1>0, <2>2, ToldStays
  <2>4. section' = section \/ (section'.worker = d /\ section'.step = "verdict")
      BY <1>5 DEF BriefEnds, EndsUnnoticed, Reports, StepAfter
  <2>5. ClosingTells'
      BY <2>1, <2>2, <2>4 DEF ClosingTells, InClosing, In
  <2> QED  BY <2>3, <2>5
<1>6. ASSUME WriteVerdict \/ WriteToken \/ Send
      PROVE  ToldOnce' /\ ClosingTells'
  <2> DEFINE h == section.worker.host  w == section.worker.wid
  <2>1. /\ InClosing /\ section \in Closing /\ section.worker \in Worker /\ h \in Host /\ w \in Wid
        /\ Mine(h, view[h][w]) /\ view[h][w] \in Row /\ section.worker \notin drivers
        /\ told[section.worker] = 0
    <3>1. InClosing
        BY <1>6 DEF WriteVerdict, WriteToken, Send, InClosing
    <3>2. section \in Closing /\ section.worker \in Worker /\ h \in Host /\ w \in Wid
        BY <1>0, <3>1, Sections DEF InClosing, Closing, Worker
    <3>3. Mine(h, view[h][w]) /\ section.worker \notin drivers
        BY <3>1 DEF OwnInv, BaseInv, SectionOK
    <3> QED  BY <1>0, <3>1, <3>2, <3>3 DEF TypeOK, Mine, ClosingTells
  <2>2. CASE WriteVerdict
    <3>1. section.step = "verdict" /\ section' = Then(w \in Open(h)) /\ (w \in Open(h)) \in BOOLEAN
        BY <2>2 DEF WriteVerdict, In
    <3>2. section' \in Closing /\ section'.worker = section.worker
        BY <1>0, <2>1, <3>1, ThenStep
    <3>3. ToldOnce' /\ told' = told
        BY <1>0, <2>2, ToldStays DEF WriteVerdict
    <3>4. Settled(table'[w])
      <4>1. CASE w \in Open(h) /\ Finalize(h, w, section.verdict)
        <5> DEFINE r == [view[h][w] EXCEPT !.status = section.verdict]
        <5>1. section.verdict \in Terminal
            BY <2>1 DEF Closing, Terminal
        <5>2. r \in Row /\ Mine(h, r) /\ Puts(h, w, r) /\ r.status \in Terminal
            BY <1>0, <2>1, <4>1, <5>1, FinalizePuts
        <5> HIDE DEF r
        <5>3. table'[w] = r
            BY <1>0, <2>1, <5>2, PutsCases
        <5> QED  BY <5>2, <5>3 DEF Settled, Mine
      <4>2. CASE w \notin Open(h) /\ table' = table
        <5>1. view[h][w].status # "RUNNING"
            BY <2>1, <4>2 DEF Open, Is, Mine
        <5>2. Settled(view[h][w])
            BY <2>1, <5>1, RowFields DEF Settled
        <5> QED  BY <1>0, <2>1, <4>2, <5>2 DEF SyncOwn
      <4> QED  BY <2>2, <4>1, <4>2 DEF WriteVerdict
    <3>5. ClosingTells'
        BY <2>1, <3>2, <3>3, <3>4 DEF ClosingTells, Settled
    <3> QED  BY <3>3, <3>5
  <2>3. CASE WriteToken
    <3>1. section.step = "token" /\ section' = Then(section.settled) /\ section.settled \in BOOLEAN
        BY <2>1, <2>3 DEF WriteToken, In, Closing
    <3>2. section' \in Closing /\ section'.worker = section.worker
        BY <1>0, <2>1, <3>1, ThenStep
    <3>3. ToldOnce' /\ told' = told
        BY <1>0, <2>3, ToldStays DEF WriteToken
    <3>4. Settled(table'[w])
        BY <1>0, <2>1, <2>3, ToldStays DEF WriteToken, ClosingTells
    <3>5. ClosingTells'
        BY <2>1, <3>2, <3>3, <3>4 DEF ClosingTells, Settled
    <3> QED  BY <3>3, <3>5
  <2>4. CASE Send
    <3>1. section.step = "send" /\ section' = Then(section.settled) /\ section.settled \in BOOLEAN
        BY <2>1, <2>4 DEF Send, In, Closing
    <3>2. section' = NoSection
        BY <1>0, <2>1, <3>1, ThenStep
    <3>3. /\ told' = [told EXCEPT ![section.worker] = told[section.worker] + 1]
          /\ table' = table /\ drivers' = drivers
        BY <2>4 DEF Send
    <3>4. told'[section.worker] = 1 /\ \A d \in Worker : d # section.worker => told'[d] = told[d]
        BY <1>0, <2>1, <3>3 DEF TypeOK
    <3>5. Settled(table[w])
        BY <1>0, <2>4 DEF Send, ClosingTells
    <3>6. ToldOnce'
        BY <1>0, <2>1, <3>3, <3>4, <3>5 DEF ToldOnce, Settled
    <3>7. ClosingTells'
        BY <3>2 DEF ClosingTells, InClosing, In
    <3> QED  BY <3>6, <3>7
  <2> QED  BY <1>6, <2>2, <2>3, <2>4
<1>7. ASSUME Crash \/ SettleClaimed \/ BootEnds \/ \E w \in Wid : Claim(w)
      PROVE  ToldOnce' /\ ClosingTells'
  <2>1. told' = told /\ drivers' \subseteq drivers
      BY <1>7 DEF Crash, SettleClaimed, BootEnds, Claim
  <2>2. ~InClosing'
    <3>1. section' = NoSection \/ \E w \in Wid : section' = [wid |-> w, step |-> "claimed"]
        BY <1>7 DEF Crash, SettleClaimed, BootEnds, Claim
    <3> QED  BY <3>1 DEF InClosing, In
  <2>3. ToldOnce'
      BY <1>0, <2>1, ToldStays
  <2> QED  BY <2>2, <2>3 DEF ClosingTells, InClosing
<1>8. ASSUME UNCHANGED vars
      PROVE  ToldOnce' /\ ClosingTells'
    BY <1>0, <1>8 DEF vars, ToldOnce, ClosingTells, InClosing, In, Settled
<1> QED  BY <1>2, <1>3, <1>4, <1>5, <1>6, <1>7, <1>8 DEF Next, SectionMoves

\* Where sessions choose different ids, a session is told of a worker's end once at
\* most, and the verdict is in the table from then on, over crashes too, as long as
\* no write of the table failed.
THEOREM ReceiptsAreBacked ==
    ASSUME ~SharedNames
    PROVE  Spec => []ReceiptIsBacked
<1>1. Init => ToldInv
  <2>1. Init => (\A d \in Worker : told[d] = 0) /\ section = NoSection
      BY DEF Init
  <2> QED  BY <2>1 DEF ToldInv, ToldOnce, ClosingTells, InClosing, In
<1>2. OwnInv /\ ToldInv /\ [Next]_vars => OwnInv' /\ ToldInv'
    BY OwnInvStep, ToldStep
<1>3. ToldInv => ReceiptIsBacked
    BY DEF ToldInv, ToldOnce, ReceiptIsBacked
<1> QED  BY <1>1, <1>2, <1>3, OwnInit, PTL DEF Spec

=============================================================================
