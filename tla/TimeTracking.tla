---------------------------- MODULE TimeTracking ----------------------------
(***************************************************************************)
(* The attendance and timesheet services (services/attendance,             *)
(* services/timesheets), for one employee.  clock_in and clock_out look up *)
(* the latest attendance and then create or write; stop_timer reads a      *)
(* timesheet and then writes the hours.  Calls of several tasks overlap,   *)
(* answers get lost, and a request may be carried out after its caller     *)
(* gave up.  Odoo's own constraints on attendances are left open: the      *)
(* server may refuse any request.                                          *)
(***************************************************************************)
EXTENDS Integers, Sequences, SequencesExt

CONSTANTS
  Tasks,
  Skew,           \* Odoo's clock less the clients', in ticks of 18 seconds
  MaxTime,        \* bound on the clock
  MaxRecords,     \* bound on attendance records and timesheets
  None

VARIABLES
  clock,        \* the clients' clock
  attendances,  \* hr.attendance: check_in and check_out (None while open)
  sheets,       \* account.analytic.line: create_date, hundredths of an hour, and
                \* whether a stop_timer has reached it
  pc,           \* the operation each task is in
  request,      \* what it has asked Odoo to create or write
  overlapped    \* two operations have been under way at once

vars == <<clock, attendances, sheets, pc, request, overlapped>>

Idle == [op |-> "none", id |-> 0]
NoRequest == [kind |-> "none", id |-> 0, value |-> 0]

Init ==
  /\ clock = 0
  /\ attendances = <<>>
  /\ sheets = <<>>
  /\ pc = [t \in Tasks |-> Idle]
  /\ request = [t \in Tasks |-> NoRequest]
  /\ overlapped = FALSE

Tick ==
  /\ clock < MaxTime
  /\ clock' = clock + 1
  /\ UNCHANGED <<attendances, sheets, pc, request, overlapped>>

-----------------------------------------------------------------------------

Busy(u) == pc[u] # Idle \/ request[u] # NoRequest

\* A service method is called; resolve_employee_id may refuse, with no effect.
Begin(t, op, id) ==
  /\ ~Busy(t)
  /\ pc' = [pc EXCEPT ![t] = [op |-> op, id |-> id]]
  /\ overlapped' = (overlapped \/ \E u \in Tasks : Busy(u))
  /\ UNCHANGED <<clock, attendances, sheets, request>>

Return(t) == pc' = [pc EXCEPT ![t] = Idle]

\* Mutant: the attendances come in the other order.
LatestAscending ==
  {i \in DOMAIN attendances :
     \A j \in DOMAIN attendances : attendances[i].in <= attendances[j].in}

\* get_status: order="check_in desc", limit=1; check_in has seconds only, and
\* Odoo may put either of two equal ones first.
Latest ==
  {i \in DOMAIN attendances :
     \A j \in DOMAIN attendances : attendances[i].in >= attendances[j].in}

ClockedIn(i) == attendances[i].out = None

Ask(t, kind, id, value) ==
  request' = [request EXCEPT ![t] = [kind |-> kind, id |-> id, value |-> value]]

\* clock_in once it has the status.
ClockIn(t) ==
  /\ pc[t].op = "clock_in"
  /\ request[t] = NoRequest
  /\ \/ \E i \in Latest : ClockedIn(i) /\ Return(t) /\ UNCHANGED request
     \/ /\ attendances = <<>> \/ \E i \in Latest : ~ClockedIn(i)
        /\ Ask(t, "check_in", 0, clock)
        /\ pc' = [pc EXCEPT ![t].op = "asked"]
  /\ UNCHANGED <<clock, attendances, sheets, overlapped>>

\* clock_out once it has the status.
ClockOut(t) ==
  /\ pc[t].op = "clock_out"
  /\ request[t] = NoRequest
  /\ \/ \E i \in Latest :
          /\ ClockedIn(i)
          /\ Ask(t, "check_out", i, clock)
          /\ pc' = [pc EXCEPT ![t].op = "asked"]
     \/ /\ attendances = <<>> \/ \E i \in Latest : ~ClockedIn(i)
        /\ Return(t) /\ UNCHANGED request
  /\ UNCHANGED <<clock, attendances, sheets, overlapped>>

\* start_timer creates a timesheet of no hours, log_time one of positive hours.
LogTime(t) ==
  /\ pc[t].op \in {"start_timer", "log_time"}
  /\ Ask(t, "sheet", 0, IF pc[t].op = "start_timer" THEN 0 ELSE 1)
  /\ pc' = [pc EXCEPT ![t].op = "asked"]
  /\ UNCHANGED <<clock, attendances, sheets, overlapped>>

\* Mutant: the hours are only rounded.
ElapsedRounded(n) == IF n % 4 = 3 THEN n \div 2 + 1 ELSE n \div 2

\* max(elapsed, 0.01) rounded to hundredths, half to even, n ticks after the
\* create_date; 18 seconds are half a hundredth of an hour.
Elapsed(n) == IF n < 2 THEN 1 ELSE IF n % 4 = 3 THEN n \div 2 + 1 ELSE n \div 2

\* stop_timer once it has read the timesheet, running or not.
StopTimer(t) ==
  /\ pc[t].op = "stop_timer"
  /\ Ask(t, "hours", pc[t].id, Elapsed(clock - sheets[pc[t].id].created))
  /\ pc' = [pc EXCEPT ![t].op = "asked"]
  /\ UNCHANGED <<clock, attendances, sheets, overlapped>>

\* A read that fails ends the operation; the answer of the request arrives, or
\* is given up while Odoo may still carry the request out.
Ends(t) ==
  /\ pc[t] # Idle
  /\ Return(t)
  /\ UNCHANGED <<clock, attendances, sheets, request, overlapped>>

HasRoom == Len(attendances) + Len(sheets) < MaxRecords

\* Odoo carries out a request.
Apply(t) ==
  LET r == request[t]
  IN /\ \/ /\ r.kind = "check_in"
           /\ HasRoom
           /\ attendances' = Append(attendances, [in |-> r.value, out |-> None])
           /\ UNCHANGED sheets
        \/ /\ r.kind = "check_out"
           /\ attendances' = [attendances EXCEPT ![r.id].out = r.value]
           /\ UNCHANGED sheets
        \/ /\ r.kind = "sheet"
           /\ HasRoom
           /\ sheets' = Append(sheets,
                [created |-> clock + Skew, hours |-> r.value, timer |-> r.value = 0])
           /\ UNCHANGED attendances
        \/ /\ r.kind = "hours"
           /\ sheets' = [sheets EXCEPT ![r.id].hours = r.value, ![r.id].timer = FALSE]
           /\ UNCHANGED attendances
     /\ request' = [request EXCEPT ![t] = NoRequest]
     /\ UNCHANGED <<clock, pc, overlapped>>

\* Odoo refuses it, or never gets it.
Refuse(t) ==
  /\ request[t] # NoRequest
  /\ request' = [request EXCEPT ![t] = NoRequest]
  /\ UNCHANGED <<clock, attendances, sheets, pc, overlapped>>

Next ==
  \/ Tick
  \/ \E t \in Tasks :
       \/ \E op \in {"clock_in", "clock_out", "start_timer", "log_time"} : Begin(t, op, 0)
       \/ \E i \in DOMAIN sheets : Begin(t, "stop_timer", i)
       \/ ClockIn(t) \/ ClockOut(t) \/ LogTime(t) \/ StopTimer(t) \/ Ends(t)
       \/ Apply(t) \/ Refuse(t)

Spec == Init /\ [][Next]_vars

-----------------------------------------------------------------------------

TypeOK ==
  /\ clock \in 0..MaxTime
  /\ \A i \in DOMAIN attendances : attendances[i].in \in 0..MaxTime
  /\ \A i \in DOMAIN sheets : sheets[i].hours \in Nat
  /\ \A t \in Tasks : request[t].kind # "none" => request[t].value >= 0
  /\ overlapped \in BOOLEAN

DistinctTimes ==
  \A i, j \in DOMAIN attendances : i # j => attendances[i].in # attendances[j].in

\* "Clock in twice -- raises an error if the employee already has an open
\* attendance" (attendance.md:60): while operations do not overlap, a late
\* request counting as one, an employee has one open attendance at most, and it
\* is the latest, also when answers are lost and calls repeated.  Two check-ins
\* of one second are excepted: get_status may then take either.
OneOpen ==
  ~overlapped /\ DistinctTimes
    => \A i \in DOMAIN attendances : ClockedIn(i) => i = Len(attendances)

\* get_running_timers finds the timesheets of no hours: those started and not
\* stopped, and no stopped one or logged time, however soon after its creation
\* the timer was stopped and whatever the clocks say (timesheets.md:7).
RunningTimers == {i \in DOMAIN sheets : sheets[i].hours = 0}

TimersRunUntilStopped == RunningTimers = {i \in DOMAIN sheets : sheets[i].timer}

-----------------------------------------------------------------------------
(***************************************************************************)
(* The inductive invariant.                                                *)
(***************************************************************************)

TimeConstants ==
  Skew \in Int /\ MaxTime \in Nat /\ MaxRecords \in Nat /\ None \notin Int

Shape ==
  /\ attendances \in Seq([in : 0..MaxTime, out : Nat \cup {None}])
  /\ \A i \in DOMAIN attendances : attendances[i].in <= clock
  /\ sheets \in Seq([created : Int, hours : Nat, timer : BOOLEAN])
  /\ pc \in [Tasks -> [op : {"none", "asked", "clock_in", "clock_out", "start_timer", "log_time",
                            "stop_timer"}, id : Nat]]
  /\ request \in [Tasks -> [kind : {"none", "check_in", "check_out", "sheet", "hours"},
                            id : Nat, value : Nat]]

\* Requests name what is there, hours are positive when they are meant to be; a task
\* asks once in an operation.
Requests ==
  \A t \in Tasks :
    /\ pc[t].op \notin {"none", "asked"} => request[t] = NoRequest
    /\ pc[t].op = "stop_timer" => pc[t].id \in DOMAIN sheets
    /\ request[t].kind = "none" => request[t] = NoRequest
    /\ request[t].kind = "check_in" => request[t].value \in 0..clock
    /\ request[t].kind = "check_out" => request[t].id \in DOMAIN attendances
    /\ request[t].kind = "sheet" => request[t].value \in {0, 1}
    /\ request[t].kind = "hours" => request[t].id \in DOMAIN sheets /\ request[t].value > 0

\* While operations do not overlap, one task is busy at most, attendances are created
\* in the order of their check-ins, and one is asked for only when none is open.
InTurn ==
  ~overlapped =>
    /\ \A t, u \in Tasks : Busy(t) /\ Busy(u) => t = u
    /\ \A i, j \in DOMAIN attendances : i <= j => attendances[i].in <= attendances[j].in
    /\ \A t \in Tasks, i \in DOMAIN attendances :
         request[t].kind = "check_in" =>
           /\ attendances[i].in <= request[t].value
           /\ ~ClockedIn(i) \/ ~DistinctTimes

IInv == TypeOK /\ Shape /\ Requests /\ InTurn /\ OneOpen /\ TimersRunUntilStopped
=============================================================================
