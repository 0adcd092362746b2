---------------------------- MODULE FieldEngine ----------------------------
(***************************************************************************)
(* The state of class GF256 (finite_field.py): the class attributes        *)
(* _exp_table, _log_table and _initialized, shared by every thread that    *)
(* calls multiply, divide, power or inverse.  Each of these calls          *)
(* _initialize_tables, which tests _initialized and, when it is False,     *)
(* allocates fresh zero tables, fills them entry by entry and only then    *)
(* sets _initialized.  Nothing serialises the check and the filling.       *)
(*                                                                         *)
(* Granularity: one Python statement is one step, except the overflow    *)
(* copy, whose read and store are two (see CopyRead).  The loop body       *)
(* "exp[i] = x; log[x] = i; x = multiply_raw(x, 3)" is two steps, the      *)
(* thread-local x update being merged into the second.                     *)
(***************************************************************************)
EXTENDS GF256

CONSTANTS
  Threads,   \* threads calling into GF256
  Operands,  \* the operand values callers pass (a subset of Elems)
  MaxCalls   \* bound on the calls each thread makes

ASSUME Operands \subseteq Elems /\ MaxCalls \in Nat \ {0}

VARIABLES
  expT,         \* GF256._exp_table
  logT,         \* GF256._log_table
  initialized,  \* GF256._initialized
  pc,           \* per-thread position in the call
  li,           \* per-thread loop index i of _initialize_tables
  lx,           \* per-thread loop value x of _initialize_tables
  lv,           \* per-thread value the overflow copy has read, not yet stored
  call,         \* per-thread current call: [op, a, b]
  result,       \* per-thread value returned by the last completed call
  calls         \* per-thread number of calls started (bounded by MaxCalls)

vars == <<expT, logT, initialized, pc, li, lx, lv, call, result, calls>>

Ops      == {"multiply", "divide", "power", "inverse"}
NoResult == -2   \* no call has returned yet
InitSteps == {"allocExp", "allocLog", "fillExp", "fillLog", "copy",
              "copyWrite", "logZero", "setInit"}

Init ==
  /\ expT = [i \in 0..ExpSize-1 |-> 0]   \* class attributes start as None;
  /\ logT = [v \in 0..LogSize-1 |-> 0]   \* no step reads them before the
  /\ initialized = FALSE                 \* first allocation
  /\ pc = [t \in Threads |-> "idle"]
  /\ li = [t \in Threads |-> 0]
  /\ lx = [t \in Threads |-> 0]
  /\ lv = [t \in Threads |-> 0]
  /\ call = [t \in Threads |-> [op |-> "multiply", a |-> 0, b |-> 0]]
  /\ result = [t \in Threads |-> NoResult]
  /\ calls = [t \in Threads |-> 0]

Goto(t, from, to) == pc[t] = from /\ pc' = [pc EXCEPT ![t] = to]

(* The checks each method makes before calling _initialize_tables: divide  *)
(* and inverse raise on a zero divisor, divide and power return at once on *)
(* a zero operand or exponent.  multiply checks nothing first.             *)
EarlyReturn(op, a, b) ==
  CASE op = "divide"  /\ b = 0 -> ZeroDivisionError
    [] op = "divide"  /\ a = 0 -> 0
    [] op = "power"   /\ b = 0 -> 1
    [] op = "power"   /\ a = 0 -> 0
    [] op = "inverse" /\ a = 0 -> ZeroDivisionError
    [] OTHER                   -> NoResult

(* A thread enters multiply/divide/power/inverse with operands a, b (b is *)
(* the exponent of power and is ignored by inverse).                       *)
Call(t) ==
  \E op \in Ops, a \in Operands, b \in Operands :
    LET early == EarlyReturn(op, a, b) IN
    /\ pc[t] = "idle"
    /\ calls[t] < MaxCalls
    /\ calls' = [calls EXCEPT ![t] = calls[t] + 1]
    /\ call' = [call EXCEPT ![t] = [op |-> op, a |-> a, b |-> b]]
    /\ result' = [result EXCEPT ![t] = early]
    /\ pc' = [pc EXCEPT ![t] = IF early = NoResult THEN "check" ELSE "idle"]
    /\ UNCHANGED <<expT, logT, initialized, li, lx, lv>>

(* if cls._initialized: return *)
Check(t) ==
  /\ pc[t] = "check"
  /\ pc' = [pc EXCEPT ![t] = IF initialized THEN "compute" ELSE "allocExp"]
  /\ UNCHANGED <<expT, logT, initialized, li, lx, lv, call, result, calls>>

(* cls._exp_table = [0] * 512 *)
AllocExp(t) ==
  /\ Goto(t, "allocExp", "allocLog")
  /\ expT' = InitialExp
  /\ UNCHANGED <<logT, initialized, li, lx, lv, call, result, calls>>

(* cls._log_table = [0] * 256; x = 1; the loop starts at i = 0 *)
AllocLog(t) ==
  /\ Goto(t, "allocLog", "fillExp")
  /\ logT' = InitialLog
  /\ li' = [li EXCEPT ![t] = 0]
  /\ lx' = [lx EXCEPT ![t] = 1]
  /\ UNCHANGED <<expT, initialized, lv, call, result, calls>>

(* cls._exp_table[i] = x *)
FillExp(t) ==
  /\ Goto(t, "fillExp", "fillLog")
  /\ expT' = [expT EXCEPT ![li[t]] = lx[t]]
  /\ UNCHANGED <<logT, initialized, li, lx, lv, call, result, calls>>

(* Defect variant: the log recorded one past the loop index. *)
FillLogOffByOne(t) ==
  /\ pc[t] = "fillLog"
  /\ logT' = [logT EXCEPT ![lx[t]] = li[t] + 1]
  /\ lx' = [lx EXCEPT ![t] = MultiplyRaw(lx[t], Gen)]
  /\ li' = [li EXCEPT ![t] = li[t] + 1]
  /\ pc' = [pc EXCEPT ![t] = IF li[t] + 1 < Order THEN "fillExp" ELSE "copy"]
  /\ UNCHANGED <<expT, initialized, lv, call, result, calls>>

(* cls._log_table[x] = i; x = cls._multiply_raw(x, 3); next i.  After the *)
(* last i the overflow loop starts at i = 255.                             *)
FillLog(t) ==
  /\ pc[t] = "fillLog"
  /\ logT' = [logT EXCEPT ![lx[t]] = li[t]]
  /\ lx' = [lx EXCEPT ![t] = MultiplyRaw(lx[t], Gen)]
  /\ li' = [li EXCEPT ![t] = li[t] + 1]
  /\ pc' = [pc EXCEPT ![t] = IF li[t] + 1 < Order THEN "fillExp" ELSE "copy"]
  /\ UNCHANGED <<expT, initialized, lv, call, result, calls>>

(* Defect variant: the overflow half copied from one entry too far. *)
CopyReadShifted(t) ==
  /\ Goto(t, "copy", "copyWrite")
  /\ lv' = [lv EXCEPT ![t] = expT[li[t] - Order + 1]]
  /\ UNCHANGED <<expT, logT, initialized, li, lx, call, result, calls>>

(* cls._exp_table[i] = cls._exp_table[i - 255], for i in 255..511, is two *)
(* steps: the right-hand side is read (BINARY_SUBSCR), and the store      *)
(* (STORE_SUBSCR) follows.  CPython 3.8 and 3.9, which setup.py admits,   *)
(* may switch threads between the two, so another thread's allocation or  *)
(* fill can come between the read and the store.                          *)
CopyRead(t) ==
  /\ Goto(t, "copy", "copyWrite")
  /\ lv' = [lv EXCEPT ![t] = expT[li[t] - Order]]
  /\ UNCHANGED <<expT, logT, initialized, li, lx, call, result, calls>>

CopyWrite(t) ==
  /\ pc[t] = "copyWrite"
  /\ expT' = [expT EXCEPT ![li[t]] = lv[t]]
  /\ li' = [li EXCEPT ![t] = li[t] + 1]
  /\ pc' = [pc EXCEPT ![t] = IF li[t] + 1 < ExpSize THEN "copy" ELSE "logZero"]
  /\ UNCHANGED <<logT, initialized, lx, lv, call, result, calls>>

(* cls._log_table[0] = 0 *)
LogZero(t) ==
  /\ Goto(t, "logZero", "setInit")
  /\ logT' = [logT EXCEPT ![0] = 0]
  /\ UNCHANGED <<expT, initialized, li, lx, lv, call, result, calls>>

(* cls._initialized = True *)
SetInit(t) ==
  /\ Goto(t, "setInit", "compute")
  /\ initialized' = TRUE
  /\ UNCHANGED <<expT, logT, li, lx, lv, call, result, calls>>

(* The table lookup that ends the call, on the tables as they are now. *)
Compute(t) ==
  LET c == call[t]
      r == CASE c.op = "multiply" -> MultiplyWith(expT, logT, c.a, c.b)
             [] c.op = "divide"   -> DivideWith(expT, logT, c.a, c.b)
             [] c.op = "power"    -> PowerWith(expT, logT, c.a, c.b)
             [] c.op = "inverse"  -> InverseWith(expT, logT, c.a)
  IN /\ Goto(t, "compute", "idle")
     /\ result' = [result EXCEPT ![t] = r]
     /\ UNCHANGED <<expT, logT, initialized, li, lx, lv, call, calls>>

(* A step of a call in progress. *)
Step(t) ==
  \/ Check(t) \/ AllocExp(t) \/ AllocLog(t) \/ FillExp(t) \/ FillLog(t)
  \/ CopyRead(t) \/ CopyWrite(t) \/ LogZero(t) \/ SetInit(t) \/ Compute(t)

Next == \E t \in Threads : Call(t) \/ Step(t)

(* The interpreter keeps scheduling every thread that is inside a call;   *)
(* nothing obliges a thread to start another call.                        *)
Fairness == \A t \in Threads : WF_vars(Step(t))

Spec == Init /\ [][Next]_vars /\ Fairness

-----------------------------------------------------------------------------
TypeOK ==
  /\ expT \in [0..ExpSize-1 -> Elems]
  /\ logT \in [0..LogSize-1 -> 0..Order-1]
  /\ initialized \in BOOLEAN
  /\ pc \in [Threads -> {"idle", "check", "compute"} \cup InitSteps]
  /\ li \in [Threads -> 0..ExpSize]
  /\ lx \in [Threads -> Elems]
  /\ lv \in [Threads -> Elems]
  /\ call \in [Threads -> [op : Ops, a : Elems, b : Elems]]
  /\ result \in [Threads -> Elems \cup {ZeroDivisionError, NoResult}]
  /\ calls \in [Threads -> 0..MaxCalls]

(* Whether value r is the right answer to call c. *)
Correct(c, r) ==
  CASE c.op = "multiply" -> r = MultiplyRaw(c.a, c.b)
    [] c.op = "divide"   -> IF c.b = 0 THEN r = ZeroDivisionError
                            ELSE IsQuotient(r, c.a, c.b)
    [] c.op = "power"    -> r = RefPower(c.a, c.b)
    [] c.op = "inverse"  -> IF c.a = 0 THEN r = ZeroDivisionError
                            ELSE IsInverse(r, c.a)

(* Every value multiply, divide, power or inverse returns to any thread is *)
(* the field result: the reduced carry-less product, a true quotient or    *)
(* inverse, the repeated product; a zero divisor raises.  This is what the *)
(* lazily built tables of _initialize_tables must deliver whichever thread *)
(* built them and whenever the caller reads them.                          *)
ResultsAgreeWithReference ==
  \A t \in Threads : result[t] # NoResult => Correct(call[t], result[t])

(* The tables are the discrete logarithm of the generator over the whole  *)
(* group: exp walks the powers of Gen through both halves, and every       *)
(* nonzero element has a log that exp maps back to it.  This is what makes *)
(* every table lookup of multiply, divide, power and inverse right for all *)
(* operands, not only those the callers of a run happen to pass.           *)
IsDiscreteLog(exp, log) ==
  /\ exp[0] = 1
  /\ \A i \in 0..ExpSize-2 : exp[i+1] = MultiplyRaw(exp[i], Gen)
  /\ \A v \in 1..Order : exp[log[v]] = v

(* Once the flag is set and no thread is inside _initialize_tables, the    *)
(* shared tables are complete discrete-log tables: concurrent initialisers *)
(* that reallocated and refilled them left no entry zero or half-copied.   *)
QuiescentTablesComplete ==
  (initialized /\ \A t \in Threads : pc[t] \notin InitSteps)
    => IsDiscreteLog(expT, logT)
=============================================================================
