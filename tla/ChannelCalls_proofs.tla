------------------------- MODULE ChannelCalls_proofs -------------------------
(* Proofs about method calls, for any number of calls, requests, faults    *)
(* and crashes.                                                            *)
EXTENDS ChannelCalls, FiniteSetTheorems, TLAPS

RowKind == {"none", "plain", "timed"}
Entry ==
  [kind : {"started", "terminal", "output", "other"}, call : Call \cup {None},
   as : {"call", "root", None} \cup Outcome]
Why == {"no", "stray", "failed", "again"}

FrameRecord ==
  [do : FrameType, in : {"none", "resolve", "settle", "missing", "sweep"},
   for : {"none", "answer", "progress", "cancel", "timeout", "abandon", "dispatch", "deliver", "retry"},
   call : Call \cup {None}, out : Outcome \cup {None}, on : Task \cup {None}, seq : Nat,
   seen : [Call -> RowKind] \cup {None}, todo : SUBSET Call, why : Why]

StartedCalls == {c \in Call : IsStarted(c)}
SettledCalls == {c \in Call : IsSettled(c)}

-----------------------------------------------------------------------------
(* The log.                                                                *)

\* A start and a terminal of a call occur at most once, the start first.
Once(kind) == \A c \in Call : \A i, j \in At(kind, c) : i = j
LogOK ==
  /\ log \in Seq(Entry)
  /\ Once("started") /\ Once("terminal")
  /\ SettledCalls \subseteq StartedCalls

\* What a step may do to the log: nothing, or one event at its end.
StartStep == \E c \in Call, by \in {"call", "root"} :
               ~IsStarted(c) /\ log' = Append(log, Started(c, by))
SettleStep == \E c \in Call, o \in Outcome :
                IsStarted(c) /\ ~IsSettled(c) /\ log' = Append(log, Terminal(c, o))
OtherStep == \E e \in {Other} \cup {Output(c) : c \in Call} : log' = Append(log, e)
LogStep == log' = log \/ StartStep \/ SettleStep \/ OtherStep

\* Where an event lands.
LEMMA AppendAt ==
  ASSUME log \in Seq(Entry), NEW e \in Entry, log' = Append(log, e), NEW kind, NEW c
  PROVE  /\ At(kind, c)' = IF e.kind = kind /\ e.call = c THEN At(kind, c) \cup {Len(log) + 1}
                           ELSE At(kind, c)
         /\ log' \in Seq(Entry) /\ Len(log') = Len(log) + 1 /\ Len(log) \in Nat
         /\ \A i \in DOMAIN log : log'[i] = log[i]
         /\ log'[Len(log) + 1] = e
<1>1. /\ log' \in Seq(Entry) /\ Len(log') = Len(log) + 1 /\ Len(log) \in Nat
      /\ DOMAIN log = 1..Len(log) /\ DOMAIN log' = 1..(Len(log) + 1)
      /\ \A i \in 1..Len(log) : log'[i] = log[i]
      /\ log'[Len(log) + 1] = e
  OBVIOUS
<1>2. \A i : i \in 1..(Len(log) + 1) <=> i \in 1..Len(log) \/ i = Len(log) + 1
  BY <1>1
<1>3. \A i : i \in At(kind, c)' <=> i \in At(kind, c) \/ (i = Len(log) + 1 /\ e.kind = kind /\ e.call = c)
  BY <1>1, <1>2 DEF At
<1>4. QED
  BY <1>1, <1>3

\* The kinds of events.
LEMMA EventTypes ==
  /\ \A c \in Call, by \in {"call", "root"} :
       /\ Started(c, by) \in Entry /\ Started(c, by).kind = "started"
       /\ Started(c, by).call = c /\ Started(c, by).as = by
  /\ \A c \in Call, o \in Outcome :
       /\ Terminal(c, o) \in Entry /\ Terminal(c, o).kind = "terminal"
       /\ Terminal(c, o).call = c /\ Terminal(c, o).as = o
  /\ \A e \in {Other} \cup {Output(c) : c \in Call} :
       e \in Entry /\ e.kind # "started" /\ e.kind # "terminal"
<1>1. Other \in Entry /\ Other.kind = "other"
  BY DEF Other, Entry
<1>2. \A c \in Call : Output(c) \in Entry /\ Output(c).kind = "output"
  BY DEF Output, Entry
<1>3. QED
  BY <1>1, <1>2 DEF Started, Terminal, Entry

\* The log stays well formed, and what was started or settled stays so.
LEMMA LogKeeps ==
  ASSUME LogOK, LogStep
  PROVE  /\ LogOK' /\ StartedCalls \subseteq StartedCalls' /\ SettledCalls \subseteq SettledCalls'
         /\ Len(log) \in Nat /\ Len(log') \in Nat /\ Len(log) <= Len(log')
<1>0. log \in Seq(Entry) /\ Len(log) \in Nat
  BY DEF LogOK
<1>1. CASE log' = log
  BY <1>0, <1>1 DEF LogOK, Once, At, StartedCalls, SettledCalls, IsStarted, IsSettled
<1>2. CASE StartStep
  <2>1. PICK c \in Call, by \in {"call", "root"} : ~IsStarted(c) /\ log' = Append(log, Started(c, by))
    BY <1>2 DEF StartStep
  <2>2. /\ Started(c, by) \in Entry /\ Started(c, by).kind = "started" /\ Started(c, by).call = c
    BY EventTypes
  <2>3. log' \in Seq(Entry) /\ Len(log') = Len(log) + 1
    BY <1>0, <2>1, <2>2, AppendAt
  <2>4. \A x : At("terminal", x)' = At("terminal", x)
    BY <1>0, <2>1, <2>2, AppendAt
  <2>5. \A x : x # c => At("started", x)' = At("started", x)
    BY <1>0, <2>1, <2>2, AppendAt
  <2>6. At("started", c)' = {Len(log) + 1}
    BY <1>0, <2>1, <2>2, AppendAt DEF IsStarted
  <2>7. Once("started")' /\ Once("terminal")'
    BY <2>4, <2>5, <2>6 DEF LogOK, Once
  <2>8. StartedCalls' = StartedCalls \cup {c} /\ SettledCalls' = SettledCalls
    BY <2>4, <2>5, <2>6 DEF StartedCalls, SettledCalls, IsStarted, IsSettled
  <2>9. QED
    BY <1>0, <2>3, <2>7, <2>8 DEF LogOK
<1>3. CASE SettleStep
  <2>1. PICK c \in Call, o \in Outcome :
          IsStarted(c) /\ ~IsSettled(c) /\ log' = Append(log, Terminal(c, o))
    BY <1>3 DEF SettleStep
  <2>2. Terminal(c, o) \in Entry /\ Terminal(c, o).kind = "terminal" /\ Terminal(c, o).call = c
    BY EventTypes
  <2>3. log' \in Seq(Entry) /\ Len(log') = Len(log) + 1
    BY <1>0, <2>1, <2>2, AppendAt
  <2>4. \A x : At("started", x)' = At("started", x)
    BY <1>0, <2>1, <2>2, AppendAt
  <2>5. \A x : x # c => At("terminal", x)' = At("terminal", x)
    BY <1>0, <2>1, <2>2, AppendAt
  <2>6. At("terminal", c)' = {Len(log) + 1}
    BY <1>0, <2>1, <2>2, AppendAt DEF IsSettled
  <2>7. Once("started")' /\ Once("terminal")'
    BY <2>4, <2>5, <2>6 DEF LogOK, Once
  <2>8. StartedCalls' = StartedCalls /\ SettledCalls' = SettledCalls \cup {c} /\ c \in StartedCalls
    BY <2>1, <2>4, <2>5, <2>6 DEF StartedCalls, SettledCalls, IsStarted, IsSettled
  <2>9. QED
    BY <1>0, <2>3, <2>7, <2>8 DEF LogOK
<1>4. CASE OtherStep
  <2>1. PICK e \in {Other} \cup {Output(c) : c \in Call} : log' = Append(log, e)
    BY <1>4 DEF OtherStep
  <2>2. e \in Entry /\ e.kind # "started" /\ e.kind # "terminal"
    BY EventTypes
  <2>3. log' \in Seq(Entry) /\ Len(log') = Len(log) + 1
    BY <1>0, <2>1, <2>2, AppendAt
  <2>4. \A x : At("started", x)' = At("started", x) /\ At("terminal", x)' = At("terminal", x)
    BY <1>0, <2>1, <2>2, AppendAt
  <2>5. Once("started")' /\ Once("terminal")'
    BY <2>4 DEF LogOK, Once
  <2>6. StartedCalls' = StartedCalls /\ SettledCalls' = SettledCalls
    BY <2>4 DEF StartedCalls, SettledCalls, IsStarted, IsSettled
  <2>7. QED
    BY <1>0, <2>3, <2>5, <2>6 DEF LogOK
<1>5. QED
  BY <1>1, <1>2, <1>3, <1>4 DEF LogStep

\* The terminal of a call that is settled stays where it is.
LEMMA TerminalStays ==
  ASSUME LogOK, LogOK', NEW c \in Call, At("terminal", c)' = At("terminal", c), IsSettled(c),
         \A i \in DOMAIN log : log'[i] = log[i]
  PROVE  log'[SeqOf("terminal", c)'] = log[SeqOf("terminal", c)]
<1> DEFINE first(A) == CHOOSE i \in A : TRUE
<1>1. SeqOf("terminal", c) = first(At("terminal", c)) /\ At("terminal", c) # {}
  BY DEF SeqOf, IsSettled
<1>2. SeqOf("terminal", c)' = first(At("terminal", c)')
  BY <1>1 DEF SeqOf
<1>3. \A A : A # {} => first(A) \in A
  OBVIOUS
<1> HIDE DEF first
<1>4. SeqOf("terminal", c)' = SeqOf("terminal", c) /\ SeqOf("terminal", c) \in At("terminal", c)
  BY <1>1, <1>2, <1>3
<1>5. QED
  BY <1>4 DEF At

\* Every step of the log is a step of the ledger, or none.
LEMMA LedgerStep ==
  ASSUME LogOK, LogStep
  PROVE  Ledger!Next \/ ledger' = ledger
<1>0. log \in Seq(Entry) /\ LogOK'
  BY LogKeeps DEF LogOK
<1>1. CASE log' = log
  BY <1>1 DEF ledger, SeqOf, IsStarted, IsSettled, At
<1>2. CASE StartStep
  <2>1. PICK c \in Call, by \in {"call", "root"} : ~IsStarted(c) /\ log' = Append(log, Started(c, by))
    BY <1>2 DEF StartStep
  <2>2. /\ Started(c, by) \in Entry /\ Started(c, by).kind = "started" /\ Started(c, by).call = c
    BY EventTypes
  <2>3. \A x : At("terminal", x)' = At("terminal", x)
    BY <1>0, <2>1, <2>2, AppendAt
  <2>4. \A x : x # c => At("started", x)' = At("started", x)
    BY <1>0, <2>1, <2>2, AppendAt
  <2>5. At("started", c)' # {} /\ \A i \in DOMAIN log : log'[i] = log[i]
    BY <1>0, <2>1, <2>2, AppendAt
  <2>6. ~IsSettled(c)
    BY <2>1 DEF LogOK, StartedCalls, SettledCalls
  <2>7. ledger[c] = "none" /\ ledger'[c] = "pending"
    BY <2>1, <2>3, <2>5, <2>6 DEF ledger, IsStarted, IsSettled
  <2>8. ASSUME NEW x \in Call, x # c PROVE ledger'[x] = ledger[x]
    <3>1. CASE IsSettled(x)
      BY <1>0, <2>3, <2>5, <3>1, TerminalStays DEF ledger, IsSettled
    <3>2. CASE ~IsSettled(x)
      BY <2>3, <2>4, <2>8, <3>2 DEF ledger, IsSettled, IsStarted
    <3>3. QED
      BY <3>1, <3>2
  <2>9. ledger' = [ledger EXCEPT ![c] = "pending"]
    <3>1. DOMAIN ledger' = Call /\ DOMAIN ledger = Call /\ ledger' = [x \in Call |-> ledger'[x]]
      BY DEF ledger
    <3>2. QED
      BY <2>7, <2>8, <3>1
  <2>10. QED
    BY <2>7, <2>9 DEF Ledger!Next, Ledger!Issue
<1>3. CASE SettleStep
  <2>1. PICK c \in Call, o \in Outcome :
          IsStarted(c) /\ ~IsSettled(c) /\ log' = Append(log, Terminal(c, o))
    BY <1>3 DEF SettleStep
  <2>2. /\ Terminal(c, o) \in Entry /\ Terminal(c, o).kind = "terminal"
        /\ Terminal(c, o).call = c /\ Terminal(c, o).as = o
    BY EventTypes
  <2>3. \A x : At("started", x)' = At("started", x)
    BY <1>0, <2>1, <2>2, AppendAt
  <2>4. \A x : x # c => At("terminal", x)' = At("terminal", x)
    BY <1>0, <2>1, <2>2, AppendAt
  <2>5. /\ At("terminal", c)' = {Len(log) + 1} /\ log'[Len(log) + 1] = Terminal(c, o)
        /\ \A i \in DOMAIN log : log'[i] = log[i]
    BY <1>0, <2>1, <2>2, AppendAt DEF IsSettled
  <2>6. SeqOf("terminal", c)' = Len(log) + 1
    BY <2>5 DEF SeqOf
  <2>7. ledger[c] = "pending" /\ ledger'[c] = o
    BY <2>1, <2>2, <2>5, <2>6 DEF ledger, IsStarted, IsSettled
  <2>8. ASSUME NEW x \in Call, x # c PROVE ledger'[x] = ledger[x]
    <3>1. CASE IsSettled(x)
      BY <1>0, <2>4, <2>5, <2>8, <3>1, TerminalStays DEF ledger, IsSettled
    <3>2. CASE ~IsSettled(x)
      BY <2>3, <2>4, <2>8, <3>2 DEF ledger, IsSettled, IsStarted
    <3>3. QED
      BY <3>1, <3>2
  <2>9. ledger' = [ledger EXCEPT ![c] = o]
    <3>1. DOMAIN ledger' = Call /\ DOMAIN ledger = Call /\ ledger' = [x \in Call |-> ledger'[x]]
      BY DEF ledger
    <3>2. QED
      BY <2>7, <2>8, <3>1
  <2>10. QED
    BY <2>7, <2>9 DEF Ledger!Next, Ledger!Settle
<1>4. CASE OtherStep
  <2>1. PICK e \in {Other} \cup {Output(c) : c \in Call} : log' = Append(log, e)
    BY <1>4 DEF OtherStep
  <2>2. e \in Entry /\ e.kind # "started" /\ e.kind # "terminal"
    BY EventTypes
  <2>3. \A x : At("started", x)' = At("started", x) /\ At("terminal", x)' = At("terminal", x)
    BY <1>0, <2>1, <2>2, AppendAt
  <2>4. \A i \in DOMAIN log : log'[i] = log[i]
    BY <1>0, <2>1, <2>2, AppendAt
  <2>5. ASSUME NEW x \in Call PROVE ledger'[x] = ledger[x]
    <3>1. CASE IsSettled(x)
      BY <1>0, <2>3, <2>4, <3>1, TerminalStays DEF ledger, IsSettled
    <3>2. CASE ~IsSettled(x)
      BY <2>3, <3>2 DEF ledger, IsSettled, IsStarted
    <3>3. QED
      BY <3>1, <3>2
  <2>6. ledger' = ledger
    <3>1. ledger' = [x \in Call |-> ledger'[x]] /\ ledger = [x \in Call |-> ledger[x]]
      BY DEF ledger
    <3>2. QED
      BY <2>5, <3>1
  <2>7. QED
    BY <2>6
<1>5. QED
  BY <1>1, <1>2, <1>3, <1>4 DEF LogStep

-----------------------------------------------------------------------------
(* The table, the frames and the stacks.  They are described in terms of   *)
(* what they are read against: S the calls that are started, T the calls   *)
(* that are settled, n the length of the log, hs the stacks and st the     *)
(* barrier.                                                                *)

Looking == {"begin", "wait", "lookup", "head", "compare", "read", "apply", "confirm"}
Settles == {"root", "plant", "check", "append", "finish", "output", "noted"}

\* What a frame below another one may be at.
Resting == {"abandon", "expire", "select", "presence", "feedback", "head"}

\* A table, or a reading of the log, never holds a call without a start.
TableOK(table, S) == table \in [Call -> RowKind] /\ \A c \in Call : table[c] # "none" => c \in S

\* The sweep of the alarm, and the methods that serve one call.  Once the
\* barrier has been passed, either there is a start or the request came with
\* none in flight.
Sweeps(f) == f.in = "sweep" /\ f.do \in {"head", "compare", "read", "apply"}
Serves(f, S) ==
  /\ f.in \in {"resolve", "settle", "missing"} /\ f.call \in Call
  /\ f.do \in Looking => f.in # "missing"
  /\ f.for # "progress" => f.out \in Outcome
  /\ f.do \notin {"begin", "wait"} => f.call \in S \/ f.why # "no"

FrameOK(f, S, T, n) ==
  /\ f \in FrameRecord /\ f.todo \subseteq S
  /\ f.do # "append" => f.seq <= n
  /\ f.do \in Journaling \cup {"method"} => f.call \in Call
  /\ f.do \in {"recheck", "insert", "method"} \/ f.in = "settle" => f.call \in S
  /\ f.for = "deliver" => f.in = "settle"
  /\ f.do \in Looking \cup Settles => Sweeps(f) \/ Serves(f, S)
  /\ f.do \in {"check", "append", "finish"} => f.call \in S /\ f.for # "progress"
  /\ f.do = "finish" => f.call \in T
  /\ f.do = "apply" => TableOK(f.seen, S)
  /\ f.do = "apply" /\ f.in = "settle" /\ f.seen[f.call] = "none" => f.call \in T
  /\ f.do = "confirm" /\ f.in = "settle" => f.call \in T

StackOK(s, S, T, n) ==
  /\ s \in Seq(FrameRecord)
  /\ \A k \in 1..Len(s) : FrameOK(s[k], S, T, n) /\ (k > 1 => s[k].do \in Resting)

\* g is in journalCallStart for c.
Journals(hs, g, c) ==
  g \in Task /\ hs[g] # <<>> /\ Head(hs[g]).do \in Journaling /\ Head(hs[g]).call = c

\* What holds of the first frame of a stack: who waits, waits for a start under
\* way; who begins has a start, or none in flight when it came, or one to wait for.
TopOK(f, hs, st, S) ==
  /\ f.do = "wait" => Journals(hs, f.on, f.call)
  /\ f.do = "begin" => f.call \in S \/ f.why # "no" \/ st[f.call] # None

BarrierOK(hs, st) ==
  /\ st \in [Call -> Handler \cup {None}]
  /\ \A c \in Call : st[c] # None => Journals(hs, st[c], c)

HandlersOK(hs, st, S, T, n) ==
  /\ hs \in [Task -> Seq(FrameRecord)]
  /\ \A h \in Task : StackOK(hs[h], S, T, n)
  /\ \A h \in Task : hs[h] # <<>> => TopOK(Head(hs[h]), hs, st, S)
  /\ BarrierOK(hs, st)

RowsOK == TableOK(rows, StartedCalls) /\ through \in Nat /\ through <= Len(log)
WorldOK ==
  /\ target \in {"rpc", "do", "gone"} /\ late \subseteq Timed
  /\ answered \subseteq SettledCalls

CallsInv ==
  /\ LogOK /\ RowsOK /\ WorldOK
  /\ HandlersOK(handlers, starts, StartedCalls, SettledCalls, Len(log))

-----------------------------------------------------------------------------
(* Stacks.                                                                 *)

\* More starts, more terminals and a longer log spoil no frame.
LEMMA FrameGrows ==
  ASSUME NEW S, NEW T, NEW n \in Nat, NEW S2, NEW T2, NEW n2 \in Nat,
         S \subseteq S2, T \subseteq T2, n <= n2, NEW f, FrameOK(f, S, T, n)
  PROVE  FrameOK(f, S2, T2, n2)
<1>1. f \in FrameRecord /\ f.seq \in Nat
  BY DEF FrameOK, FrameRecord
<1>2. f.seq <= n => f.seq <= n2
  BY <1>1
<1>3. f.todo \subseteq S2
  BY DEF FrameOK
<1>4. Serves(f, S) => Serves(f, S2)
  BY DEF Serves
<1>5. \A table : TableOK(table, S) => TableOK(table, S2)
  BY DEF TableOK
<1>6. QED
  BY <1>1, <1>2, <1>3, <1>4, <1>5 DEF FrameOK

\* A stack that is sound stays sound when more calls are started, more are
\* settled and the log is longer.
LEMMA StackGrows ==
  ASSUME NEW S, NEW T, NEW n \in Nat, NEW S2, NEW T2, NEW n2 \in Nat,
         S \subseteq S2, T \subseteq T2, n <= n2, NEW s, StackOK(s, S, T, n)
  PROVE  StackOK(s, S2, T2, n2)
BY FrameGrows DEF StackOK

\* The first frame of a stack gives way to one frame, to two or to none.
LEMMA StackTops ==
  ASSUME NEW S, NEW T, NEW n, NEW s, StackOK(s, S, T, n), s # <<>>
  PROVE  /\ FrameOK(Head(s), S, T, n)
         /\ StackOK(Tail(s), S, T, n)
         /\ Tail(s) # <<>> => Head(Tail(s)).do \in Resting
         /\ <<>> \o Tail(s) = Tail(s)
<1>1. s \in Seq(FrameRecord) /\ Len(s) \in Nat /\ Len(s) >= 1 /\ Head(s) = s[1]
  BY DEF StackOK
<1>2. Tail(s) \in Seq(FrameRecord) /\ Len(Tail(s)) = Len(s) - 1
      /\ \A k \in 1..Len(Tail(s)) : Tail(s)[k] = s[k + 1] /\ k + 1 \in 1..Len(s)
  BY <1>1
<1>3. FrameOK(Head(s), S, T, n)
  BY <1>1 DEF StackOK
<1>4. \A k \in 1..Len(Tail(s)) : FrameOK(Tail(s)[k], S, T, n) /\ Tail(s)[k].do \in Resting
  BY <1>1, <1>2 DEF StackOK
<1>5. Tail(s) # <<>> => Head(Tail(s)).do \in Resting
  BY <1>2, <1>4
<1>6. QED
  BY <1>2, <1>3, <1>4, <1>5 DEF StackOK

\* A sound frame may be put on a sound stack whose first frame rests.
LEMMA StackPush ==
  ASSUME NEW S, NEW T, NEW n, NEW s, StackOK(s, S, T, n),
         s # <<>> => Head(s).do \in Resting, NEW f, FrameOK(f, S, T, n)
  PROVE  /\ StackOK(<<f>> \o s, S, T, n)
         /\ <<f>> \o s # <<>> /\ Head(<<f>> \o s) = f
<1>1. s \in Seq(FrameRecord) /\ f \in FrameRecord /\ Len(s) \in Nat
  BY DEF StackOK, FrameOK
<1> DEFINE r == <<f>> \o s
<1>2. r \in Seq(FrameRecord) /\ Len(r) = Len(s) + 1 /\ r[1] = f
      /\ \A k \in 2..Len(r) : r[k] = s[k - 1] /\ k - 1 \in 1..Len(s)
  BY <1>1
<1>3. r # <<>> /\ Head(r) = f
  BY <1>1, <1>2
<1>4. \A k \in 1..Len(s) : FrameOK(s[k], S, T, n) /\ s[k].do \in Resting
  BY <1>1 DEF StackOK
<1> HIDE DEF r
<1>5. \A k \in 1..Len(r) : k = 1 \/ k \in 2..Len(r)
  BY <1>1, <1>2
<1>6. \A k \in 1..Len(r) : FrameOK(r[k], S, T, n) /\ (k > 1 => r[k].do \in Resting)
  BY <1>2, <1>4, <1>5
<1>7. StackOK(r, S, T, n)
  BY <1>2, <1>6 DEF StackOK
<1>8. QED
  BY <1>3, <1>7 DEF r

\* Two frames, the second of which rests, may be put on such a stack.
LEMMA StackPushTwo ==
  ASSUME NEW S, NEW T, NEW n, NEW s, StackOK(s, S, T, n),
         s # <<>> => Head(s).do \in Resting, NEW f, FrameOK(f, S, T, n),
         NEW g, FrameOK(g, S, T, n), g.do \in Resting
  PROVE  /\ StackOK(<<f, g>> \o s, S, T, n)
         /\ <<f, g>> \o s # <<>> /\ Head(<<f, g>> \o s) = f
<1>1. s \in Seq(FrameRecord) /\ f \in FrameRecord /\ g \in FrameRecord
  BY DEF StackOK, FrameOK
<1>2. Len(s) \in Nat
  BY <1>1
<1> DEFINE r == <<f, g>> \o s
<1>3. r \in Seq(FrameRecord) /\ Len(r) = Len(s) + 2 /\ r[1] = f /\ r[2] = g
      /\ \A k \in 3..Len(r) : r[k] = s[k - 2] /\ k - 2 \in 1..Len(s)
  BY <1>1
<1>4. r # <<>> /\ Head(r) = f
  BY <1>2, <1>3
<1>5. \A k \in 1..Len(s) : FrameOK(s[k], S, T, n) /\ s[k].do \in Resting
  BY <1>1, <1>2 DEF StackOK
<1> HIDE DEF r
<1>6. \A k \in 1..Len(r) : k = 1 \/ k = 2 \/ k \in 3..Len(r)
  BY <1>2, <1>3
<1>7. \A k \in 1..Len(r) : FrameOK(r[k], S, T, n) /\ (k > 1 => r[k].do \in Resting)
  BY <1>3, <1>5, <1>6
<1>8. StackOK(r, S, T, n)
  BY <1>3, <1>7 DEF StackOK
<1>9. QED
  BY <1>4, <1>8 DEF r

\* An empty stack, and stacks of one frame and of two.
LEMMA StackNew ==
  ASSUME NEW S, NEW T, NEW n
  PROVE  /\ StackOK(<<>>, S, T, n)
         /\ \A f : FrameOK(f, S, T, n) =>
              StackOK(<<f>>, S, T, n) /\ <<f>> # <<>> /\ Head(<<f>>) = f
<1>1. StackOK(<<>>, S, T, n)
  BY DEF StackOK
<1>2. ASSUME NEW f, FrameOK(f, S, T, n)
      PROVE  StackOK(<<f>>, S, T, n) /\ <<f>> # <<>> /\ Head(<<f>>) = f
  <2>1. f \in FrameRecord
    BY <1>2 DEF FrameOK
  <2>2. <<f>> \in Seq(FrameRecord) /\ Len(<<f>>) = 1 /\ <<f>>[1] = f
    BY <2>1
  <2>3. QED
    BY <1>2, <2>2 DEF StackOK
<1>3. QED
  BY <1>1, <1>2

\* Two frames, the second of which rests, are a sound stack.
LEMMA StackTwo ==
  ASSUME NEW S, NEW T, NEW n, NEW f, FrameOK(f, S, T, n), NEW g, FrameOK(g, S, T, n),
         g.do \in Resting
  PROVE  StackOK(<<f, g>>, S, T, n) /\ <<f, g>> # <<>> /\ Head(<<f, g>>) = f
<1>1. f \in FrameRecord /\ g \in FrameRecord
  BY DEF FrameOK
<1>2. <<f, g>> \in Seq(FrameRecord) /\ Len(<<f, g>>) = 2 /\ <<f, g>>[1] = f /\ <<f, g>>[2] = g
  BY <1>1
<1>3. QED
  BY <1>2 DEF StackOK

-----------------------------------------------------------------------------
(* Handlers.                                                               *)

\* Journals(h2s, ...) where a stack that does not journal has changed.
LEMMA JournalsStays ==
  ASSUME NEW hs \in [Task -> Seq(FrameRecord)], NEW h \in Task, NEW s2,
         hs[h] # <<>> => Head(hs[h]).do \notin Journaling, NEW g, NEW c, Journals(hs, g, c)
  PROVE  Journals([hs EXCEPT ![h] = s2], g, c)
BY DEF Journals

\* A handler that journals no start goes on with another stack.
LEMMA SetStack ==
  ASSUME NEW S, NEW T, NEW n \in Nat, NEW S2, NEW T2, NEW n2 \in Nat,
         S \subseteq S2, T \subseteq T2, n <= n2, NEW hs, NEW st, HandlersOK(hs, st, S, T, n),
         NEW h \in Task, hs[h] # <<>> => Head(hs[h]).do \notin Journaling,
         NEW s2, StackOK(s2, S2, T2, n2), s2 # <<>> => TopOK(Head(s2), hs, st, S2)
  PROVE  HandlersOK([hs EXCEPT ![h] = s2], st, S2, T2, n2)
<1> DEFINE h2s == [hs EXCEPT ![h] = s2]
<1>1. hs \in [Task -> Seq(FrameRecord)] /\ s2 \in Seq(FrameRecord)
  BY DEF HandlersOK, StackOK
<1>2. h2s \in [Task -> Seq(FrameRecord)] /\ h2s[h] = s2 /\ \A g \in Task : g # h => h2s[g] = hs[g]
  BY <1>1
<1>3. \A g, c : Journals(hs, g, c) => Journals(h2s, g, c)
  BY <1>1, JournalsStays
<1> HIDE DEF h2s
<1>4. \A g \in Task : StackOK(hs[g], S2, T2, n2)
  BY StackGrows DEF HandlersOK
<1>5. \A g \in Task : StackOK(h2s[g], S2, T2, n2)
  BY <1>2, <1>4
<1>6. \A f : TopOK(f, hs, st, S2) => TopOK(f, h2s, st, S2)
  BY <1>3 DEF TopOK
<1>7. \A f : TopOK(f, hs, st, S) => TopOK(f, hs, st, S2)
  BY DEF TopOK
<1>8. ASSUME NEW g \in Task, h2s[g] # <<>> PROVE TopOK(Head(h2s[g]), h2s, st, S2)
  <2>1. CASE g = h
    BY <1>2, <1>6, <1>8, <2>1
  <2>2. CASE g # h
    BY <1>2, <1>6, <1>7, <1>8, <2>2 DEF HandlersOK
  <2>3. QED
    BY <2>1, <2>2
<1>9. BarrierOK(h2s, st)
  BY <1>3 DEF HandlersOK, BarrierOK
<1>10. HandlersOK(h2s, st, S2, T2, n2)
  BY <1>2, <1>5, <1>8, <1>9 DEF HandlersOK
<1>11. QED
  BY <1>10 DEF h2s

\* A handler that journals a start takes the next step of it.
LEMMA JournalStep ==
  ASSUME NEW S, NEW T, NEW n \in Nat, NEW S2, NEW T2, NEW n2 \in Nat,
         S \subseteq S2, T \subseteq T2, n <= n2, NEW hs, NEW st, HandlersOK(hs, st, S, T, n),
         NEW h \in Task, hs[h] # <<>>, Head(hs[h]).do \in Journaling,
         NEW s2, StackOK(s2, S2, T2, n2), s2 # <<>>, Head(s2).do \in Journaling,
         Head(s2).call = Head(hs[h]).call
  PROVE  HandlersOK([hs EXCEPT ![h] = s2], st, S2, T2, n2)
<1> DEFINE h2s == [hs EXCEPT ![h] = s2]
<1>1. hs \in [Task -> Seq(FrameRecord)] /\ s2 \in Seq(FrameRecord)
  BY DEF HandlersOK, StackOK
<1>2. h2s \in [Task -> Seq(FrameRecord)] /\ h2s[h] = s2 /\ \A g \in Task : g # h => h2s[g] = hs[g]
  BY <1>1
<1> HIDE DEF h2s
<1>3. \A g, c : Journals(hs, g, c) => Journals(h2s, g, c)
  BY <1>2 DEF Journals
<1>4. \A g \in Task : StackOK(hs[g], S2, T2, n2)
  BY StackGrows DEF HandlersOK
<1>5. \A g \in Task : StackOK(h2s[g], S2, T2, n2)
  BY <1>2, <1>4
<1>6. \A f : TopOK(f, hs, st, S) => TopOK(f, h2s, st, S2)
  BY <1>3 DEF TopOK
<1>7. TopOK(Head(s2), h2s, st, S2)
  BY DEF TopOK, Journaling
<1>8. \A g \in Task : h2s[g] # <<>> => TopOK(Head(h2s[g]), h2s, st, S2)
  BY <1>2, <1>6, <1>7 DEF HandlersOK
<1>9. BarrierOK(h2s, st)
  BY <1>3 DEF HandlersOK, BarrierOK
<1>10. HandlersOK(h2s, st, S2, T2, n2)
  BY <1>2, <1>5, <1>8, <1>9 DEF HandlersOK
<1>11. QED
  BY <1>10 DEF h2s

\* A request of a call raises the barrier; the one it replaces is still waited for
\* by those that do.
LEMMA RaiseBarrier ==
  ASSUME NEW S, NEW T, NEW n \in Nat, NEW hs, NEW st, HandlersOK(hs, st, S, T, n),
         NEW h \in Handler, hs[h] = <<>>, NEW c \in Call,
         NEW f, FrameOK(f, S, T, n), f.do \in Journaling, f.call = c
  PROVE  HandlersOK([hs EXCEPT ![h] = <<f>>], [st EXCEPT ![c] = h], S, T, n)
<1> DEFINE h2s == [hs EXCEPT ![h] = <<f>>]
           st2 == [st EXCEPT ![c] = h]
<1>0. h \in Task /\ h # None
  BY CallTypes DEF Task
<1>1. hs \in [Task -> Seq(FrameRecord)] /\ st \in [Call -> Handler \cup {None}]
  BY DEF HandlersOK, BarrierOK
<1>2. StackOK(<<f>>, S, T, n) /\ <<f>> # <<>> /\ Head(<<f>>) = f /\ <<f>> \in Seq(FrameRecord)
  BY StackNew DEF StackOK
<1>3. h2s \in [Task -> Seq(FrameRecord)] /\ h2s[h] = <<f>> /\ \A g \in Task : g # h => h2s[g] = hs[g]
  BY <1>0, <1>1, <1>2
<1>4. st2 \in [Call -> Handler \cup {None}] /\ st2[c] = h /\ \A x \in Call : x # c => st2[x] = st[x]
  BY <1>1
<1> HIDE DEF h2s, st2
<1>5. \A g, x : Journals(hs, g, x) => Journals(h2s, g, x)
  BY <1>3 DEF Journals
<1>6. Journals(h2s, h, c)
  BY <1>0, <1>2, <1>3 DEF Journals
<1>7. \A g \in Task : StackOK(h2s[g], S, T, n)
  BY <1>2, <1>3 DEF HandlersOK
<1>8. ASSUME NEW g \in Task, h2s[g] # <<>> PROVE TopOK(Head(h2s[g]), h2s, st2, S)
  <2>1. CASE g = h
    BY <1>2, <1>3, <2>1 DEF TopOK, Journaling
  <2>2. CASE g # h
    <3>1. TopOK(Head(hs[g]), hs, st, S) /\ h2s[g] = hs[g]
      BY <1>3, <1>8, <2>2 DEF HandlersOK
    <3>2. hs[g] \in Seq(FrameRecord) /\ hs[g] # <<>> /\ StackOK(hs[g], S, T, n)
      BY <1>1, <1>8, <3>1 DEF HandlersOK
    <3>3. Head(hs[g]).do = "begin" => Head(hs[g]).call \in Call
      BY <3>2, StackTops DEF FrameOK, Sweeps, Serves, Looking
    <3>4. QED
      BY <1>0, <1>4, <1>5, <3>1, <3>3 DEF TopOK
  <2>3. QED
    BY <2>1, <2>2
<1>9. BarrierOK(h2s, st2)
  BY <1>4, <1>5, <1>6 DEF HandlersOK, BarrierOK
<1>10. HandlersOK(h2s, st2, S, T, n)
  BY <1>3, <1>7, <1>8, <1>9 DEF HandlersOK
<1>11. QED
  BY <1>10 DEF h2s, st2

-----------------------------------------------------------------------------
(* Frames.                                                                 *)

\* The fields of a new frame.
LEMMA FrameFields ==
  ASSUME NEW do \in FrameType
  PROVE  /\ Frame(do) \in FrameRecord /\ Frame(do).do = do /\ Frame(do).in = "none"
         /\ Frame(do).for = "none" /\ Frame(do).call = None /\ Frame(do).seq = 0
         /\ Frame(do).todo = {}
BY DEF Frame, FrameRecord, Why

\* Frames that only have to be begun.
LEMMA FrameNew ==
  ASSUME NEW S, NEW T, NEW n \in Nat
  PROVE  /\ \A do \in {"presence", "feedback", "select"} :
              FrameOK(Frame(do), S, T, n) /\ Frame(do).do = do
         /\ FrameOK([Frame("head") EXCEPT !.in = "sweep"], S, T, n)
         /\ [Frame("head") EXCEPT !.in = "sweep"].do = "head"
         /\ \A c \in Call : /\ FrameOK([Frame("look") EXCEPT !.call = c], S, T, n)
                            /\ [Frame("look") EXCEPT !.call = c].do = "look"
                            /\ [Frame("look") EXCEPT !.call = c].call = c
<1>1. \A do \in {"presence", "feedback", "select"} :
        FrameOK(Frame(do), S, T, n) /\ Frame(do).do = do
  <2>1. \A do \in {"presence", "feedback", "select"} : do \in FrameType
    BY DEF FrameType
  <2>2. QED
    BY <2>1, FrameFields DEF FrameOK, Journaling, Looking, Settles
<1>3. /\ FrameOK([Frame("head") EXCEPT !.in = "sweep"], S, T, n)
      /\ [Frame("head") EXCEPT !.in = "sweep"].do = "head"
  <2> DEFINE f == [Frame("head") EXCEPT !.in = "sweep"]
  <2>1. f \in FrameRecord /\ f.do = "head" /\ f.in = "sweep" /\ f.for = "none" /\ f.seq = 0 /\ f.todo = {}
    BY DEF Frame, FrameRecord, Why, FrameType
  <2> HIDE DEF f
  <2>2. FrameOK(f, S, T, n) /\ f.do = "head"
    BY <2>1 DEF FrameOK, Journaling, Looking, Settles, Sweeps
  <2>3. QED
    BY <2>2 DEF f
<1>4. ASSUME NEW c \in Call
      PROVE  /\ FrameOK([Frame("look") EXCEPT !.call = c], S, T, n)
             /\ [Frame("look") EXCEPT !.call = c].do = "look"
             /\ [Frame("look") EXCEPT !.call = c].call = c
  <2> DEFINE f == [Frame("look") EXCEPT !.call = c]
  <2>1. /\ f \in FrameRecord /\ f.do = "look" /\ f.in = "none" /\ f.for = "none" /\ f.seq = 0
        /\ f.todo = {} /\ f.call = c
    BY DEF Frame, FrameRecord, Why, FrameType
  <2> HIDE DEF f
  <2>2. FrameOK(f, S, T, n) /\ f.do = "look" /\ f.call = c
    BY <2>1 DEF FrameOK, Journaling, Looking, Settles
  <2>3. QED
    BY <2>2 DEF f
<1>5. QED
  BY <1>1, <1>3, <1>4

\* A vessel is called about a call that has a start.
LEMMA MethodOK ==
  ASSUME NEW S, NEW T, NEW n \in Nat, NEW c \in Call, c \in S
  PROVE  /\ FrameOK([Frame("method") EXCEPT !.call = c], S, T, n)
         /\ [Frame("method") EXCEPT !.call = c].do = "method"
<1> DEFINE f == [Frame("method") EXCEPT !.call = c]
<1>1. /\ f \in FrameRecord /\ f.do = "method" /\ f.in = "none" /\ f.for = "none" /\ f.seq = 0
      /\ f.todo = {} /\ f.call = c
  BY DEF Frame, FrameRecord, Why, FrameType
<1> HIDE DEF f
<1>2. FrameOK(f, S, T, n) /\ f.do = "method"
  BY <1>1 DEF FrameOK, Journaling, Looking, Settles
<1>3. QED
  BY <1>2 DEF f

\* The loops over rows, over calls that have a start.
LEMMA LoopOK ==
  ASSUME NEW S, NEW T, NEW n \in Nat, NEW do \in {"abandon", "expire"}, NEW A \in SUBSET Call,
         A \subseteq S, NEW f, f = [Frame(do) EXCEPT !.todo = A]
  PROVE  FrameOK(f, S, T, n) /\ f.do = do
<1>1. f \in FrameRecord /\ f.do = do /\ f.in = "none" /\ f.for = "none" /\ f.seq = 0 /\ f.todo = A
  BY DEF Frame, FrameRecord, Why, FrameType
<1>2. QED
  BY <1>1 DEF FrameOK, Journaling, Looking, Settles

\* Settling a call that has a start.
LEMMA SettlingOK ==
  ASSUME NEW S, NEW T, NEW n \in Nat, NEW for \in {"abandon", "dispatch", "deliver", "retry"},
         NEW c \in Call, c \in S, NEW out \in Outcome
  PROVE  /\ FrameOK(Settling(for, c, out), S, T, n) /\ Settling(for, c, out).do = "begin"
         /\ \A hs, st : TopOK(Settling(for, c, out), hs, st, S)
<1> DEFINE f == Settling(for, c, out)
<1>1. /\ f \in FrameRecord /\ f.do = "begin" /\ f.in = "settle" /\ f.for = for /\ f.seq = 0
      /\ f.todo = {} /\ f.call = c /\ f.out = out
  BY DEF Settling, Frame, FrameRecord, Why, FrameType
<1> HIDE DEF f
<1>2. FrameOK(f, S, T, n) /\ f.do = "begin"
  BY <1>1 DEF FrameOK, Journaling, Looking, Settles, Serves
<1>3. \A hs, st : TopOK(f, hs, st, S)
  BY <1>1 DEF TopOK
<1>4. QED
  BY <1>2, <1>3 DEF f

\* A request about a call, as it arrives.
LEMMA ResolvingOK ==
  ASSUME NEW T, NEW n \in Nat, NEW for \in {"answer", "progress", "cancel", "timeout"},
         NEW c \in Call, NEW out \in Outcome \cup {None}, for # "progress" => out \in Outcome
  PROVE  /\ FrameOK(Resolving(for, c, out), StartedCalls, T, n)
         /\ Resolving(for, c, out).do = "begin"
         /\ \A hs : TopOK(Resolving(for, c, out), hs, starts, StartedCalls)
<1> DEFINE f == Resolving(for, c, out)
<1>1. /\ f \in FrameRecord /\ f.do = "begin" /\ f.in = "resolve" /\ f.for = for /\ f.seq = 0
      /\ f.todo = {} /\ f.call = c /\ f.out = out /\ f.why = Came(c)
  BY DEF Resolving, Frame, FrameRecord, FrameType, Why, Came
<1> HIDE DEF f
<1>2. FrameOK(f, StartedCalls, T, n) /\ f.do = "begin"
  BY <1>1 DEF FrameOK, Journaling, Looking, Settles, Serves
<1>3. c \in StartedCalls \/ f.why # "no" \/ starts[c] # None
  BY <1>1 DEF StartedCalls, Came
<1>4. \A hs : TopOK(f, hs, starts, StartedCalls)
  BY <1>1, <1>3 DEF TopOK
<1>5. QED
  BY <1>2, <1>4 DEF f

\* A method looks at the table once the barrier is passed, or after the log has
\* been read: it settles, waits for another start, or asks the store.
Passed(f, S) ==
  /\ f.do \in {"begin", "wait", "apply"} /\ Serves(f, S) /\ (f.call \in S \/ f.why # "no")

\* The frames it goes on with.
Onward(fs, S, T, n, st) ==
  \E g : /\ fs = <<g>> \/ fs = <<g, Frame("feedback")>>
         /\ FrameOK(g, S, T, n) /\ g.do \in {"wait", "root", "lookup"}
         /\ g.do = "wait" => g.call \in Call /\ st[g.call] # None /\ g.on = st[g.call]

\* What a method does after its peek found the call (resolveSubmitterForCall,
\* settleCall, cancelMethodCall) goes on soundly.
LEMMA FoundOK ==
  ASSUME NEW S, NEW T, NEW n \in Nat, NEW st \in [Call -> Handler \cup {None}],
         NEW f, FrameOK(f, S, T, n), Passed(f, S), f.call \in S, NEW table
  PROVE  Onward(Found(f, table, st), S, T, n, st)
<1> DEFINE settle == [f EXCEPT !.in = "settle", !.on = None, !.seq = 0, !.seen = None]
           waiting == [settle EXCEPT !.do = "wait", !.on = st[f.call]]
           rooting == [settle EXCEPT !.do = "root"]
           going == [f EXCEPT !.do = "root", !.on = None, !.seq = 0, !.seen = None]
<1>1. /\ f \in FrameRecord /\ f.call \in Call /\ f.todo \subseteq S /\ f.in \in {"resolve", "settle"}
      /\ f.for # "progress" => f.out \in Outcome
      /\ f.for = "deliver" => f.in = "settle"
  BY DEF FrameOK, Passed, Serves, Looking
<1>2. CASE f.in = "settle" \/ f.for = "progress"
  <2>1. Found(f, table, st) = <<going>>
    BY <1>2 DEF Found
  <2>2. /\ going \in FrameRecord /\ going.do = "root" /\ going.in = f.in /\ going.for = f.for
        /\ going.seq = 0 /\ going.todo = f.todo /\ going.call = f.call /\ going.out = f.out
    BY <1>1 DEF FrameRecord, FrameType
  <2> HIDE DEF going
  <2>3. FrameOK(going, S, T, n)
    BY <1>1, <2>2 DEF FrameOK, Journaling, Looking, Settles, Serves
  <2>4. QED
    BY <2>1, <2>2, <2>3 DEF Onward
<1>3. CASE ~(f.in = "settle" \/ f.for = "progress")
  <2>1. PICK g : g = (IF st[f.call] # None THEN waiting ELSE rooting)
    OBVIOUS
  <2>2. Found(f, table, st) = <<g>> \/ Found(f, table, st) = <<g, Frame("feedback")>>
    BY <1>3, <2>1 DEF Found
  <2>3. /\ waiting \in FrameRecord /\ waiting.do = "wait" /\ waiting.in = "settle"
        /\ waiting.for = f.for /\ waiting.seq = 0 /\ waiting.todo = f.todo
        /\ waiting.call = f.call /\ waiting.out = f.out /\ waiting.on = st[f.call]
    BY <1>1 DEF FrameRecord, FrameType, Task
  <2>4. /\ rooting \in FrameRecord /\ rooting.do = "root" /\ rooting.in = "settle"
        /\ rooting.for = f.for /\ rooting.seq = 0 /\ rooting.todo = f.todo
        /\ rooting.call = f.call /\ rooting.out = f.out
    BY <1>1 DEF FrameRecord, FrameType
  <2> HIDE DEF waiting, rooting, settle
  <2>5. FrameOK(waiting, S, T, n)
    BY <1>1, <1>3, <2>3 DEF FrameOK, Journaling, Looking, Settles, Serves
  <2>6. FrameOK(rooting, S, T, n)
    BY <1>1, <1>3, <2>4 DEF FrameOK, Journaling, Looking, Settles, Serves
  <2>7. /\ FrameOK(g, S, T, n) /\ g.do \in {"wait", "root"}
        /\ g.do = "wait" => g.call \in Call /\ st[g.call] # None /\ g.on = st[g.call]
    BY <1>1, <2>1, <2>3, <2>4, <2>5, <2>6
  <2>8. QED
    BY <2>2, <2>7 DEF Onward
<1>4. QED
  BY <1>2, <1>3

\* So does what it does after a peek, whatever the table says.
LEMMA PeekOK ==
  ASSUME NEW S, NEW T, NEW n \in Nat, NEW st \in [Call -> Handler \cup {None}],
         NEW f, FrameOK(f, S, T, n), Passed(f, S), NEW table, TableOK(table, S)
  PROVE  Onward(Peek(f, table, st), S, T, n, st)
<1>1. CASE table[f.call] # "none"
  <2>1. f.call \in S
    BY <1>1 DEF TableOK, Passed, Serves
  <2>2. QED
    BY <1>1, <2>1, FoundOK DEF Peek
<1>2. CASE table[f.call] = "none"
  <2> DEFINE g == [f EXCEPT !.do = "lookup", !.on = None]
  <2>1. Peek(f, table, st) = <<g>>
    BY <1>2 DEF Peek
  <2>2. /\ f \in FrameRecord /\ f.call \in Call /\ f.todo \subseteq S
        /\ f.in \in {"resolve", "settle"} /\ f.seq <= n
        /\ f.for # "progress" => f.out \in Outcome
        /\ f.for = "deliver" => f.in = "settle"
        /\ f.in = "settle" => f.call \in S
        /\ f.call \in S \/ f.why # "no"
    BY DEF FrameOK, Passed, Serves, Looking
  <2>3. /\ g \in FrameRecord /\ g.do = "lookup" /\ g.in = f.in /\ g.for = f.for
        /\ g.seq = f.seq /\ g.todo = f.todo /\ g.call = f.call /\ g.out = f.out /\ g.why = f.why
    BY <2>2 DEF FrameRecord, FrameType
  <2> HIDE DEF g
  <2>4. FrameOK(g, S, T, n)
    BY <2>2, <2>3 DEF FrameOK, Journaling, Looking, Settles, Serves
  <2>5. QED
    BY <2>1, <2>3, <2>4 DEF Onward
<1>3. QED
  BY <1>1, <1>2

\* The stack they are put on.
GoesOn(r, S, T, n, st) ==
  /\ StackOK(r, S, T, n) /\ r # <<>> /\ Head(r).do \in {"wait", "root", "lookup"}
  /\ Head(r).do = "wait" =>
       Head(r).call \in Call /\ st[Head(r).call] # None /\ Head(r).on = st[Head(r).call]

\* Frames that go on soundly may be put on a stack whose first frame rests.
LEMMA StackOnward ==
  ASSUME NEW S, NEW T, NEW n \in Nat, NEW st, NEW s, StackOK(s, S, T, n),
         s # <<>> => Head(s).do \in Resting, NEW fs, Onward(fs, S, T, n, st)
  PROVE  GoesOn(fs \o s, S, T, n, st)
<1>1. PICK g : /\ fs = <<g>> \/ fs = <<g, Frame("feedback")>>
               /\ FrameOK(g, S, T, n) /\ g.do \in {"wait", "root", "lookup"}
               /\ g.do = "wait" => g.call \in Call /\ st[g.call] # None /\ g.on = st[g.call]
  BY DEF Onward
<1>2. FrameOK(Frame("feedback"), S, T, n) /\ Frame("feedback").do \in Resting
  BY FrameNew DEF Resting
<1>3. CASE fs = <<g>>
  <2>1. StackOK(<<g>> \o s, S, T, n) /\ <<g>> \o s # <<>> /\ Head(<<g>> \o s) = g
    BY <1>1, StackPush
  <2>2. QED
    BY <1>1, <1>3, <2>1 DEF GoesOn
<1>4. CASE fs = <<g, Frame("feedback")>>
  <2>1. /\ StackOK(<<g, Frame("feedback")>> \o s, S, T, n)
        /\ <<g, Frame("feedback")>> \o s # <<>> /\ Head(<<g, Frame("feedback")>> \o s) = g
    BY <1>1, <1>2, StackPushTwo
  <2>2. QED
    BY <1>1, <1>4, <2>1 DEF GoesOn
<1>5. QED
  BY <1>1, <1>3, <1>4

-----------------------------------------------------------------------------
(* The barrier is lifted.                                                  *)

\* A frame that depends on no other handler.
FreeTop(f, S) == f.do # "wait" /\ (f.do = "begin" => f.call \in S \/ f.why # "no")

\* Noting how a request came past the barrier changes nothing else of its frame.
LEMMA WhyNoted ==
  ASSUME NEW w \in FrameRecord, NEW y \in Why,
         NEW f, f = [w EXCEPT !.why = y]
  PROVE  /\ f \in FrameRecord /\ f.do = w.do /\ f.in = w.in /\ f.for = w.for /\ f.call = w.call
         /\ f.out = w.out /\ f.seq = w.seq /\ f.todo = w.todo /\ f.why = y
<1>1. f \in FrameRecord
  BY DEF FrameRecord
<1>2. /\ f.do = w.do /\ f.in = w.in /\ f.for = w.for /\ f.call = w.call
      /\ f.out = w.out /\ f.seq = w.seq /\ f.todo = w.todo /\ f.why = y
  BY DEF FrameRecord
<1>3. QED
  BY <1>1, <1>2

\* The handler that waits for h looks at the table, and goes on.
LEMMA WaiterGoesOn ==
  ASSUME NEW st2 \in [Call -> Handler \cup {None}], Len(log) \in Nat,
         NEW table, TableOK(table, StartedCalls),
         NEW s, StackOK(s, StartedCalls, SettledCalls, Len(log)), s # <<>>, Head(s).do = "wait",
         NEW r, r = Peek([Head(s) EXCEPT !.why = LetGo(Head(s).call, st2)], table, st2) \o Tail(s)
  PROVE  GoesOn(r, StartedCalls, SettledCalls, Len(log), st2)
<1> DEFINE S == StartedCalls
           T == SettledCalls
           n == Len(log)
           w == Head(s)
           f == [w EXCEPT !.why = LetGo(w.call, st2)]
<1>1. /\ FrameOK(w, S, T, n) /\ StackOK(Tail(s), S, T, n)
      /\ Tail(s) # <<>> => Head(Tail(s)).do \in Resting
  BY StackTops
<1>2. /\ w \in FrameRecord /\ w.do = "wait" /\ w.todo \subseteq S /\ w.seq <= n /\ Serves(w, S)
      /\ w.in = "settle" => w.call \in S
      /\ w.for = "deliver" => w.in = "settle"
  BY <1>1 DEF FrameOK, Looking, Settles, Sweeps
<1>3. /\ f \in FrameRecord /\ f.do = "wait" /\ f.in = w.in /\ f.for = w.for /\ f.call = w.call
      /\ f.out = w.out /\ f.seq = w.seq /\ f.todo = w.todo /\ f.why = LetGo(w.call, st2)
  <2>1. LetGo(w.call, st2) \in Why
    BY DEF LetGo, Why
  <2>2. QED
    BY <1>2, <2>1, WhyNoted
<1>4. w.call \in Call /\ (f.call \in S \/ f.why # "no")
  BY <1>2, <1>3 DEF Serves, StartedCalls, LetGo
<1>5. r = Peek(f, table, st2) \o Tail(s)
  OBVIOUS
<1>6. Len(log) \in Nat /\ TableOK(table, S)
  OBVIOUS
<1> HIDE DEF f, S, w
<1>8. Serves(f, S)
  BY <1>2, <1>3, <1>4 DEF Serves
<1>9. FrameOK(f, S, T, n)
  BY <1>2, <1>3, <1>8 DEF FrameOK, Journaling
<1>10. Passed(f, S)
  BY <1>3, <1>4, <1>8 DEF Passed
<1> HIDE DEF T, n
<1>11. n \in Nat
  BY <1>6 DEF n
<1>12. Onward(Peek(f, table, st2), S, T, n, st2)
  BY <1>6, <1>9, <1>10, <1>11, PeekOK
<1>13. GoesOn(r, S, T, n, st2)
  BY <1>1, <1>5, <1>11, <1>12, StackOnward
<1>14. QED
  BY <1>13 DEF S, T, n

\* A start is done or has failed: h goes on with rest, and who waited for it looks
\* again.  A handler that journals no start was waited for by nobody.
LEMMA LiftBarrier ==
  ASSUME HandlersOK(handlers, starts, StartedCalls, SettledCalls, Len(log)), Len(log) \in Nat,
         Quiescent, NEW h \in Task,
         NEW rest, StackOK(rest, StartedCalls, SettledCalls, Len(log)),
         rest # <<>> => FreeTop(Head(rest), StartedCalls),
         NEW table, TableOK(table, StartedCalls)
  PROVE  HandlersOK(Lifted(h, rest, table, Cleared(h)), Cleared(h),
                    StartedCalls, SettledCalls, Len(log))
<1> DEFINE S == StartedCalls
           T == SettledCalls
           n == Len(log)
           st2 == Cleared(h)
           h2s == Lifted(h, rest, table, st2)
           waiter(g) == g # h /\ handlers[g] # <<>> /\ Head(handlers[g]).do = "wait"
                        /\ Head(handlers[g]).on = h
<1>1. handlers \in [Task -> Seq(FrameRecord)] /\ starts \in [Call -> Handler \cup {None}]
  BY DEF HandlersOK, BarrierOK
<1>2. /\ st2 \in [Call -> Handler \cup {None}]
      /\ \A c \in Call : st2[c] # None => st2[c] = starts[c] /\ starts[c] # h
  BY <1>1 DEF Cleared
<1>3. /\ h2s = [g \in Task |-> h2s[g]]
      /\ h2s[h] = rest
      /\ \A g \in Task : g # h /\ ~waiter(g) => h2s[g] = handlers[g]
      /\ \A g \in Task : waiter(g) =>
           h2s[g] = Peek([Head(handlers[g]) EXCEPT !.why = LetGo(Head(handlers[g]).call, st2)],
                         table, st2) \o Tail(handlers[g])
  BY DEF Lifted, Waits, Idle, Top
<1> HIDE DEF st2, h2s
<1>4. ASSUME NEW g \in Task, waiter(g)
      PROVE  GoesOn(h2s[g], S, T, n, st2)
  <2>1. StackOK(handlers[g], StartedCalls, SettledCalls, Len(log))
    BY DEF HandlersOK
  <2>2. QED
    BY <1>2, <1>3, <1>4, <2>1, WaiterGoesOn
<1>5. \A g \in Task : StackOK(h2s[g], S, T, n)
  BY <1>3, <1>4 DEF HandlersOK, GoesOn
<1>6. h2s \in [Task -> Seq(FrameRecord)]
  BY <1>3, <1>5 DEF StackOK
<1>7. ASSUME NEW g, NEW c, Journals(handlers, g, c), g # h PROVE Journals(h2s, g, c)
  <2>1. g \in Task /\ ~waiter(g)
    BY <1>7 DEF Journals, Journaling
  <2>2. QED
    BY <1>3, <1>7, <2>1 DEF Journals
<1>8. \A c \in Call : st2[c] # None => Journals(h2s, st2[c], c)
  BY <1>2, <1>7 DEF HandlersOK, BarrierOK
<1>9. ASSUME NEW g \in Task, h2s[g] # <<>> PROVE TopOK(Head(h2s[g]), h2s, st2, S)
  <2>1. CASE g = h
    BY <1>3, <1>9, <2>1 DEF TopOK, FreeTop
  <2>2. CASE waiter(g)
    BY <1>4, <1>8, <2>2 DEF TopOK, GoesOn
  <2>3. CASE g # h /\ ~waiter(g)
    <3>1. h2s[g] = handlers[g] /\ handlers[g] # <<>>
      BY <1>3, <1>9, <2>3
    <3>2. TopOK(Head(handlers[g]), handlers, starts, S)
      BY <3>1 DEF HandlersOK
    <3>3. Head(handlers[g]).do # "begin"
      BY <3>1 DEF Quiescent, Urgent, Idle, Top
    <3>4. Head(handlers[g]).do = "wait" => Head(handlers[g]).on # h
      BY <2>3, <3>1
    <3>5. QED
      BY <1>7, <3>1, <3>2, <3>3, <3>4 DEF TopOK
  <2>4. QED
    BY <2>1, <2>2, <2>3
<1>10. HandlersOK(h2s, st2, S, T, n)
  BY <1>2, <1>5, <1>6, <1>8, <1>9 DEF HandlersOK, BarrierOK
<1>11. QED
  BY <1>10 DEF h2s, st2

-----------------------------------------------------------------------------
(* What the actions have in common.                                        *)

\* The first frame of a handler.
LEMMA TopFacts ==
  ASSUME CallsInv, NEW h \in Task, ~Idle(h)
  PROVE  /\ FrameOK(Top(h), StartedCalls, SettledCalls, Len(log)) /\ Top(h) \in FrameRecord
         /\ TopOK(Top(h), handlers, starts, StartedCalls)
         /\ handlers[h] # <<>> /\ Top(h) = Head(handlers[h])
         /\ StackOK(Tail(handlers[h]), StartedCalls, SettledCalls, Len(log))
         /\ Tail(handlers[h]) # <<>> => Head(Tail(handlers[h])).do \in Resting
<1>1. /\ StackOK(handlers[h], StartedCalls, SettledCalls, Len(log)) /\ handlers[h] # <<>>
      /\ TopOK(Head(handlers[h]), handlers, starts, StartedCalls) /\ Top(h) = Head(handlers[h])
  BY DEF CallsInv, HandlersOK, Idle, Top
<1>2. /\ FrameOK(Head(handlers[h]), StartedCalls, SettledCalls, Len(log))
      /\ StackOK(Tail(handlers[h]), StartedCalls, SettledCalls, Len(log))
      /\ Tail(handlers[h]) # <<>> => Head(Tail(handlers[h])).do \in Resting
  BY <1>1, StackTops
<1>3. Top(h) \in FrameRecord
  BY <1>1, <1>2 DEF FrameOK
<1>4. QED
  BY <1>1, <1>2, <1>3

\* The log, and what may come of it in a step.
Grown(S2, T2, n2) == StartedCalls \subseteq S2 /\ SettledCalls \subseteq T2 /\ Len(log) <= n2

\* What the invariant says of the log, packed for the lemmas on stacks.
LEMMA LogFacts ==
  ASSUME CallsInv
  PROVE  /\ Len(log) \in Nat /\ log \in Seq(Entry) /\ LogOK
         /\ HandlersOK(handlers, starts, StartedCalls, SettledCalls, Len(log))
         /\ handlers \in [Task -> Seq(FrameRecord)]
         /\ Grown(StartedCalls, SettledCalls, Len(log))
<1>1. log \in Seq(Entry)
  BY DEF CallsInv, LogOK
<1>2. Len(log) \in Nat /\ Len(log) <= Len(log)
  BY <1>1
<1>3. QED
  BY <1>1, <1>2 DEF CallsInv, HandlersOK, Grown

\* The calls a log knows of.
LEMMA LogSame ==
  ASSUME log' = log
  PROVE  /\ StartedCalls' = StartedCalls /\ SettledCalls' = SettledCalls
         /\ Len(log') = Len(log) /\ LogStep /\ (LogOK => LogOK')
BY DEF StartedCalls, SettledCalls, IsStarted, IsSettled, At, LogStep, LogOK, Once

\* The first frame of h becomes g; or it leaves two; or it is done.
LEMMA Becomes ==
  ASSUME CallsInv, NEW h \in Task, ~Idle(h), Top(h).do \notin Journaling,
         NEW S2, NEW T2, NEW n2 \in Nat, Grown(S2, T2, n2),
         NEW g, FrameOK(g, S2, T2, n2), TopOK(g, handlers, starts, S2), Replace(h, <<g>>)
  PROVE  HandlersOK(handlers', starts, S2, T2, n2)
<1>1. StackOK(Tail(handlers[h]), S2, T2, n2)
  BY TopFacts, LogFacts, StackGrows DEF Grown
<1> DEFINE s == Tail(handlers[h])
<1>0. StackOK(s, S2, T2, n2) /\ (s # <<>> => Head(s).do \in Resting)
  BY <1>1, TopFacts
<1> HIDE DEF s
<1>2. StackOK(<<g>> \o s, S2, T2, n2) /\ Head(<<g>> \o s) = g /\ <<g>> \o s # <<>>
  BY <1>0, StackPush
<1>3. handlers' = [handlers EXCEPT ![h] = <<g>> \o s]
  BY LogFacts DEF Replace, s
<1>4. QED
  BY <1>2, <1>3, TopFacts, LogFacts, SetStack DEF Grown

\* A task whose top is replaced by two frames keeps the handlers sound.
LEMMA BecomesTwo ==
  ASSUME CallsInv, NEW h \in Task, ~Idle(h), Top(h).do \notin Journaling,
         NEW g, FrameOK(g, StartedCalls, SettledCalls, Len(log)),
         TopOK(g, handlers, starts, StartedCalls),
         NEW d, FrameOK(d, StartedCalls, SettledCalls, Len(log)), d.do \in Resting,
         Replace(h, <<g, d>>)
  PROVE  HandlersOK(handlers', starts, StartedCalls, SettledCalls, Len(log))
<1> DEFINE s == Tail(handlers[h])
<1>0. /\ StackOK(s, StartedCalls, SettledCalls, Len(log))
      /\ s # <<>> => Head(s).do \in Resting
  BY TopFacts
<1> HIDE DEF s
<1>1. /\ StackOK(<<g, d>> \o s, StartedCalls, SettledCalls, Len(log))
      /\ Head(<<g, d>> \o s) = g
  BY <1>0, StackPushTwo
<1>2. handlers' = [handlers EXCEPT ![h] = <<g, d>> \o s]
  BY LogFacts DEF Replace, s
<1>3. Len(log) <= Len(log)
  BY LogFacts
<1>4. QED
  BY <1>1, <1>2, <1>3, TopFacts, LogFacts, SetStack

\* So does one whose top frame returns, also when the log has grown.
LEMMA Returns ==
  ASSUME CallsInv, NEW h \in Task, ~Idle(h), Top(h).do \notin Journaling,
         NEW S2, NEW T2, NEW n2 \in Nat, Grown(S2, T2, n2), Replace(h, <<>>)
  PROVE  HandlersOK(handlers', starts, S2, T2, n2)
<1>1. StackOK(Tail(handlers[h]), S2, T2, n2)
  BY TopFacts, LogFacts, StackGrows DEF Grown
<1>2. handlers[h] \in Seq(FrameRecord) /\ handlers[h] # <<>>
  BY TopFacts, LogFacts
<1>3. <<>> \o Tail(handlers[h]) = Tail(handlers[h])
  BY <1>2
<1>4. handlers' = [handlers EXCEPT ![h] = Tail(handlers[h])]
  BY <1>3, LogFacts DEF Replace
<1>5. Tail(handlers[h]) # <<>> => TopOK(Head(Tail(handlers[h])), handlers, starts, S2)
  BY TopFacts DEF TopOK, Resting
<1>6. QED
  BY <1>1, <1>4, <1>5, TopFacts, LogFacts, SetStack DEF Grown

\* journalCallStart goes on.
LEMMA JournalsOn ==
  ASSUME CallsInv, NEW h \in Task, ~Idle(h), Top(h).do \in Journaling,
         NEW S2, NEW T2, NEW n2 \in Nat, Grown(S2, T2, n2),
         NEW g, FrameOK(g, S2, T2, n2), g.do \in Journaling, g.call = Top(h).call,
         Replace(h, <<g>>)
  PROVE  HandlersOK(handlers', starts, S2, T2, n2)
<1>1. StackOK(Tail(handlers[h]), S2, T2, n2)
  BY TopFacts, LogFacts, StackGrows DEF Grown
<1> DEFINE s == Tail(handlers[h])
<1>0. StackOK(s, S2, T2, n2) /\ (s # <<>> => Head(s).do \in Resting)
  BY <1>1, TopFacts
<1> HIDE DEF s
<1>2. StackOK(<<g>> \o s, S2, T2, n2) /\ Head(<<g>> \o s) = g /\ <<g>> \o s # <<>>
  BY <1>0, StackPush
<1>3. handlers' = [handlers EXCEPT ![h] = <<g>> \o s]
  BY LogFacts DEF Replace, s
<1>4. QED
  BY <1>2, <1>3, TopFacts, LogFacts, JournalStep DEF Grown

\* A step that leaves the log alone.
LEMMA LogAlone ==
  ASSUME CallsInv, log' = log,
         HandlersOK(handlers', starts', StartedCalls, SettledCalls, Len(log)),
         TableOK(rows', StartedCalls), through' \in Nat, through' <= Len(log),
         target' \in {"rpc", "do", "gone"}, late' \subseteq Timed, answered' \subseteq SettledCalls
  PROVE  CallsInv' /\ LogStep
<1>1. /\ LogOK' /\ StartedCalls' = StartedCalls /\ SettledCalls' = SettledCalls
      /\ Len(log') = Len(log) /\ LogStep
  BY LogSame DEF CallsInv
<1>2. RowsOK' /\ WorldOK'
  BY <1>1 DEF RowsOK, WorldOK
<1>3. HandlersOK(handlers', starts', StartedCalls', SettledCalls', Len(log'))
  BY <1>1
<1>4. QED
  BY <1>1, <1>2, <1>3 DEF CallsInv

\* A step that changes nothing but the stacks.
LEMMA StacksOnly ==
  ASSUME CallsInv, UNCHANGED <<store, world>>,
         HandlersOK(handlers', starts', StartedCalls, SettledCalls, Len(log))
  PROVE  CallsInv' /\ LogStep
<1>1. /\ log' = log /\ rows' = rows /\ through' = through /\ target' = target /\ late' = late
      /\ answered' = answered
  BY DEF store, world
<1>2. /\ TableOK(rows, StartedCalls) /\ through \in Nat /\ through <= Len(log)
      /\ target \in {"rpc", "do", "gone"} /\ late \subseteq Timed /\ answered \subseteq SettledCalls
  BY DEF CallsInv, RowsOK, WorldOK
<1>3. QED
  BY <1>1, <1>2, LogAlone

\* A step that adds to the log and changes nothing but the stacks.
LEMMA LogGrows ==
  ASSUME CallsInv, LogStep, UNCHANGED <<rows, through, target, late, answered>>,
         HandlersOK(handlers', starts', StartedCalls', SettledCalls', Len(log'))
  PROVE  CallsInv'
<1>1. /\ LogOK' /\ StartedCalls \subseteq StartedCalls' /\ SettledCalls \subseteq SettledCalls'
      /\ Len(log) \in Nat /\ Len(log') \in Nat /\ Len(log) <= Len(log')
  BY LogKeeps DEF CallsInv
<1>2. through' \in Nat /\ through' <= Len(log')
  BY <1>1 DEF CallsInv, RowsOK
<1>3. TableOK(rows', StartedCalls')
  BY <1>1 DEF CallsInv, RowsOK, TableOK
<1>4. WorldOK'
  BY <1>1 DEF CallsInv, WorldOK
<1>5. QED
  BY <1>1, <1>2, <1>3, <1>4 DEF CallsInv, RowsOK

\* The frame f at another place, with another seq.
Moved(f, g, do, seq) ==
  /\ g \in FrameRecord /\ g.do = do /\ g.seq = seq /\ g.in = f.in /\ g.for = f.for
  /\ g.call = f.call /\ g.out = f.out /\ g.todo = f.todo /\ g.why = f.why /\ g.seen = f.seen

\* A frame that only moves on keeps the call, the caller and the purpose.
LEMMA MovedFields ==
  ASSUME NEW f \in FrameRecord, NEW do \in FrameType, NEW seq \in Nat
  PROVE  /\ Moved(f, [f EXCEPT !.do = do], do, f.seq)
         /\ Moved(f, [f EXCEPT !.do = do, !.seq = seq], do, seq)
BY DEF FrameRecord, Moved

\* The first frame goes on as the table says.
LEMMA ReplaceOnward ==
  ASSUME CallsInv, NEW h \in Task, ~Idle(h), Top(h).do \notin Journaling,
         NEW fs, Onward(fs, StartedCalls, SettledCalls, Len(log), starts), Replace(h, fs)
  PROVE  HandlersOK(handlers', starts, StartedCalls, SettledCalls, Len(log))
<1> DEFINE s == Tail(handlers[h])
<1>0. /\ StackOK(s, StartedCalls, SettledCalls, Len(log))
      /\ s # <<>> => Head(s).do \in Resting
  BY TopFacts
<1> HIDE DEF s
<1>1. GoesOn(fs \o s, StartedCalls, SettledCalls, Len(log), starts)
  BY <1>0, LogFacts, StackOnward
<1>2. handlers' = [handlers EXCEPT ![h] = fs \o s]
  BY LogFacts DEF Replace, s
<1>3. /\ StackOK(fs \o s, StartedCalls, SettledCalls, Len(log))
      /\ TopOK(Head(fs \o s), handlers, starts, StartedCalls)
  BY <1>1, LogFacts DEF GoesOn, TopOK, HandlersOK, BarrierOK
<1>4. Len(log) <= Len(log)
  BY LogFacts
<1>5. QED
  BY <1>2, <1>3, <1>4, TopFacts, LogFacts, SetStack

-----------------------------------------------------------------------------
(* The actions, one by one.  Those of code that runs at once.              *)

\* The begin of settleCall, resolveSubmitterForCall and cancelMethodCall.
LEMMA BeginKeeps ==
  ASSUME CallsInv, NEW h \in Task, Waits(h, "begin"), Begin(h)
  PROVE  HandlersOK(handlers', starts, StartedCalls, SettledCalls, Len(log))
<1> DEFINE f == Top(h)
<1>0. ~Idle(h) /\ f.do = "begin" /\ f.do \notin Journaling
  BY DEF Waits, Journaling
<1>1. /\ FrameOK(f, StartedCalls, SettledCalls, Len(log)) /\ f \in FrameRecord
      /\ TopOK(f, handlers, starts, StartedCalls)
      /\ starts \in [Call -> Handler \cup {None}] /\ BarrierOK(handlers, starts)
      /\ TableOK(rows, StartedCalls) /\ Len(log) \in Nat
  BY <1>0, TopFacts, LogFacts DEF CallsInv, HandlersOK, BarrierOK, RowsOK
<1>2. Serves(f, StartedCalls) /\ f.call \in Call
  BY <1>0, <1>1 DEF FrameOK, Looking, Sweeps, Serves
<1>3. CASE starts[f.call] # None
  <2> DEFINE g == [f EXCEPT !.do = "wait", !.on = starts[f.call]]
  <2>1. Replace(h, <<g>>)
    BY <1>3 DEF Begin
  <2>2. /\ g \in FrameRecord /\ g.do = "wait" /\ g.seq = f.seq /\ g.in = f.in /\ g.for = f.for
        /\ g.call = f.call /\ g.out = f.out /\ g.todo = f.todo /\ g.on = starts[f.call]
    BY <1>1, <1>2 DEF FrameRecord, FrameType, Task
  <2> HIDE DEF g, f
  <2>3. FrameOK(g, StartedCalls, SettledCalls, Len(log))
    BY <1>0, <1>1, <1>2, <2>2 DEF FrameOK, Journaling, Looking, Serves
  <2>4. TopOK(g, handlers, starts, StartedCalls)
    BY <1>1, <1>2, <1>3, <2>2 DEF TopOK, BarrierOK
  <2>5. QED
    BY <1>0, <2>1, <2>3, <2>4, LogFacts, Becomes DEF f
<1>4. CASE starts[f.call] = None
  <2>1. Replace(h, Peek(f, rows, starts))
    BY <1>4 DEF Begin
  <2>2. Passed(f, StartedCalls)
    BY <1>0, <1>1, <1>2, <1>4 DEF Passed, TopOK
  <2>3. Onward(Peek(f, rows, starts), StartedCalls, SettledCalls, Len(log), starts)
    BY <1>1, <2>2, PeekOK
  <2>4. QED
    BY <1>0, <2>1, <2>3, ReplaceOnward
<1>5. QED
  BY <1>3, <1>4

\* The loops over rows.
LEMMA IterateKeeps ==
  ASSUME CallsInv, NEW h \in Task, ~Idle(h), Top(h).do \in {"abandon", "expire"}, Iterate(h)
  PROVE  HandlersOK(handlers', starts, StartedCalls, SettledCalls, Len(log))
<1> DEFINE f == Top(h)
<1>0. f.do \in {"abandon", "expire"} /\ f.do \notin Journaling
  BY DEF Journaling
<1>1. /\ FrameOK(f, StartedCalls, SettledCalls, Len(log)) /\ f \in FrameRecord /\ Len(log) \in Nat
      /\ f.todo \subseteq StartedCalls /\ f.todo \subseteq Call
  BY TopFacts, LogFacts DEF FrameOK, StartedCalls
<1>2. CASE f.todo = {}
  BY <1>0, <1>2, LogFacts, Returns DEF Iterate
<1>3. CASE f.todo # {}
  <2>1. PICK c \in f.todo :
          Replace(h, <<IF f.do = "abandon" THEN Settling("abandon", c, "abandoned")
                       ELSE Resolving("timeout", c, "cancelled"),
                       [f EXCEPT !.todo = @ \ {c}]>>)
    BY <1>3 DEF Iterate
  <2>2. PICK g : g = (IF f.do = "abandon" THEN Settling("abandon", c, "abandoned")
                      ELSE Resolving("timeout", c, "cancelled"))
    OBVIOUS
  <2>3. c \in Call /\ c \in StartedCalls /\ "abandoned" \in Outcome /\ "cancelled" \in Outcome
    BY <1>1 DEF Outcome
  <2>4. /\ FrameOK(g, StartedCalls, SettledCalls, Len(log))
        /\ TopOK(g, handlers, starts, StartedCalls)
    <3>1. CASE f.do = "abandon"
      BY <1>1, <2>2, <2>3, <3>1, SettlingOK
    <3>2. CASE f.do # "abandon"
      BY <1>1, <2>2, <2>3, <3>2, ResolvingOK
    <3>3. QED
      BY <3>1, <3>2
  <2> DEFINE d == [f EXCEPT !.todo = @ \ {c}]
  <2>5. /\ d \in FrameRecord /\ d.do = f.do /\ d.in = f.in /\ d.for = f.for /\ d.call = f.call
        /\ d.seq = f.seq /\ d.todo = f.todo \ {c}
    BY <1>1 DEF FrameRecord
  <2>6. Replace(h, <<g, d>>)
    BY <2>1, <2>2
  <2> HIDE DEF d
  <2>7. FrameOK(d, StartedCalls, SettledCalls, Len(log)) /\ d.do \in Resting
    BY <1>0, <1>1, <2>5 DEF FrameOK, Resting, Looking, Settles
  <2>8. QED
    BY <1>0, <2>4, <2>6, <2>7, BecomesTwo
<1>4. QED
  BY <1>2, <1>3

\* timeOutExpired selects the next call that is late.
LEMMA SelectKeeps ==
  ASSUME CallsInv, NEW h \in Task, Waits(h, "select"), SelectExpired(h)
  PROVE  HandlersOK(handlers', starts, StartedCalls, SettledCalls, Len(log))
<1> DEFINE A == {c \in late : rows[c] = "timed"}
           g == [Frame("expire") EXCEPT !.todo = A]
<1>1. A \in SUBSET Call /\ A \subseteq StartedCalls
  BY CallTypes DEF CallsInv, WorldOK, RowsOK, TableOK
<1>2. Replace(h, <<g>>)
  BY DEF SelectExpired
<1>3. FrameOK(g, StartedCalls, SettledCalls, Len(log)) /\ g.do = "expire"
  <2> HIDE DEF A
  <2>1. PICK f : f = [Frame("expire") EXCEPT !.todo = A]
    OBVIOUS
  <2>2. FrameOK(f, StartedCalls, SettledCalls, Len(log)) /\ f.do = "expire"
    <3>1. Len(log) \in Nat /\ "expire" \in {"abandon", "expire"}
      BY LogFacts
    <3>2. QED
      BY ONLY <1>1, <2>1, <3>1, LoopOK, Zenon
  <2>3. QED
    BY <2>1, <2>2
<1> HIDE DEF g
<1>4. TopOK(g, handlers, starts, StartedCalls)
  BY <1>3 DEF TopOK
<1>5. ~Idle(h) /\ Top(h).do \notin Journaling
  BY DEF Waits, Journaling
<1>6. QED
  BY <1>2, <1>3, <1>4, <1>5, LogFacts, Becomes

\* Code between two awaits keeps the invariant.
LEMMA AtOnceKeeps ==
  ASSUME CallsInv, NEW h \in Task, AtOnce(h)
  PROVE  CallsInv' /\ LogStep
<1>1. ~Idle(h) /\ starts' = starts /\ UNCHANGED <<store, world>>
  BY DEF AtOnce, Urgent
<1>2. HandlersOK(handlers', starts, StartedCalls, SettledCalls, Len(log))
  BY <1>1, BeginKeeps, IterateKeeps, SelectKeeps DEF AtOnce, Waits
<1>3. QED
  BY <1>1, <1>2, StacksOnly

-----------------------------------------------------------------------------
(* callMethod.                                                             *)

\* The end of the log: where an event was found, or lands.
LEMMA SeqOfBound ==
  ASSUME log \in Seq(Entry), NEW kind, NEW c
  PROVE  /\ SeqOf(kind, c) \in Nat /\ SeqOf(kind, c) <= Len(log) + 1 /\ Len(log) \in Nat
         /\ At(kind, c) # {} => SeqOf(kind, c) <= Len(log)
<1>1. Len(log) \in Nat /\ At(kind, c) \subseteq 1..Len(log)
  BY DEF At
<1>2. CASE At(kind, c) = {}
  BY <1>1, <1>2 DEF SeqOf
<1>3. CASE At(kind, c) # {}
  <2>1. SeqOf(kind, c) \in At(kind, c)
    BY <1>3 DEF SeqOf
  <2>2. SeqOf(kind, c) \in 1..Len(log)
    BY <1>1, <2>1
  <2>3. QED
    BY <1>1, <2>2
<1>4. QED
  BY <1>2, <1>3

\* The store is asked for a terminal.
LEMMA LookForTerminalKeeps ==
  ASSUME CallsInv, NEW h \in Task, LookForTerminal(h) \/ RecheckTerminal(h)
  PROVE  CallsInv' /\ LogStep
<1> DEFINE f == Top(h)
<1>1. /\ ~Idle(h) /\ f.do \in {"look", "recheck"} /\ f.do \in Journaling
      /\ starts' = starts /\ UNCHANGED <<store, world>>
  BY DEF LookForTerminal, RecheckTerminal, Waits, Journaling
<1>2. FrameOK(f, StartedCalls, SettledCalls, Len(log)) /\ f \in FrameRecord /\ Len(log) \in Nat
  BY <1>1, TopFacts, LogFacts
<1>3. PICK do \in {"drop", "start", "insert"} :
        /\ Replace(h, <<[f EXCEPT !.do = do]>>) /\ (do = "insert" => f.do = "recheck")
  BY DEF LookForTerminal, RecheckTerminal, Waits, Goto
<1>4. do \in FrameType /\ f.seq \in Nat
  BY <1>2 DEF FrameType, FrameRecord
<1> DEFINE g == [f EXCEPT !.do = do]
<1>5. Moved(f, g, do, f.seq)
  BY <1>2, <1>4, MovedFields
<1>6. Replace(h, <<g>>)
  BY <1>3
<1> HIDE DEF g
<1>7. /\ FrameOK(g, StartedCalls, SettledCalls, Len(log)) /\ g.do \in Journaling
      /\ g.call = f.call
  BY <1>1, <1>2, <1>3, <1>5 DEF Moved, FrameOK, Journaling, Looking, Settles
<1>8. HandlersOK(handlers', starts, StartedCalls, SettledCalls, Len(log))
  BY <1>1, <1>6, <1>7, LogFacts, JournalsOn
<1>9. QED
  BY <1>1, <1>8, StacksOnly

\* A start is appended, unless it is there already.
LEMMA AppendStartedKeeps ==
  ASSUME CallsInv, NEW h \in Task, AppendStarted(h)
  PROVE  CallsInv' /\ LogStep
<1>0. PICK c : c = Top(h).call
  OBVIOUS
<1> DEFINE f == Top(h)
           q == SeqOf("started", c)
           g == [f EXCEPT !.do = "recheck", !.seq = q]
<1>1. /\ ~Idle(h) /\ f.do = "start" /\ f.do \in Journaling /\ starts' = starts
      /\ UNCHANGED <<rows, through, target, late, answered>>
      /\ log' = (IF At("started", c) = {} THEN Append(log, Started(c, "call")) ELSE log)
      /\ Replace(h, <<g>>)
  BY <1>0 DEF AppendStarted, AppendOnce, Started, Waits, Journaling, world
<1>2. /\ FrameOK(f, StartedCalls, SettledCalls, Len(log)) /\ f \in FrameRecord
      /\ Len(log) \in Nat /\ log \in Seq(Entry) /\ LogOK
  BY <1>1, TopFacts, LogFacts
<1>3. c \in Call
  BY <1>0, <1>1, <1>2 DEF FrameOK
<1>4. LogStep
  BY <1>1, <1>3 DEF LogStep, StartStep, IsStarted
<1>5. /\ Grown(StartedCalls', SettledCalls', Len(log')) /\ Len(log') \in Nat
  BY <1>2, <1>4, LogKeeps DEF Grown
<1>6. c \in StartedCalls' /\ q \in Nat /\ q <= Len(log')
  <2>0. q \in Nat /\ q <= Len(log) + 1 /\ (At("started", c) # {} => q <= Len(log))
    BY <1>2, SeqOfBound
  <2>1. CASE At("started", c) = {}
    <3>1. /\ log' = Append(log, Started(c, "call")) /\ Started(c, "call") \in Entry
          /\ Started(c, "call").kind = "started" /\ Started(c, "call").call = c
      BY <1>1, <1>3, <2>1, EventTypes
    <3>2. At("started", c)' = At("started", c) \cup {Len(log) + 1} /\ Len(log') = Len(log) + 1
      BY <1>2, <3>1, AppendAt
    <3>3. QED
      BY <1>3, <2>0, <3>2 DEF StartedCalls, IsStarted
  <2>2. CASE At("started", c) # {}
    <3>1. log' = log
      BY <1>1, <2>2
    <3>2. QED
      BY <1>3, <2>0, <2>2, <3>1 DEF StartedCalls, IsStarted, At
  <2>3. QED
    BY <2>1, <2>2
<1>7. FrameOK(f, StartedCalls', SettledCalls', Len(log'))
  BY <1>2, <1>5, FrameGrows DEF Grown
<1>8. Moved(f, g, "recheck", q)
  <2>1. "recheck" \in FrameType
    BY DEF FrameType
  <2>2. QED
    BY <1>2, <1>6, <2>1, MovedFields
<1> HIDE DEF g, q
<1>9. FrameOK(g, StartedCalls', SettledCalls', Len(log')) /\ g.do \in Journaling /\ g.call = f.call
  BY <1>0, <1>1, <1>6, <1>7, <1>8 DEF Moved, FrameOK, Journaling, Looking, Settles
<1>10. HandlersOK(handlers', starts, StartedCalls', SettledCalls', Len(log'))
  BY <1>1, <1>5, <1>9, JournalsOn
<1>11. HandlersOK(handlers', starts', StartedCalls', SettledCalls', Len(log'))
  BY <1>1, <1>10
<1>12. QED
  BY <1>1, <1>4, <1>11, LogGrows

\* The call is settled: it gets no row, and the barrier is lifted.
LEMMA DropRowKeeps ==
  ASSUME CallsInv, Quiescent, NEW h \in Task, DropRow(h)
  PROVE  CallsInv' /\ LogStep
<1> DEFINE f == Top(h)
<1>1. /\ ~Idle(h) /\ f.do = "drop" /\ rows' = [rows EXCEPT ![f.call] = "none"]
      /\ starts' = Cleared(h) /\ handlers' = Lifted(h, <<>>, rows', Cleared(h))
      /\ log' = log /\ through' = through /\ target' = target /\ late' = late /\ answered' = answered
  BY DEF DropRow, Waits, world
<1>2. /\ TableOK(rows, StartedCalls) /\ through \in Nat /\ through <= Len(log)
      /\ target \in {"rpc", "do", "gone"} /\ late \subseteq Timed /\ answered \subseteq SettledCalls
  BY DEF CallsInv, RowsOK, WorldOK
<1>3. TableOK(rows', StartedCalls)
  BY <1>1, <1>2 DEF TableOK, RowKind
<1>4. StackOK(<<>>, StartedCalls, SettledCalls, Len(log))
  BY StackNew
<1>5. HandlersOK(handlers', starts', StartedCalls, SettledCalls, Len(log))
  BY <1>1, <1>3, <1>4, LogFacts, LiftBarrier
<1>6. QED
  BY <1>1, <1>2, <1>3, <1>5, LogAlone

\* The row is inserted, the barrier lifted, and the call dispatched.
LEMMA InsertRowKeeps ==
  ASSUME CallsInv, Quiescent, NEW h \in Task, InsertRow(h)
  PROVE  CallsInv' /\ LogStep
<1> DEFINE f == Top(h)
           dispatch == CASE target = "gone" -> <<Settling("dispatch", f.call, "failed")>>
                         [] target = "do" -> <<[Frame("method") EXCEPT !.call = f.call]>>
                         [] target = "rpc" -> <<>>
<1>1. /\ ~Idle(h) /\ f.do = "insert"
      /\ rows' = [rows EXCEPT ![f.call] = IF f.call \in Timed THEN "timed" ELSE "plain"]
      /\ through' = (IF f.seq > through THEN f.seq ELSE through)
      /\ starts' = Cleared(h) /\ handlers' = Lifted(h, dispatch, rows', Cleared(h))
      /\ log' = log /\ target' = target /\ late' = late /\ answered' = answered
  BY DEF InsertRow, RecordObservedHead, Waits, world
<1>2. /\ TableOK(rows, StartedCalls) /\ through \in Nat /\ through <= Len(log)
      /\ target \in {"rpc", "do", "gone"} /\ late \subseteq Timed /\ answered \subseteq SettledCalls
  BY DEF CallsInv, RowsOK, WorldOK
<1>3. /\ FrameOK(f, StartedCalls, SettledCalls, Len(log)) /\ f \in FrameRecord /\ Len(log) \in Nat
  BY <1>1, TopFacts, LogFacts
<1>4. f.call \in Call /\ f.call \in StartedCalls /\ f.seq \in Nat /\ f.seq <= Len(log)
  BY <1>1, <1>3 DEF FrameOK, Journaling, FrameRecord
<1>5. TableOK(rows', StartedCalls)
  BY <1>1, <1>2, <1>4 DEF TableOK, RowKind
<1>6. through' \in Nat /\ through' <= Len(log)
  BY <1>1, <1>2, <1>4
<1>7. /\ StackOK(dispatch, StartedCalls, SettledCalls, Len(log))
      /\ dispatch # <<>> => FreeTop(Head(dispatch), StartedCalls)
  <2>1. CASE target = "gone"
    <3> DEFINE g == Settling("dispatch", f.call, "failed")
    <3>1. dispatch = <<g>> /\ "failed" \in Outcome
      BY <2>1 DEF Outcome
    <3>2. FrameOK(g, StartedCalls, SettledCalls, Len(log)) /\ g.do = "begin"
      BY <1>3, <1>4, <3>1, SettlingOK
    <3>3. g.call = f.call
      BY DEF Settling, Frame
    <3> HIDE DEF g, dispatch
    <3>4. FreeTop(g, StartedCalls)
      BY <1>4, <3>2, <3>3 DEF FreeTop
    <3>5. StackOK(<<g>>, StartedCalls, SettledCalls, Len(log)) /\ Head(<<g>>) = g
      BY <3>2, StackNew
    <3>6. QED
      BY <3>1, <3>4, <3>5
  <2>2. CASE target = "do"
    <3> DEFINE g == [Frame("method") EXCEPT !.call = f.call]
    <3>1. dispatch = <<g>>
      BY <2>2
    <3>2. FrameOK(g, StartedCalls, SettledCalls, Len(log)) /\ g.do = "method"
      BY <1>3, <1>4, MethodOK
    <3> HIDE DEF g, dispatch
    <3>3. FreeTop(g, StartedCalls)
      BY <3>2 DEF FreeTop
    <3>4. StackOK(<<g>>, StartedCalls, SettledCalls, Len(log)) /\ Head(<<g>>) = g
      BY <3>2, StackNew
    <3>5. QED
      BY <3>1, <3>3, <3>4
  <2>3. CASE target = "rpc"
    <3>1. dispatch = <<>>
      BY <2>3
    <3>2. QED
      BY <3>1, StackNew
  <2>4. QED
    BY <1>2, <2>1, <2>2, <2>3
<1> HIDE DEF dispatch
<1>8. HandlersOK(handlers', starts', StartedCalls, SettledCalls, Len(log))
  BY <1>1, <1>5, <1>7, LogFacts, LiftBarrier
<1>9. QED
  BY <1>1, <1>2, <1>5, <1>6, <1>8, LogAlone

\* The vessel answers.
LEMMA OnMethodCallKeeps ==
  ASSUME CallsInv, NEW h \in Task, OnMethodCall(h)
  PROVE  CallsInv' /\ LogStep
<1> DEFINE f == Top(h)
<1>1. /\ ~Idle(h) /\ f.do = "method" /\ f.do \notin Journaling
      /\ starts' = starts /\ UNCHANGED <<store, world>>
  BY DEF OnMethodCall, Waits, Journaling
<1>2. /\ FrameOK(f, StartedCalls, SettledCalls, Len(log)) /\ Len(log) \in Nat
  BY <1>1, TopFacts, LogFacts
<1>3. f.call \in Call /\ f.call \in StartedCalls
  BY <1>1, <1>2 DEF FrameOK
<1>4. PICK out \in {"completed", "failed"} : Replace(h, <<Settling("deliver", f.call, out)>>)
  BY DEF OnMethodCall
<1> DEFINE g == Settling("deliver", f.call, out)
<1>5. out \in Outcome
  BY DEF Outcome
<1>6. FrameOK(g, StartedCalls, SettledCalls, Len(log)) /\ TopOK(g, handlers, starts, StartedCalls)
  BY <1>2, <1>3, <1>5, SettlingOK
<1>7. Replace(h, <<g>>)
  BY <1>4
<1> HIDE DEF g
<1>8. HandlersOK(handlers', starts, StartedCalls, SettledCalls, Len(log))
  BY <1>1, <1>6, <1>7, LogFacts, Becomes
<1>9. QED
  BY <1>1, <1>8, StacksOnly

-----------------------------------------------------------------------------
(* No row was found.                                                       *)

\* A frame that serves one call.
LEMMA ServingFacts ==
  ASSUME NEW S, NEW T, NEW n, NEW f, FrameOK(f, S, T, n),
         f.do \in {"lookup", "confirm"} \cup Settles
  PROVE  /\ Serves(f, S) /\ f.call \in Call /\ f.do \notin Journaling
         /\ f \in FrameRecord /\ f.seq \in Nat
BY DEF FrameOK, Serves, Sweeps, Looking, Settles, Journaling, FrameRecord

\* The lookup of a terminal for a call that has no row.
LEMMA LookupTerminalKeeps ==
  ASSUME CallsInv, NEW h \in Task, LookupTerminal(h)
  PROVE  CallsInv' /\ LogStep
<1> DEFINE f == Top(h)
           g == [f EXCEPT !.do = "head"]
<1>1. /\ ~Idle(h) /\ f.do = "lookup" /\ starts' = starts
      /\ log' = log /\ rows' = rows /\ through' = through /\ target' = target /\ late' = late
  BY DEF LookupTerminal, Waits, store, Unanswered
<1>2. /\ TableOK(rows, StartedCalls) /\ through \in Nat /\ through <= Len(log)
      /\ target \in {"rpc", "do", "gone"} /\ late \subseteq Timed /\ answered \subseteq SettledCalls
  BY DEF CallsInv, RowsOK, WorldOK
<1>3. FrameOK(f, StartedCalls, SettledCalls, Len(log)) /\ Len(log) \in Nat
  BY <1>1, TopFacts, LogFacts
<1>4. /\ Serves(f, StartedCalls) /\ f.call \in Call /\ f.do \notin Journaling
      /\ f \in FrameRecord /\ f.seq \in Nat
  BY <1>1, <1>3, ServingFacts
<1>5. CASE IsSettled(f.call)
  <2>1. Replace(h, <<>>) /\ answered' \subseteq SettledCalls
    BY <1>2, <1>4, <1>5 DEF LookupTerminal, Return, SettledCalls
  <2>2. HandlersOK(handlers', starts, StartedCalls, SettledCalls, Len(log))
    BY <1>1, <1>4, <2>1, LogFacts, Returns
  <2>3. QED
    BY <1>1, <1>2, <2>1, <2>2, LogAlone
<1>6. CASE ~IsSettled(f.call)
  <2>1. Replace(h, <<g>>) /\ answered' = answered
    BY <1>6 DEF LookupTerminal, Goto
  <2>2. "head" \in FrameType
    BY DEF FrameType
  <2>3. Moved(f, g, "head", f.seq)
    BY <1>4, <2>2, MovedFields
  <2> HIDE DEF g
  <2>4. FrameOK(g, StartedCalls, SettledCalls, Len(log)) /\ TopOK(g, handlers, starts, StartedCalls)
    BY <1>1, <1>3, <1>4, <2>3 DEF Moved, FrameOK, TopOK, Serves, Looking, Settles, Journaling
  <2>5. HandlersOK(handlers', starts, StartedCalls, SettledCalls, Len(log))
    BY <1>1, <1>4, <2>1, <2>4, LogFacts, Becomes
  <2>6. QED
    BY <1>1, <1>2, <2>1, <2>5, LogAlone
<1>7. QED
  BY <1>5, <1>6

\* The sweep reads the head of the log.
LEMMA GetHeadSeqKeeps ==
  ASSUME CallsInv, NEW h \in Task, GetHeadSeq(h)
  PROVE  CallsInv' /\ LogStep
<1> DEFINE f == Top(h)
<1>0. PICK do \in {"compare", "read"} : do = (IF f.in = "sweep" THEN "compare" ELSE "read")
  OBVIOUS
<1> DEFINE g == [f EXCEPT !.do = do, !.seq = Len(log)]
<1>1. /\ ~Idle(h) /\ f.do = "head" /\ f.do \notin Journaling /\ Replace(h, <<g>>)
      /\ starts' = starts /\ UNCHANGED <<store, world>>
  BY <1>0 DEF GetHeadSeq, Waits, Journaling
<1>2. /\ FrameOK(f, StartedCalls, SettledCalls, Len(log)) /\ Len(log) \in Nat /\ f \in FrameRecord
  BY <1>1, TopFacts, LogFacts
<1>3. do \in FrameType
  BY DEF FrameType
<1>4. Moved(f, g, do, Len(log))
  BY <1>2, <1>3, MovedFields
<1>5. Len(log) <= Len(log)
  BY <1>2
<1> HIDE DEF g
<1>6. FrameOK(g, StartedCalls, SettledCalls, Len(log)) /\ TopOK(g, handlers, starts, StartedCalls)
  BY <1>0, <1>1, <1>2, <1>4, <1>5
     DEF Moved, FrameOK, TopOK, Serves, Sweeps, Looking, Settles, Journaling
<1>7. HandlersOK(handlers', starts, StartedCalls, SettledCalls, Len(log))
  BY <1>1, <1>6, LogFacts, Becomes
<1>8. QED
  BY <1>1, <1>7, StacksOnly

\* The sweep compares the head with its mark.
LEMMA CompareHeadKeeps ==
  ASSUME CallsInv, NEW h \in Task, CompareHead(h)
  PROVE  CallsInv' /\ LogStep
<1> DEFINE f == Top(h)
           g == [f EXCEPT !.do = "read"]
<1>1. /\ ~Idle(h) /\ f.do = "compare" /\ f.do \notin Journaling
      /\ starts' = starts /\ UNCHANGED <<store, world>>
      /\ Replace(h, <<>>) \/ Replace(h, <<g>>)
  BY DEF CompareHead, Waits, Journaling, Goto
<1>2. /\ FrameOK(f, StartedCalls, SettledCalls, Len(log)) /\ Len(log) \in Nat /\ f \in FrameRecord
      /\ f.seq \in Nat
  BY <1>1, TopFacts, LogFacts DEF FrameRecord
<1>3. Moved(f, g, "read", f.seq)
  <2>1. "read" \in FrameType
    BY DEF FrameType
  <2>2. QED
    BY <1>2, <2>1, MovedFields
<1> HIDE DEF g
<1>4. FrameOK(g, StartedCalls, SettledCalls, Len(log)) /\ TopOK(g, handlers, starts, StartedCalls)
  BY <1>1, <1>2, <1>3 DEF Moved, FrameOK, TopOK, Serves, Sweeps, Looking, Settles, Journaling
<1>5. HandlersOK(handlers', starts, StartedCalls, SettledCalls, Len(log))
  BY <1>1, <1>4, LogFacts, Becomes, Returns
<1>6. QED
  BY <1>1, <1>5, StacksOnly

\* What the log says is pending.
LEMMA DerivedIsTable ==
  /\ TableOK(DerivePendingCalls, StartedCalls)
  /\ \A c \in StartedCalls : DerivePendingCalls[c] = "none" => c \in SettledCalls
BY DEF DerivePendingCalls, TableOK, RowKind, StartedCalls, SettledCalls

\* The sweep reads the log and rebuilds the table from it.
LEMMA ReadLogKeeps ==
  ASSUME CallsInv, NEW h \in Task, ReadLog(h)
  PROVE  CallsInv' /\ LogStep
<1> DEFINE f == Top(h)
           seen == DerivePendingCalls
           g == [f EXCEPT !.do = "apply", !.seen = seen]
<1>1. /\ ~Idle(h) /\ f.do = "read" /\ f.do \notin Journaling /\ Replace(h, <<g>>)
      /\ starts' = starts /\ UNCHANGED <<store, world>>
  BY DEF ReadLog, Waits, Journaling
<1>2. /\ FrameOK(f, StartedCalls, SettledCalls, Len(log)) /\ f \in FrameRecord
  BY <1>1, TopFacts
<1>3. /\ TableOK(seen, StartedCalls) /\ seen \in [Call -> RowKind]
      /\ \A c \in StartedCalls : seen[c] = "none" => c \in SettledCalls
  BY DerivedIsTable DEF TableOK
<1> HIDE DEF seen
<1>4. /\ g \in FrameRecord /\ g.do = "apply" /\ g.seq = f.seq /\ g.in = f.in /\ g.for = f.for
      /\ g.call = f.call /\ g.out = f.out /\ g.todo = f.todo /\ g.why = f.why /\ g.seen = seen
  BY <1>2, <1>3 DEF FrameRecord, FrameType
<1> HIDE DEF g
<1>5. FrameOK(g, StartedCalls, SettledCalls, Len(log)) /\ TopOK(g, handlers, starts, StartedCalls)
  BY <1>1, <1>2, <1>3, <1>4
     DEF FrameOK, TopOK, Serves, Sweeps, Looking, Settles, Journaling
<1>6. HandlersOK(handlers', starts, StartedCalls, SettledCalls, Len(log))
  BY <1>1, <1>5, LogFacts, Becomes
<1>7. QED
  BY <1>1, <1>6, StacksOnly

\* The table becomes what the log said, and the methods look again.
LEMMA ApplyReconcileKeeps ==
  ASSUME CallsInv, NEW h \in Task, ApplyReconcile(h)
  PROVE  CallsInv' /\ LogStep
<1> DEFINE f == Top(h)
           g == [f EXCEPT !.do = "confirm", !.seq = 0, !.seen = None]
<1>1. /\ ~Idle(h) /\ f.do = "apply" /\ f.do \notin Journaling /\ starts' = starts
      /\ rows' = ReconcileRows(f.seen) /\ through' = f.seq /\ LookAgain(h, f, rows')
      /\ log' = log /\ target' = target /\ late' = late /\ answered' = answered
  BY DEF ApplyReconcile, Waits, Journaling, world
<1>2. /\ TableOK(rows, StartedCalls)
      /\ target \in {"rpc", "do", "gone"} /\ late \subseteq Timed /\ answered \subseteq SettledCalls
      /\ starts \in [Call -> Handler \cup {None}]
  BY DEF CallsInv, RowsOK, WorldOK, HandlersOK, BarrierOK
<1>3. /\ FrameOK(f, StartedCalls, SettledCalls, Len(log)) /\ f \in FrameRecord /\ Len(log) \in Nat
  BY <1>1, TopFacts, LogFacts
<1>4. f.seq \in Nat /\ f.seq <= Len(log) /\ TableOK(f.seen, StartedCalls)
  BY <1>1, <1>3 DEF FrameOK, FrameRecord
<1>5. TableOK(rows', StartedCalls) /\ \A c \in Call : rows'[c] = "none" => f.seen[c] = "none"
  BY <1>1, <1>2, <1>4 DEF ReconcileRows, TableOK
<1>6. Sweeps(f) \/ Serves(f, StartedCalls)
  BY <1>1, <1>3 DEF FrameOK, Looking
<1>7. HandlersOK(handlers', starts, StartedCalls, SettledCalls, Len(log))
  <2>1. CASE Replace(h, <<>>)
    BY <1>1, <2>1, LogFacts, Returns
  <2>2. CASE f.in # "sweep" /\ rows'[f.call] # "none" /\ Replace(h, Found(f, rows', starts))
    <3>1. Serves(f, StartedCalls) /\ f.call \in StartedCalls /\ Passed(f, StartedCalls)
      BY <1>1, <1>5, <1>6, <2>2 DEF Sweeps, Serves, Passed, TableOK
    <3>2. Onward(Found(f, rows', starts), StartedCalls, SettledCalls, Len(log), starts)
      BY <1>2, <1>3, <3>1, FoundOK
    <3>3. QED
      BY <1>1, <2>2, <3>2, ReplaceOnward
  <2>3. CASE f.in # "sweep" /\ rows'[f.call] = "none" /\ Replace(h, <<g>>)
    <3>1. Serves(f, StartedCalls) /\ f.call \in Call /\ f.seen[f.call] = "none"
      BY <1>5, <1>6, <2>3 DEF Sweeps, Serves
    <3>2. /\ g \in FrameRecord /\ g.do = "confirm" /\ g.seq = 0 /\ g.in = f.in /\ g.for = f.for
          /\ g.call = f.call /\ g.out = f.out /\ g.todo = f.todo /\ g.why = f.why
      BY <1>3 DEF FrameRecord, FrameType
    <3> HIDE DEF g
    <3>3. FrameOK(g, StartedCalls, SettledCalls, Len(log)) /\ TopOK(g, handlers, starts, StartedCalls)
      BY <1>1, <1>3, <3>1, <3>2 DEF FrameOK, TopOK, Serves, Looking, Settles, Journaling
    <3>4. QED
      BY <1>1, <2>3, <3>3, LogFacts, Becomes
  <2>4. QED
    BY <1>1, <2>1, <2>2, <2>3 DEF LookAgain
<1>8. QED
  BY <1>1, <1>2, <1>4, <1>5, <1>7, LogAlone

\* The call is settled, or missing.
LEMMA ConfirmMissingKeeps ==
  ASSUME CallsInv, NEW h \in Task, ConfirmMissing(h)
  PROVE  CallsInv' /\ LogStep
<1> DEFINE f == Top(h)
           g == [f EXCEPT !.in = "missing", !.do = "root"]
<1>1. /\ ~Idle(h) /\ f.do = "confirm" /\ starts' = starts
      /\ log' = log /\ rows' = rows /\ through' = through /\ target' = target /\ late' = late
  BY DEF ConfirmMissing, Waits, store, Unanswered
<1>2. /\ TableOK(rows, StartedCalls) /\ through \in Nat /\ through <= Len(log)
      /\ target \in {"rpc", "do", "gone"} /\ late \subseteq Timed /\ answered \subseteq SettledCalls
  BY DEF CallsInv, RowsOK, WorldOK
<1>3. FrameOK(f, StartedCalls, SettledCalls, Len(log)) /\ Len(log) \in Nat
  BY <1>1, TopFacts, LogFacts
<1>4. /\ Serves(f, StartedCalls) /\ f.call \in Call /\ f.do \notin Journaling
      /\ f \in FrameRecord /\ f.seq \in Nat
  BY <1>1, <1>3, ServingFacts
<1>5. CASE ~IsSettled(f.call) /\ f.in = "resolve" /\ f.for = "answer"
  <2>1. Replace(h, <<g>>) /\ answered' = answered
    BY <1>5 DEF ConfirmMissing
  <2>2. /\ g \in FrameRecord /\ g.do = "root" /\ g.seq = f.seq /\ g.in = "missing" /\ g.for = f.for
        /\ g.call = f.call /\ g.out = f.out /\ g.todo = f.todo /\ g.why = f.why
    BY <1>4 DEF FrameRecord, FrameType
  <2> HIDE DEF g
  <2>3. FrameOK(g, StartedCalls, SettledCalls, Len(log)) /\ TopOK(g, handlers, starts, StartedCalls)
    BY <1>1, <1>3, <1>4, <1>5, <2>2 DEF FrameOK, TopOK, Serves, Looking, Settles, Journaling
  <2>4. HandlersOK(handlers', starts, StartedCalls, SettledCalls, Len(log))
    BY <1>1, <1>4, <2>1, <2>3, LogFacts, Becomes
  <2>5. QED
    BY <1>1, <1>2, <2>1, <2>4, LogAlone
<1>6. CASE ~(~IsSettled(f.call) /\ f.in = "resolve" /\ f.for = "answer")
  <2>1. Return(h)
    BY <1>6 DEF ConfirmMissing
  <2>2. f.for = "answer" => f.call \in SettledCalls
    BY <1>1, <1>3, <1>4, <1>6 DEF FrameOK, Serves, Looking, SettledCalls
  <2>3. Replace(h, <<>>) /\ answered' \subseteq SettledCalls
    BY <1>2, <2>1, <2>2 DEF Return
  <2>4. HandlersOK(handlers', starts, StartedCalls, SettledCalls, Len(log))
    BY <1>1, <1>4, <2>3, LogFacts, Returns
  <2>5. QED
    BY <1>1, <1>2, <2>3, <2>4, LogAlone
<1>7. QED
  BY <1>5, <1>6

-----------------------------------------------------------------------------
(* Settling.                                                               *)

\* Whatever comes after the root.
LEMMA RootedOK ==
  ASSUME NEW S, NEW T, NEW n, NEW f, FrameOK(f, S, T, n), f.do \in {"root", "plant"},
         f.call \in S, NEW g, Moved(f, g, Rooted(f), f.seq), NEW hs, NEW st
  PROVE  FrameOK(g, S, T, n) /\ TopOK(g, hs, st, S)
<1>1. /\ Serves(f, S) /\ f.call \in Call /\ f \in FrameRecord
  BY ServingFacts DEF Settles
<1>2. Rooted(f) = (IF f.for = "progress" THEN "output" ELSE "check")
  BY DEF Rooted
<1>3. g.do \in {"output", "check"} /\ (g.do = "check" => f.for # "progress")
  BY <1>2 DEF Moved
<1>4. QED
  BY <1>1, <1>3 DEF Moved, FrameOK, TopOK, Serves, Looking, Settles, Journaling

\* The store is asked for the root of a call.
LEMMA HasRootKeeps ==
  ASSUME CallsInv, NEW h \in Task, HasRoot(h)
  PROVE  CallsInv' /\ LogStep
<1> DEFINE f == Top(h)
<1>1. /\ ~Idle(h) /\ f.do = "root" /\ starts' = starts /\ UNCHANGED <<store, world>>
  BY DEF HasRoot, Waits
<1>2. FrameOK(f, StartedCalls, SettledCalls, Len(log)) /\ Len(log) \in Nat
  BY <1>1, TopFacts, LogFacts
<1>3. /\ Serves(f, StartedCalls) /\ f.call \in Call /\ f.do \notin Journaling
      /\ f \in FrameRecord /\ f.seq \in Nat
  BY <1>1, <1>2, ServingFacts DEF Settles
<1>4. PICK do \in FrameType : do = (IF IsStarted(f.call) THEN Rooted(f) ELSE "plant")
  BY DEF FrameType, Rooted
<1> DEFINE g == [f EXCEPT !.do = do]
<1>5. Replace(h, <<g>>)
  BY <1>4 DEF HasRoot, Goto
<1>6. Moved(f, g, do, f.seq)
  BY <1>3, <1>4, MovedFields
<1> HIDE DEF g
<1>7. FrameOK(g, StartedCalls, SettledCalls, Len(log)) /\ TopOK(g, handlers, starts, StartedCalls)
  <2>1. CASE IsStarted(f.call)
    <3>1. do = Rooted(f) /\ f.call \in StartedCalls
      BY <1>3, <1>4, <2>1 DEF StartedCalls
    <3>2. QED
      BY <1>1, <1>2, <1>6, <3>1, RootedOK
  <2>2. CASE ~IsStarted(f.call)
    BY <1>1, <1>2, <1>3, <1>4, <1>6, <2>2
       DEF Moved, FrameOK, TopOK, Serves, Looking, Settles, Journaling
  <2>3. QED
    BY <2>1, <2>2
<1>8. HandlersOK(handlers', starts, StartedCalls, SettledCalls, Len(log))
  BY <1>1, <1>3, <1>5, <1>7, LogFacts, Becomes
<1>9. QED
  BY <1>1, <1>8, StacksOnly

\* The root of a call that has none is planted.
LEMMA PlantRootKeeps ==
  ASSUME CallsInv, NEW h \in Task, PlantRoot(h)
  PROVE  CallsInv' /\ LogStep
<1>0. PICK c : c = Top(h).call
  OBVIOUS
<1> DEFINE f == Top(h)
           g == [f EXCEPT !.do = Rooted(f)]
<1>1. /\ ~Idle(h) /\ f.do = "plant" /\ starts' = starts /\ Replace(h, <<g>>)
      /\ ~IsStarted(c) /\ log' = Append(log, Started(c, "root"))
      /\ UNCHANGED <<rows, through, target, late, answered>>
  BY <1>0 DEF PlantRoot, Waits, Goto, world
<1>2. /\ FrameOK(f, StartedCalls, SettledCalls, Len(log)) /\ log \in Seq(Entry) /\ LogOK
  BY <1>1, TopFacts, LogFacts
<1>3. /\ c \in Call /\ f.do \notin Journaling /\ f \in FrameRecord /\ f.seq \in Nat
  BY <1>0, <1>1, <1>2, ServingFacts DEF Settles
<1>4. LogStep
  BY <1>1, <1>3 DEF LogStep, StartStep
<1>5. /\ Grown(StartedCalls', SettledCalls', Len(log')) /\ Len(log') \in Nat /\ Len(log) \in Nat
  BY <1>2, <1>4, LogKeeps DEF Grown
<1>6. c \in StartedCalls'
  <2>1. /\ Started(c, "root") \in Entry /\ Started(c, "root").kind = "started"
        /\ Started(c, "root").call = c
    BY <1>3, EventTypes
  <2>2. At("started", c)' = At("started", c) \cup {Len(log) + 1}
    BY <1>1, <1>2, <2>1, AppendAt
  <2>3. QED
    BY <1>3, <2>2 DEF StartedCalls, IsStarted
<1>7. FrameOK(f, StartedCalls', SettledCalls', Len(log'))
  BY <1>2, <1>5, FrameGrows DEF Grown
<1>8. Rooted(f) \in FrameType
  BY DEF FrameType, Rooted
<1>9. Moved(f, g, Rooted(f), f.seq)
  BY <1>3, <1>8, MovedFields
<1> HIDE DEF g
<1>10. /\ FrameOK(g, StartedCalls', SettledCalls', Len(log'))
       /\ TopOK(g, handlers, starts, StartedCalls')
  BY <1>0, <1>1, <1>6, <1>7, <1>9, RootedOK
<1>11. HandlersOK(handlers', starts, StartedCalls', SettledCalls', Len(log'))
  BY <1>1, <1>3, <1>5, <1>10, Becomes
<1>12. HandlersOK(handlers', starts', StartedCalls', SettledCalls', Len(log'))
  BY <1>1, <1>11
<1>13. QED
  BY <1>1, <1>4, <1>12, LogGrows

\* The last look for a terminal before a call is started.
LEMMA CheckTerminalKeeps ==
  ASSUME CallsInv, NEW h \in Task, CheckTerminal(h)
  PROVE  CallsInv' /\ LogStep
<1> DEFINE f == Top(h)
           q == SeqOf("terminal", f.call)
<1>1. /\ ~Idle(h) /\ f.do = "check" /\ starts' = starts /\ UNCHANGED <<store, world>>
  BY DEF CheckTerminal, Waits
<1>2. FrameOK(f, StartedCalls, SettledCalls, Len(log)) /\ log \in Seq(Entry)
  BY <1>1, TopFacts, LogFacts
<1>3. /\ Serves(f, StartedCalls) /\ f.call \in Call /\ f.do \notin Journaling
      /\ f \in FrameRecord /\ f.seq \in Nat
  BY <1>1, <1>2, ServingFacts DEF Settles
<1>4. PICK do \in FrameType : do = (IF IsSettled(f.call) THEN "finish" ELSE "append")
  BY DEF FrameType
<1> DEFINE g == [f EXCEPT !.do = do, !.seq = q]
<1>5. Replace(h, <<g>>)
  BY <1>4 DEF CheckTerminal
<1>6. q \in Nat /\ (IsSettled(f.call) => q <= Len(log))
  BY <1>2, SeqOfBound DEF IsSettled
<1>7. Moved(f, g, do, q)
  BY <1>3, <1>4, <1>6, MovedFields
<1> HIDE DEF g, q
<1>8. IsSettled(f.call) => f.call \in SettledCalls
  BY <1>3 DEF SettledCalls
<1>9. FrameOK(g, StartedCalls, SettledCalls, Len(log)) /\ TopOK(g, handlers, starts, StartedCalls)
  BY <1>1, <1>2, <1>3, <1>4, <1>6, <1>7, <1>8
     DEF Moved, FrameOK, TopOK, Serves, Looking, Settles, Journaling
<1>10. HandlersOK(handlers', starts, StartedCalls, SettledCalls, Len(log))
  BY <1>1, <1>3, <1>5, <1>9, LogFacts, Becomes
<1>11. QED
  BY <1>1, <1>10, StacksOnly

\* A terminal is appended, unless one is there already.
LEMMA AppendTerminalKeeps ==
  ASSUME CallsInv, NEW h \in Task, AppendTerminal(h)
  PROVE  CallsInv' /\ LogStep
<1>0. PICK c, o : c = Top(h).call /\ o = Top(h).out
  OBVIOUS
<1> DEFINE f == Top(h)
           q == SeqOf("terminal", c)
           g == [f EXCEPT !.do = "finish", !.seq = q]
<1>1. /\ ~Idle(h) /\ f.do = "append" /\ starts' = starts /\ Replace(h, <<g>>)
      /\ log' = (IF At("terminal", c) = {} THEN Append(log, Terminal(c, o)) ELSE log)
      /\ UNCHANGED <<rows, through, target, late, answered>>
  BY <1>0 DEF AppendTerminal, AppendOnce, Terminal, Waits, world
<1>2. /\ FrameOK(f, StartedCalls, SettledCalls, Len(log)) /\ log \in Seq(Entry) /\ LogOK
  BY <1>1, TopFacts, LogFacts
<1>3. /\ c \in Call /\ f.do \notin Journaling /\ f \in FrameRecord /\ f.seq \in Nat
      /\ Serves(f, StartedCalls)
  BY <1>0, <1>1, <1>2, ServingFacts DEF Settles
<1>4. c \in StartedCalls /\ f.for # "progress" /\ o \in Outcome
  BY <1>0, <1>1, <1>2, <1>3 DEF FrameOK, Serves
<1>5. LogStep
  BY <1>1, <1>3, <1>4 DEF LogStep, SettleStep, IsSettled, StartedCalls
<1>6. /\ Grown(StartedCalls', SettledCalls', Len(log')) /\ Len(log') \in Nat /\ Len(log) \in Nat
  BY <1>2, <1>5, LogKeeps DEF Grown
<1>7. c \in SettledCalls' /\ q \in Nat /\ q <= Len(log')
  <2>0. q \in Nat /\ q <= Len(log) + 1 /\ (At("terminal", c) # {} => q <= Len(log))
    BY <1>2, SeqOfBound
  <2>1. CASE At("terminal", c) = {}
    <3>1. /\ log' = Append(log, Terminal(c, o)) /\ Terminal(c, o) \in Entry
          /\ Terminal(c, o).kind = "terminal" /\ Terminal(c, o).call = c
      BY <1>1, <1>3, <1>4, <2>1, EventTypes
    <3>2. At("terminal", c)' = At("terminal", c) \cup {Len(log) + 1} /\ Len(log') = Len(log) + 1
      BY <1>2, <3>1, AppendAt
    <3>3. QED
      BY <1>3, <2>0, <3>2 DEF SettledCalls, IsSettled
  <2>2. CASE At("terminal", c) # {}
    <3>1. log' = log
      BY <1>1, <2>2
    <3>2. QED
      BY <1>3, <2>0, <2>2, <3>1 DEF SettledCalls, IsSettled, At
  <2>3. QED
    BY <2>1, <2>2
<1>8. FrameOK(f, StartedCalls', SettledCalls', Len(log'))
  BY <1>2, <1>6, FrameGrows DEF Grown
<1>9. "finish" \in FrameType
  BY DEF FrameType
<1>10. Moved(f, g, "finish", q)
  BY <1>3, <1>7, <1>9, MovedFields
<1> HIDE DEF g, q
<1>11. Serves(f, StartedCalls')
  BY <1>3, <1>6 DEF Serves, Grown
<1>12. /\ FrameOK(g, StartedCalls', SettledCalls', Len(log'))
       /\ TopOK(g, handlers, starts, StartedCalls')
  BY <1>0, <1>1, <1>4, <1>7, <1>8, <1>10, <1>11
     DEF Moved, FrameOK, TopOK, Serves, Looking, Settles, Journaling
<1>13. HandlersOK(handlers', starts, StartedCalls', SettledCalls', Len(log'))
  BY <1>1, <1>3, <1>6, <1>12, Becomes
<1>14. HandlersOK(handlers', starts', StartedCalls', SettledCalls', Len(log'))
  BY <1>1, <1>13
<1>15. QED
  BY <1>1, <1>5, <1>14, LogGrows

\* The terminal is durable: the row goes, and the request is acknowledged.
LEMMA FinishSettleKeeps ==
  ASSUME CallsInv, NEW h \in Task, FinishSettle(h)
  PROVE  CallsInv' /\ LogStep
<1> DEFINE f == Top(h)
<1>1. /\ ~Idle(h) /\ f.do = "finish" /\ Return(h) /\ starts' = starts
      /\ rows' = (IF f.in = "settle" THEN [rows EXCEPT ![f.call] = "none"] ELSE rows)
      /\ through' = (IF f.seq > through THEN f.seq ELSE through)
      /\ log' = log /\ target' = target /\ late' = late
  BY DEF FinishSettle, RecordObservedHead, Waits, Unanswered
<1>2. /\ TableOK(rows, StartedCalls) /\ through \in Nat /\ through <= Len(log)
      /\ target \in {"rpc", "do", "gone"} /\ late \subseteq Timed /\ answered \subseteq SettledCalls
  BY DEF CallsInv, RowsOK, WorldOK
<1>3. FrameOK(f, StartedCalls, SettledCalls, Len(log)) /\ Len(log) \in Nat
  BY <1>1, TopFacts, LogFacts
<1>4. /\ f.call \in Call /\ f.do \notin Journaling /\ f \in FrameRecord /\ f.seq \in Nat
  BY <1>1, <1>3, ServingFacts DEF Settles
<1>5. f.call \in SettledCalls /\ f.seq <= Len(log)
  BY <1>1, <1>3 DEF FrameOK
<1>6. TableOK(rows', StartedCalls)
  BY <1>1, <1>2 DEF TableOK, RowKind
<1>7. through' \in Nat /\ through' <= Len(log)
  BY <1>1, <1>2, <1>4, <1>5
<1>8. Replace(h, <<>>) /\ answered' \subseteq SettledCalls
  BY <1>1, <1>2, <1>5 DEF Return
<1>9. HandlersOK(handlers', starts, StartedCalls, SettledCalls, Len(log))
  BY <1>1, <1>4, <1>8, LogFacts, Returns
<1>10. QED
  BY <1>1, <1>2, <1>6, <1>7, <1>8, <1>9, LogAlone

\* Progress is journaled.
LEMMA AppendOutputKeeps ==
  ASSUME CallsInv, NEW h \in Task, AppendOutput(h)
  PROVE  CallsInv' /\ LogStep
<1> DEFINE f == Top(h)
<1>0. PICK q : q = Len(log')
  OBVIOUS
<1> DEFINE g == [f EXCEPT !.do = "noted", !.seq = q]
<1>1. /\ ~Idle(h) /\ f.do = "output" /\ starts' = starts /\ Replace(h, <<g>>)
      /\ log' = Append(log, Output(f.call)) /\ UNCHANGED <<rows, through, target, late, answered>>
  BY <1>0 DEF AppendOutput, Waits, world
<1>2. /\ FrameOK(f, StartedCalls, SettledCalls, Len(log)) /\ log \in Seq(Entry) /\ LogOK
  BY <1>1, TopFacts, LogFacts
<1>3. /\ f.call \in Call /\ f.do \notin Journaling /\ f \in FrameRecord /\ Serves(f, StartedCalls)
  BY <1>1, <1>2, ServingFacts DEF Settles
<1>4. LogStep
  BY <1>1, <1>3 DEF LogStep, OtherStep
<1>5. /\ Grown(StartedCalls', SettledCalls', Len(log')) /\ q \in Nat /\ Len(log) \in Nat
      /\ q <= Len(log')
  BY <1>0, <1>2, <1>4, LogKeeps DEF Grown
<1>6. FrameOK(f, StartedCalls', SettledCalls', Len(log')) /\ Serves(f, StartedCalls')
  BY <1>0, <1>2, <1>3, <1>5, FrameGrows DEF Grown, Serves
<1>7. "noted" \in FrameType
  BY DEF FrameType
<1>8. Moved(f, g, "noted", q)
  BY <1>3, <1>5, <1>7, MovedFields
<1> HIDE DEF g
<1>9. /\ FrameOK(g, StartedCalls', SettledCalls', Len(log'))
      /\ TopOK(g, handlers, starts, StartedCalls')
  BY <1>1, <1>5, <1>6, <1>8 DEF Moved, FrameOK, TopOK, Serves, Looking, Settles, Journaling
<1>10. HandlersOK(handlers', starts, StartedCalls', SettledCalls', Len(log'))
  BY <1>0, <1>1, <1>3, <1>5, <1>9, Becomes
<1>11. HandlersOK(handlers', starts', StartedCalls', SettledCalls', Len(log'))
  BY <1>1, <1>10
<1>12. QED
  BY <1>1, <1>4, <1>11, LogGrows

\* Progress moves the mark of the observed head.
LEMMA NoteOutputKeeps ==
  ASSUME CallsInv, NEW h \in Task, NoteOutput(h)
  PROVE  CallsInv' /\ LogStep
<1> DEFINE f == Top(h)
<1>1. /\ ~Idle(h) /\ f.do = "noted" /\ f.do \notin Journaling /\ Replace(h, <<>>)
      /\ starts' = starts /\ rows' = rows
      /\ through' = (IF f.seq > through THEN f.seq ELSE through)
      /\ log' = log /\ target' = target /\ late' = late /\ answered' = answered
  BY DEF NoteOutput, RecordObservedHead, Waits, Journaling, world
<1>2. /\ TableOK(rows, StartedCalls) /\ through \in Nat /\ through <= Len(log)
      /\ target \in {"rpc", "do", "gone"} /\ late \subseteq Timed /\ answered \subseteq SettledCalls
  BY DEF CallsInv, RowsOK, WorldOK
<1>3. f.seq \in Nat /\ f.seq <= Len(log)
  BY <1>1, TopFacts DEF FrameOK, FrameRecord
<1>4. through' \in Nat /\ through' <= Len(log)
  BY <1>1, <1>2, <1>3
<1>5. HandlersOK(handlers', starts, StartedCalls, SettledCalls, Len(log))
  BY <1>1, LogFacts, Returns
<1>6. QED
  BY <1>1, <1>2, <1>4, <1>5, LogAlone

\* An event that is about no call is journaled.
LEMMA AppendOtherKeeps ==
  ASSUME CallsInv, NEW h \in Task, AppendOther(h)
  PROVE  CallsInv' /\ LogStep
<1>1. /\ ~Idle(h) /\ Top(h).do \notin Journaling /\ Replace(h, <<>>) /\ starts' = starts
      /\ log' = Append(log, Other) /\ UNCHANGED <<rows, through, target, late, answered>>
  BY DEF AppendOther, Journaling, world
<1>2. LogStep
  BY <1>1 DEF LogStep, OtherStep
<1>3. Grown(StartedCalls', SettledCalls', Len(log')) /\ Len(log') \in Nat
  BY <1>2, LogFacts, LogKeeps DEF Grown
<1>4. HandlersOK(handlers', starts, StartedCalls', SettledCalls', Len(log'))
  BY <1>1, <1>3, Returns
<1>5. HandlersOK(handlers', starts', StartedCalls', SettledCalls', Len(log'))
  BY <1>1, <1>4
<1>6. QED
  BY <1>1, <1>2, <1>5, LogGrows

-----------------------------------------------------------------------------
(* Requests, the alarm, and faults.                                        *)

\* A request that fails: its barrier is lifted, if it had raised one.
LEMMA ThrowKeeps ==
  ASSUME CallsInv, Quiescent, NEW h \in Task, Throw(h)
  PROVE  CallsInv' /\ LogStep
<1> DEFINE f == Top(h)
<1>1. /\ ~Idle(h) /\ starts' = Released(h) /\ handlers' = Lifted(h, Thrown(h), rows, Released(h))
      /\ log' = log /\ rows' = rows /\ through' = through /\ target' = target /\ late' = late
      /\ answered' = answered
  BY DEF Throw, Throws, store
<1>2. /\ TableOK(rows, StartedCalls) /\ through \in Nat /\ through <= Len(log)
      /\ target \in {"rpc", "do", "gone"} /\ late \subseteq Timed /\ answered \subseteq SettledCalls
      /\ starts \in [Call -> Handler \cup {None}] /\ BarrierOK(handlers, starts)
  BY DEF CallsInv, RowsOK, WorldOK, HandlersOK, BarrierOK
<1>3. /\ FrameOK(f, StartedCalls, SettledCalls, Len(log)) /\ Len(log) \in Nat
      /\ f = Head(handlers[h])
  BY <1>1, TopFacts, LogFacts
<1>4. Released(h) = Cleared(h)
  <2>1. f.do \notin Journaling => \A c \in Call : starts[c] # h \/ starts[c] = None
    BY <1>2, <1>3 DEF BarrierOK, Journals
  <2>2. f.do \notin Journaling => Cleared(h) = starts
    BY <1>2, <2>1 DEF Cleared
  <2>3. QED
    BY <2>2 DEF Released
<1>5. /\ StackOK(Thrown(h), StartedCalls, SettledCalls, Len(log))
      /\ Thrown(h) # <<>> => FreeTop(Head(Thrown(h)), StartedCalls)
  <2>1. CASE f.for = "abandon" \/ f.in = "sweep" \/ f.do = "feedback"
    <3>1. Thrown(h) = Tail(handlers[h])
      BY <2>1 DEF Thrown
    <3>2. QED
      BY <1>1, <3>1, TopFacts DEF FreeTop, Resting
  <2>2. CASE ~(f.for = "abandon" \/ f.in = "sweep" \/ f.do = "feedback") /\ f.for = "deliver"
    <3> DEFINE g == Settling("retry", f.call, "failed")
    <3>1. Thrown(h) = <<g>> /\ "failed" \in Outcome
      BY <2>2 DEF Thrown, Outcome
    <3>2. f.call \in StartedCalls /\ f.call \in Call
      BY <1>3, <2>2 DEF FrameOK, StartedCalls
    <3>3. FrameOK(g, StartedCalls, SettledCalls, Len(log)) /\ g.do = "begin"
      BY <1>3, <3>1, <3>2, SettlingOK
    <3>4. g.call = f.call
      BY DEF Settling, Frame
    <3> HIDE DEF g
    <3>5. FreeTop(g, StartedCalls)
      BY <3>2, <3>3, <3>4 DEF FreeTop
    <3>6. StackOK(<<g>>, StartedCalls, SettledCalls, Len(log)) /\ Head(<<g>>) = g
      BY <3>3, StackNew
    <3>7. QED
      BY <3>1, <3>5, <3>6
  <2>3. CASE ~(f.for = "abandon" \/ f.in = "sweep" \/ f.do = "feedback") /\ f.for # "deliver"
    <3>1. Thrown(h) = <<>>
      BY <2>3 DEF Thrown
    <3>2. QED
      BY <3>1, StackNew
  <2>4. QED
    BY <2>1, <2>2, <2>3
<1>6. HandlersOK(handlers', starts', StartedCalls, SettledCalls, Len(log))
  BY <1>1, <1>2, <1>4, <1>5, LogFacts, LiftBarrier
<1>7. QED
  BY <1>1, <1>2, <1>6, LogAlone

\* A request, or the alarm, starts with frames that depend on no start in flight.
LEMMA Opens ==
  ASSUME CallsInv, NEW h \in Task, NEW fs, Open(h, fs),
         StackOK(fs, StartedCalls, SettledCalls, Len(log)),
         fs # <<>> => TopOK(Head(fs), handlers, starts, StartedCalls)
  PROVE  HandlersOK(handlers', starts, StartedCalls, SettledCalls, Len(log))
<1>1. handlers[h] = <<>> /\ handlers' = [handlers EXCEPT ![h] = fs]
  BY DEF Open, Idle
<1>2. Len(log) <= Len(log)
  BY LogFacts
<1>3. QED
  BY <1>1, <1>2, LogFacts, SetStack

\* A step that opens a request and leaves the store, the deadlines and the answers.
LEMMA OpensOnly ==
  ASSUME CallsInv, UNCHANGED <<store, late, answered>>, target' \in {"rpc", "do", "gone"},
         HandlersOK(handlers', starts', StartedCalls, SettledCalls, Len(log))
  PROVE  CallsInv' /\ LogStep
<1>1. log' = log /\ rows' = rows /\ through' = through /\ late' = late /\ answered' = answered
  BY DEF store
<1>2. /\ TableOK(rows, StartedCalls) /\ through \in Nat /\ through <= Len(log)
      /\ late \subseteq Timed /\ answered \subseteq SettledCalls
  BY DEF CallsInv, RowsOK, WorldOK
<1>3. QED
  BY <1>1, <1>2, LogAlone

\* A call begins, behind the barrier of startInFlight.
LEMMA CallMethodKeeps ==
  ASSUME CallsInv, NEW h \in Handler, NEW c \in Call, CallMethod(h, c)
  PROVE  CallsInv' /\ LogStep
<1> DEFINE f == [Frame("look") EXCEPT !.call = c]
<1>1. /\ handlers[h] = <<>> /\ handlers' = [handlers EXCEPT ![h] = <<f>>]
      /\ starts' = [starts EXCEPT ![c] = h]
      /\ UNCHANGED <<store, late, answered>> /\ target' = target
  BY DEF CallMethod, Open, Idle
<1>2. FrameOK(f, StartedCalls, SettledCalls, Len(log)) /\ f.do = "look" /\ f.call = c
  BY LogFacts, FrameNew
<1> HIDE DEF f
<1>3. f.do \in Journaling
  BY <1>2 DEF Journaling
<1>4. HandlersOK(handlers', starts', StartedCalls, SettledCalls, Len(log))
  BY <1>1, <1>2, <1>3, LogFacts, RaiseBarrier
<1>5. target' \in {"rpc", "do", "gone"}
  BY <1>1 DEF CallsInv, WorldOK
<1>6. QED
  BY <1>1, <1>4, <1>5, OpensOnly

\* Answers, progress and cancellations.
LEMMA ResolveKeeps ==
  ASSUME CallsInv, NEW h \in Handler, NEW c \in Call,
         SubmitMethodResult(h, c) \/ SubmitMethodProgress(h, c) \/ CancelMethodCall(h, c)
  PROVE  CallsInv' /\ LogStep
<1>0. h \in Task
  BY DEF Task
<1>1. PICK for \in {"answer", "progress", "cancel"}, out \in Outcome \cup {None} :
        /\ Open(h, <<Resolving(for, c, out)>>) /\ (for # "progress" => out \in Outcome)
  BY DEF SubmitMethodResult, SubmitMethodProgress, CancelMethodCall, Outcome
<1>2. UNCHANGED <<store, late, answered>> /\ starts' = starts /\ target' = target
  BY DEF SubmitMethodResult, SubmitMethodProgress, CancelMethodCall
<1> DEFINE g == Resolving(for, c, out)
<1>3. for \in {"answer", "progress", "cancel", "timeout"}
  OBVIOUS
<1>4. FrameOK(g, StartedCalls, SettledCalls, Len(log)) /\ TopOK(g, handlers, starts, StartedCalls)
  BY <1>1, <1>3, LogFacts, ResolvingOK
<1>5. Open(h, <<g>>)
  BY <1>1
<1> HIDE DEF g
<1>6. StackOK(<<g>>, StartedCalls, SettledCalls, Len(log)) /\ Head(<<g>>) = g
  BY <1>4, StackNew
<1>7. HandlersOK(handlers', starts, StartedCalls, SettledCalls, Len(log))
  BY <1>0, <1>4, <1>5, <1>6, Opens
<1>8. target' \in {"rpc", "do", "gone"}
  BY <1>2 DEF CallsInv, WorldOK
<1>9. QED
  BY <1>2, <1>7, <1>8, OpensOnly

\* A participant that goes, and one that comes.
LEMMA LeavingOK ==
  ASSUME CallsInv
  PROVE  /\ StackOK(Leaving, StartedCalls, SettledCalls, Len(log))
         /\ \A k \in 1..Len(Leaving) : Leaving[k].do \in {"abandon", "presence"}
         /\ Len(Leaving) = 2
<1> DEFINE A == {c \in Call : rows[c] # "none"}
<1>0. PICK g, d : g = [Frame("abandon") EXCEPT !.todo = A] /\ d = Frame("presence")
  OBVIOUS
<1>1. A \in SUBSET Call /\ A \subseteq StartedCalls
  BY DEF CallsInv, RowsOK, TableOK
<1>2. Leaving = <<g, d>>
  BY <1>0 DEF Leaving
<1>3. Len(log) \in Nat /\ "abandon" \in {"abandon", "expire"}
  BY LogFacts
<1> HIDE DEF A
<1>4. FrameOK(g, StartedCalls, SettledCalls, Len(log)) /\ g.do = "abandon"
  BY ONLY <1>0, <1>1, <1>3, LoopOK, Zenon
<1>5. FrameOK(d, StartedCalls, SettledCalls, Len(log)) /\ d.do = "presence"
  BY <1>0, <1>3, FrameNew
<1>6. StackOK(<<g, d>>, StartedCalls, SettledCalls, Len(log))
  BY <1>4, <1>5, StackTwo DEF Resting
<1>7. QED
  BY <1>2, <1>4, <1>5, <1>6

\* A participant leaves or comes back.
LEMMA UnsubscribeKeeps ==
  ASSUME CallsInv, NEW h \in Handler, Unsubscribe(h) \/ Subscribe(h)
  PROVE  CallsInv' /\ LogStep
<1>0. h \in Task
  BY DEF Task
<1>1. /\ Open(h, Leaving) \/ Open(h, <<Frame("presence")>>)
      /\ UNCHANGED <<store, late, answered>> /\ starts' = starts /\ target' \in {"rpc", "do", "gone"}
  BY DEF Unsubscribe, Subscribe
<1>2. CASE Open(h, Leaving)
  <2>1. /\ StackOK(Leaving, StartedCalls, SettledCalls, Len(log)) /\ Leaving \in Seq(FrameRecord)
        /\ \A k \in 1..Len(Leaving) : Leaving[k].do \in {"abandon", "presence"}
        /\ Len(Leaving) = 2
    BY LeavingOK DEF StackOK
  <2>2. Head(Leaving).do \in {"abandon", "presence"}
    BY <2>1
  <2>3. TopOK(Head(Leaving), handlers, starts, StartedCalls)
    BY <2>2 DEF TopOK
  <2>4. HandlersOK(handlers', starts, StartedCalls, SettledCalls, Len(log))
    BY <1>0, <1>2, <2>1, <2>3, Opens
  <2>5. QED
    BY <1>1, <2>4, OpensOnly
<1>3. CASE Open(h, <<Frame("presence")>>)
  <2>0. PICK d : d = Frame("presence")
    OBVIOUS
  <2>1. FrameOK(d, StartedCalls, SettledCalls, Len(log)) /\ d.do = "presence"
    BY <2>0, LogFacts, FrameNew
  <2>2. StackOK(<<d>>, StartedCalls, SettledCalls, Len(log)) /\ Head(<<d>>) = d
    BY <2>1, StackNew
  <2>3. TopOK(d, handlers, starts, StartedCalls)
    BY <2>1 DEF TopOK
  <2>4. HandlersOK(handlers', starts, StartedCalls, SettledCalls, Len(log))
    BY <1>0, <1>3, <2>0, <2>2, <2>3, Opens
  <2>5. QED
    BY <1>1, <2>4, OpensOnly
<1>4. QED
  BY <1>1, <1>2, <1>3

\* One stack on another.
LEMMA StackConcat ==
  ASSUME NEW S, NEW T, NEW n, NEW a, StackOK(a, S, T, n), NEW b, StackOK(b, S, T, n),
         a # <<>>, b # <<>> => Head(b).do \in Resting
  PROVE  StackOK(a \o b, S, T, n) /\ Head(a \o b) = Head(a)
<1>1. /\ a \in Seq(FrameRecord) /\ b \in Seq(FrameRecord) /\ Len(a) \in Nat /\ Len(b) \in Nat
      /\ Len(a) >= 1
  BY DEF StackOK
<1> DEFINE r == a \o b
<1>2. /\ r \in Seq(FrameRecord) /\ Len(r) = Len(a) + Len(b)
      /\ \A k \in 1..Len(a) : r[k] = a[k]
      /\ \A k \in 1..Len(r) : k \notin 1..Len(a) => r[k] = b[k - Len(a)] /\ k - Len(a) \in 1..Len(b)
  BY <1>1
<1>3. Head(r) = Head(a)
  BY <1>1, <1>2
<1>4. \A k \in 1..Len(b) : FrameOK(b[k], S, T, n) /\ b[k].do \in Resting
  <2>1. ASSUME NEW k \in 1..Len(b) PROVE FrameOK(b[k], S, T, n) /\ b[k].do \in Resting
    <3>1. k = 1 \/ k > 1
      BY <1>1
    <3>2. b # <<>> /\ Head(b) = b[1]
      BY <1>1
    <3>3. QED
      BY <3>1, <3>2 DEF StackOK
  <2>2. QED
    BY <2>1
<1> HIDE DEF r
<1>5. \A k \in 1..Len(r) : FrameOK(r[k], S, T, n) /\ (k > 1 => r[k].do \in Resting)
  BY <1>2, <1>4 DEF StackOK
<1>6. StackOK(r, S, T, n)
  BY <1>2, <1>5 DEF StackOK
<1>7. QED
  BY <1>3, <1>6 DEF r

\* The alarm goes off.
LEMMA AlarmKeeps ==
  ASSUME CallsInv, Alarm
  PROVE  CallsInv' /\ LogStep
<1> DEFINE sweep == <<Frame("select"), [Frame("head") EXCEPT !.in = "sweep"]>>
<1>0. "alarm" \in Task
  BY DEF Task
<1>1. /\ Open("alarm", sweep) \/ Open("alarm", Leaving \o sweep)
      /\ UNCHANGED <<store, late, answered>> /\ starts' = starts
  BY DEF Alarm
<1>2. target' \in {"rpc", "do", "gone"}
  BY DEF Alarm, CallsInv, WorldOK
<1>3. PICK g, d : g = Frame("select") /\ d = [Frame("head") EXCEPT !.in = "sweep"]
  OBVIOUS
<1>4. /\ FrameOK(g, StartedCalls, SettledCalls, Len(log)) /\ g.do = "select"
      /\ FrameOK(d, StartedCalls, SettledCalls, Len(log)) /\ d.do = "head"
  BY <1>3, LogFacts, FrameNew
<1>5. /\ StackOK(<<g, d>>, StartedCalls, SettledCalls, Len(log)) /\ Head(<<g, d>>) = g
  <2>1. d.do \in Resting
    BY <1>4 DEF Resting
  <2>2. QED
    BY <1>4, <2>1, StackTwo
<1>6. sweep = <<g, d>>
  BY <1>3
<1> HIDE DEF sweep
<1>7. StackOK(sweep, StartedCalls, SettledCalls, Len(log)) /\ Head(sweep).do = "select"
  BY <1>4, <1>5, <1>6
<1>8. CASE Open("alarm", sweep)
  <2>1. TopOK(Head(sweep), handlers, starts, StartedCalls)
    BY <1>7 DEF TopOK
  <2>2. HandlersOK(handlers', starts, StartedCalls, SettledCalls, Len(log))
    BY <1>0, <1>7, <1>8, <2>1, Opens
  <2>3. QED
    BY <1>1, <1>2, <2>2, OpensOnly
<1>9. CASE Open("alarm", Leaving \o sweep)
  <2>1. /\ StackOK(Leaving, StartedCalls, SettledCalls, Len(log)) /\ Leaving \in Seq(FrameRecord)
        /\ \A k \in 1..Len(Leaving) : Leaving[k].do \in {"abandon", "presence"}
        /\ Len(Leaving) = 2
    BY LeavingOK DEF StackOK
  <2>2. Head(Leaving).do \in {"abandon", "presence"} /\ Leaving # <<>>
    BY <2>1
  <2>3. PICK r : r = Leaving \o sweep
    OBVIOUS
  <2>4. StackOK(r, StartedCalls, SettledCalls, Len(log)) /\ Head(r) = Head(Leaving)
    BY <1>7, <2>1, <2>2, <2>3, StackConcat DEF Resting
  <2>5. TopOK(Head(r), handlers, starts, StartedCalls)
    BY <2>2, <2>4 DEF TopOK
  <2>6. HandlersOK(handlers', starts, StartedCalls, SettledCalls, Len(log))
    BY <1>0, <1>9, <2>3, <2>4, <2>5, Opens
  <2>7. QED
    BY <1>1, <1>2, <2>6, OpensOnly
<1>10. QED
  BY <1>1, <1>8, <1>9

\* Something else is published; a deadline passes.
LEMMA WorldKeeps ==
  ASSUME CallsInv, Publish \/ \E c \in Call : DeadlinePasses(c)
  PROVE  CallsInv' /\ LogStep
<1>1. CASE Publish
  <2>1. /\ log' = Append(log, Other) /\ handlers' = handlers /\ starts' = starts
        /\ UNCHANGED <<rows, through, target, late, answered>>
    BY <1>1 DEF Publish
  <2>2. LogStep
    BY <2>1 DEF LogStep, OtherStep
  <2>3. /\ StartedCalls \subseteq StartedCalls' /\ SettledCalls \subseteq SettledCalls'
        /\ Len(log) \in Nat /\ Len(log') \in Nat /\ Len(log) <= Len(log')
    BY <2>2, LogFacts, LogKeeps
  <2>4. \A h \in Task : StackOK(handlers[h], StartedCalls', SettledCalls', Len(log'))
    BY <2>3, LogFacts, StackGrows DEF HandlersOK
  <2>5. \A f : TopOK(f, handlers, starts, StartedCalls) => TopOK(f, handlers, starts, StartedCalls')
    BY <2>3 DEF TopOK
  <2>6. HandlersOK(handlers', starts', StartedCalls', SettledCalls', Len(log'))
    BY <2>1, <2>4, <2>5, LogFacts DEF HandlersOK
  <2>7. QED
    BY <2>1, <2>2, <2>6, LogGrows
<1>2. CASE \E c \in Call : DeadlinePasses(c)
  <2>1. /\ log' = log /\ rows' = rows /\ through' = through /\ starts' = starts
        /\ handlers' = handlers /\ target' = target /\ answered' = answered
    BY <1>2 DEF DeadlinePasses, store
  <2>2. /\ TableOK(rows, StartedCalls) /\ through \in Nat /\ through <= Len(log)
        /\ target \in {"rpc", "do", "gone"} /\ answered \subseteq SettledCalls
    BY DEF CallsInv, RowsOK, WorldOK
  <2>3. late' \subseteq Timed
    BY <1>2 DEF DeadlinePasses, CallsInv, WorldOK
  <2>4. HandlersOK(handlers', starts', StartedCalls, SettledCalls, Len(log))
    BY <2>1, LogFacts
  <2>5. QED
    BY <2>1, <2>2, <2>3, <2>4, LogAlone
<1>3. QED
  BY <1>1, <1>2

\* Nobody is at anything.
LEMMA NobodyOK ==
  ASSUME NEW S, NEW T, NEW n, NEW hs, hs = [h \in Task |-> <<>>], NEW st, st = [c \in Call |-> None]
  PROVE  HandlersOK(hs, st, S, T, n)
<1>1. StackOK(<<>>, S, T, n) /\ <<>> \in Seq(FrameRecord)
  BY StackNew
<1>2. QED
  BY <1>1 DEF HandlersOK, BarrierOK

\* The channel object dies: handlers and barriers go, log and table stay.
LEMMA CrashKeeps ==
  ASSUME CallsInv, Crash
  PROVE  CallsInv' /\ LogStep
<1>1. /\ starts' = [c \in Call |-> None] /\ handlers' = [h \in Task |-> <<>>]
      /\ UNCHANGED <<store, late, answered>> /\ target' = target
  BY DEF Crash
<1>2. HandlersOK(handlers', starts', StartedCalls, SettledCalls, Len(log))
  BY <1>1, NobodyOK
<1>3. target' \in {"rpc", "do", "gone"}
  BY <1>1 DEF CallsInv, WorldOK
<1>4. QED
  BY <1>1, <1>2, <1>3, OpensOnly

-----------------------------------------------------------------------------
(* The inductive invariant, and what follows.                              *)

\* The invariant holds at first.
LEMMA InitCalls == Init => CallsInv
<1> SUFFICES ASSUME Init PROVE CallsInv
  OBVIOUS
<1>1. log = <<>> /\ log \in Seq(Entry) /\ Len(log) = 0 /\ DOMAIN log = {}
  BY DEF Init
<1>2. \A kind, c : At(kind, c) = {}
  BY <1>1 DEF At
<1>3. StartedCalls = {} /\ SettledCalls = {}
  BY <1>2 DEF StartedCalls, SettledCalls, IsStarted, IsSettled
<1>4. LogOK
  BY <1>1, <1>2, <1>3 DEF LogOK, Once
<1>5. RowsOK
  BY <1>1 DEF Init, RowsOK, TableOK, RowKind
<1>6. WorldOK
  BY DEF Init, WorldOK
<1>7. HandlersOK(handlers, starts, StartedCalls, SettledCalls, Len(log))
  BY NobodyOK DEF Init
<1>8. QED
  BY <1>4, <1>5, <1>6, <1>7 DEF CallsInv

\* Whatever a task that waits goes on with keeps the invariant.
LEMMA ContinueKeeps ==
  ASSUME CallsInv, Quiescent, NEW h \in Task, Continue(h)
  PROVE  CallsInv' /\ LogStep
BY LookForTerminalKeeps, AppendStartedKeeps, DropRowKeeps, InsertRowKeeps, LookupTerminalKeeps,
   GetHeadSeqKeeps, CompareHeadKeeps, ReadLogKeeps, ApplyReconcileKeeps, ConfirmMissingKeeps,
   HasRootKeeps, PlantRootKeeps, ThrowKeeps, CheckTerminalKeeps, AppendTerminalKeeps,
   FinishSettleKeeps, AppendOutputKeeps, NoteOutputKeeps, AppendOtherKeeps
   DEF Continue, PlantRefused

\* Every step keeps the invariant, and does to the log one of four things.
LEMMA NextKeeps ==
  ASSUME CallsInv, [Next]_vars
  PROVE  CallsInv' /\ LogStep
<1>1. CASE \E h \in Task : AtOnce(h)
  BY <1>1, AtOnceKeeps
<1>2. CASE Quiescent /\ \E h \in Task : Continue(h) \/ OnMethodCall(h) \/ Fault(h)
  BY <1>2, ContinueKeeps, OnMethodCallKeeps, ThrowKeeps DEF Fault
<1>3. CASE \E h \in Handler : Request(h)
  BY <1>3, CallMethodKeeps, ResolveKeeps, UnsubscribeKeeps DEF Request
<1>4. CASE (\E c \in Call : DeadlinePasses(c)) \/ Publish
  BY <1>4, WorldKeeps
<1>5. CASE Alarm
  BY <1>5, AlarmKeeps
<1>6. CASE Crash
  BY <1>6, CrashKeeps
<1>7. CASE UNCHANGED vars
  <2>1. UNCHANGED <<store, world>> /\ handlers' = handlers /\ starts' = starts
    BY <1>7 DEF vars, store, world
  <2>2. QED
    BY <2>1, LogFacts, StacksOnly
<1>8. QED
  BY <1>1, <1>2, <1>3, <1>4, <1>5, <1>6, <1>7 DEF Next

\* The invariant of ChannelCalls: log, table, environment and stacks are sound.
LEMMA CallsInvariant == Spec => []CallsInv
<1>1. CallsInv /\ [Next]_vars => CallsInv'
  BY NextKeeps
<1>2. QED
  BY InitCalls, <1>1, PTL DEF Spec

\* Whatever requests race, fail, are repeated or are cut off by a crash, the log of
\* the channel is the ledger: each call is issued once and settled at most once,
\* after it was issued.  AppendOnce is what this rests on, and that a terminal is
\* appended only behind ensureMethodRoot.
THEOREM CallsImplementLedger == Spec => ImplementsLedger
<1>1. Init => Ledger!Init
  <2> SUFFICES ASSUME Init PROVE Ledger!Init
    OBVIOUS
  <2>1. \A kind, c : At(kind, c) = {}
    BY DEF Init, At
  <2>2. QED
    BY <2>1 DEF Ledger!Init, ledger, IsStarted, IsSettled
<1>2. CallsInv /\ [Next]_vars => [Ledger!Next]_ledger
  BY NextKeeps, LedgerStep DEF CallsInv
<1>3. QED
  BY <1>1, <1>2, CallsInvariant, PTL DEF Spec, ImplementsLedger, Ledger!Spec

\* The log holds a start and a terminal of a call at most once, the table and the
\* seq it was compared at stay within the log, and a barrier stands only as long as
\* its start is being journaled.
THEOREM CallsTypeOK == Spec => []TypeOK
<1>1. CallsInv => TypeOK
  <2> SUFFICES ASSUME CallsInv PROVE TypeOK
    OBVIOUS
  <2>1. ASSUME NEW kind \in {"started", "terminal"}, NEW c \in Call
        PROVE  Cardinality(At(kind, c)) <= 1
    <3>1. \A i, j \in At(kind, c) : i = j
      BY DEF CallsInv, LogOK, Once
    <3>2. CASE At(kind, c) = {}
      BY <3>2, FS_EmptySet
    <3>3. CASE At(kind, c) # {}
      <4>1. PICK i : At(kind, c) = {i}
        BY <3>1, <3>3
      <4>2. QED
        BY <4>1, FS_Singleton
    <3>4. QED
      BY <3>2, <3>3
  <2>2. rows \in [Call -> {"none", "plain", "timed"}] /\ through \in 0..Len(log)
    BY LogFacts DEF CallsInv, RowsOK, TableOK, RowKind
  <2>3. \A c \in Call : starts[c] # None =>
          ~Idle(starts[c]) /\ Top(starts[c]).call = c /\ Top(starts[c]).do \in Journaling
    BY DEF CallsInv, HandlersOK, BarrierOK, Journals, Idle, Top
  <2>4. ASSUME NEW h \in Task, NEW k \in DOMAIN handlers[h] PROVE handlers[h][k].do \in FrameType
    <3>1. handlers[h] \in Seq(FrameRecord)
      BY LogFacts
    <3>2. handlers[h][k] \in FrameRecord
      BY <3>1
    <3>3. QED
      BY <3>2 DEF FrameRecord
  <2>5. target \in {"rpc", "do", "gone"} /\ late \subseteq Timed /\ answered \subseteq Call
    BY DEF CallsInv, WorldOK, SettledCalls
  <2>6. QED
    BY <2>1, <2>2, <2>3, <2>4, <2>5 DEF TypeOK
<1>2. QED
  BY <1>1, CallsInvariant, PTL

\* An answer that submitMethodResult acknowledged has settled its call, or found it
\* settled: it is never dropped.
THEOREM CallsAnswersSettle == Spec => []AnswersSettle
<1>1. CallsInv => AnswersSettle
  BY DEF CallsInv, WorldOK, AnswersSettle, SettledCalls
<1>2. QED
  BY <1>1, CallsInvariant, PTL

\* Who waits in awaitInFlightStart waits for a start that is being journaled, also
\* when another call of the same id replaced the barrier, and when starts fail.
THEOREM CallsWaitersAreReleased == Spec => []WaitersAreReleased
<1>1. CallsInv => WaitersAreReleased
  BY TopFacts DEF WaitersAreReleased, Waits, TopOK, Journals, Idle, Top
<1>2. QED
  BY <1>1, CallsInvariant, PTL

\* ensureMethodRoot plants a start only for a request that came past the barrier
\* when the log had none and none was in flight, or, after the start that it waited
\* for has failed, when the call was being issued again.
THEOREM CallsRootsAreStray == Spec => RootsAreStray
<1>1. ASSUME CallsInv, [Next]_vars, NEW h \in Task, Waits(h, "plant"),
             log' = Append(log, Started(Top(h).call, "root"))
      PROVE  Top(h).why \in {"stray", "failed", "again"}
  <2>0. PICK c : c = Top(h).call
    OBVIOUS
  <2>1. ~Idle(h) /\ Top(h).do = "plant"
    BY <1>1 DEF Waits
  <2>2. FrameOK(Top(h), StartedCalls, SettledCalls, Len(log)) /\ LogOK /\ log \in Seq(Entry)
    BY <1>1, <2>1, TopFacts, LogFacts
  <2>3. Serves(Top(h), StartedCalls) /\ c \in Call
    BY <2>0, <2>1, <2>2, ServingFacts DEF Settles
  <2>4. c \in StartedCalls \/ Top(h).why # "no"
    BY <2>0, <2>1, <2>3 DEF Serves
  <2>a. Top(h).why \in Why
    BY <2>2 DEF FrameOK, FrameRecord
  <2>5. LogOK'
    BY <1>1, <2>2, NextKeeps, LogKeeps
  <2>6. /\ Started(c, "root") \in Entry /\ Started(c, "root").kind = "started"
        /\ Started(c, "root").call = c
    BY <2>3, EventTypes
  <2>7. At("started", c)' = At("started", c) \cup {Len(log) + 1}
    BY <1>1, <2>0, <2>2, <2>6, AppendAt
  <2>8. Len(log) + 1 \notin At("started", c)
    <3>1. Len(log) \in Nat /\ At("started", c) \subseteq 1..Len(log)
      BY <2>2 DEF At
    <3>2. QED
      BY <3>1
  <2>9. At("started", c) = {}
    BY <2>3, <2>5, <2>7, <2>8 DEF LogOK, Once
  <2>10. QED
    BY <2>4, <2>a, <2>9 DEF StartedCalls, IsStarted, Why
<1>2. CallsInv /\ [Next]_vars =>
        [\A h \in Task : Waits(h, "plant") /\ log' = Append(log, Started(Top(h).call, "root"))
           => Top(h).why \in {"stray", "failed", "again"}]_vars
  BY <1>1
<1>3. QED
  BY <1>2, CallsInvariant, PTL DEF Spec, RootsAreStray
=============================================================================
