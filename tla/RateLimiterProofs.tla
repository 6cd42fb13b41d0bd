-------------------------- MODULE RateLimiterProofs --------------------------
(***************************************************************************)
(* Theorems about RateLimiter, for every limit, window and clock.          *)
(***************************************************************************)
EXTENDS RateLimiter, TLAPS

\* The requests of one agent at time t: their times T, its window, its promise.
\* The window holds the last count of them, and the MaxRpm-th request before
\* its first was more than a window earlier.
AgentInv(t, T, win, promise) ==
  /\ \A i, j \in 1..Len(T) : i <= j => T[i] <= T[j]
  /\ \A i \in 1..Len(T) : T[i] <= t
  /\ win.count <= Len(T)
  /\ win.count = 0 => Len(T) = 0
  /\ win.count > 0 => T[Len(T) - win.count + 1] = win.start
  /\ \A i \in 1..Len(T) :
        win.count > 0 /\ i + MaxRpm = Len(T) - win.count + 1 =>
           win.start - T[i] > Length
  /\ \A i, j \in 1..Len(T) : j = i + 2 * MaxRpm - 1 => T[j] - T[i] > Length
  /\ promise # 0 => win.count > 0 /\ promise > win.start + Length

Inv == TypeOK /\ \A a \in Agents : AgentInv(now, admitted[a], windows[a], retryAt[a])

LEMMA LengthType == Length \in Nat \ {0}
  BY LimiterAssumption DEF Length

LEMMA InitInv == Init => Inv
  BY LimiterAssumption DEF Init, Inv, TypeOK, AgentInv

\* The header's seconds, in ticks, reach past the end of the window.
LEMMA RetryReaches ==
  ASSUME NEW left \in Nat
  PROVE  /\ (left \div Second + 1) * Second > left
         /\ (left \div Second + 1) * Second \in Nat
<1>1. Second \in Nat \ {0} /\ left \div Second \in Nat
  BY LimiterAssumption
<1>2. (left \div Second + 1) * Second > left
  BY <1>1
<1>3. \A q, m \in Nat : q * m \in Nat
  OBVIOUS
<1> QED BY <1>1, <1>2, <1>3

\* One request more, at the time of now, keeps the order of the times.
LEMMA AppendTime ==
  ASSUME NEW T \in Seq(Nat), now \in Nat,
         \A i, j \in 1..Len(T) : i <= j => T[i] <= T[j],
         \A i \in 1..Len(T) : T[i] <= now
  PROVE  /\ Len(Append(T, now)) = Len(T) + 1
         /\ Append(T, now)[Len(T) + 1] = now
         /\ \A i \in 1..Len(T) : Append(T, now)[i] = T[i] /\ T[i] \in Nat
         /\ \A i \in 1..(Len(T) + 1) : Append(T, now)[i] <= now
         /\ \A i, j \in 1..(Len(T) + 1) : i <= j => Append(T, now)[i] <= Append(T, now)[j]
<1> DEFINE n == Len(T)  U == Append(T, now)
<1>1. /\ n \in Nat /\ Len(U) = n + 1 /\ U[n + 1] = now
      /\ \A i \in 1..n : U[i] = T[i] /\ T[i] \in Nat /\ T[i] <= now
      /\ \A i, j \in 1..n : i <= j => T[i] <= T[j]
  OBVIOUS
<1> HIDE DEF n, U
<1>2. \A i \in 1..(n + 1) : i \in 1..n \/ i = n + 1
  BY <1>1
<1>3. \A i \in 1..(n + 1) : U[i] <= now
  BY <1>1, <1>2
<1>4. \A i, j \in 1..(n + 1) : i <= j => U[i] <= U[j]
  <2> SUFFICES ASSUME NEW i \in 1..(n + 1), NEW j \in 1..(n + 1), i <= j
               PROVE  U[i] <= U[j]
    OBVIOUS
  <2>1. CASE j = n + 1
    BY <1>1, <1>3, <2>1
  <2>2. CASE j \in 1..n
    <3>1. i \in 1..n
      BY <1>1, <2>2
    <3> QED BY <1>1, <2>2, <3>1
  <2> QED BY <1>2, <2>1, <2>2
<1> QED BY <1>1, <1>3, <1>4 DEF n, U

\* What is left to show of a request that is let through, into the window win.
LEMMA Admitted ==
  ASSUME NEW T \in Seq(Nat), NEW win \in [start : Nat, count : 1..MaxRpm],
         now \in Nat, win.count <= Len(T) + 1,
         \A i, j \in 1..Len(T) : i <= j => T[i] <= T[j],
         \A i \in 1..Len(T) : T[i] <= now,
         \A i, j \in 1..Len(T) : j = i + 2 * MaxRpm - 1 => T[j] - T[i] > Length,
         Append(T, now)[Len(T) + 2 - win.count] = win.start,
         \A i \in 1..Len(T) :
            i + MaxRpm = Len(T) + 2 - win.count => win.start - T[i] > Length
  PROVE  AgentInv(now, Append(T, now), win, 0)
<1> DEFINE n == Len(T)  U == Append(T, now)
<1>1. /\ n \in Nat /\ Len(U) = n + 1 /\ U[n + 1] = now
      /\ \A i \in 1..n : U[i] = T[i] /\ T[i] \in Nat
      /\ \A i \in 1..(n + 1) : U[i] <= now
      /\ \A i, j \in 1..(n + 1) : i <= j => U[i] <= U[j]
  <2>1. n \in Nat /\ \A i \in 1..n : T[i] \in Nat
    OBVIOUS
  <2>2. /\ Len(U) = n + 1 /\ U[n + 1] = now
        /\ \A i \in 1..n : U[i] = T[i] /\ T[i] \in Nat
        /\ \A i \in 1..(n + 1) : U[i] <= now
        /\ \A i, j \in 1..(n + 1) : i <= j => U[i] <= U[j]
    <3> HIDE DEF n, U
    <3> QED BY AppendTime DEF n, U
  <2> QED BY <2>1, <2>2
<1>2. /\ win.count \in Nat \ {0} /\ win.count <= MaxRpm /\ win.start \in Nat
      /\ MaxRpm \in Nat \ {0} /\ Length \in Nat
  BY LimiterAssumption, LengthType
<1>3. /\ \A i, j \in 1..n : j = i + 2 * MaxRpm - 1 => T[j] - T[i] > Length
      /\ U[n + 2 - win.count] = win.start
      /\ \A i \in 1..n : i + MaxRpm = n + 2 - win.count => win.start - T[i] > Length
      /\ win.count <= n + 1
  OBVIOUS
<1> HIDE DEF n, U
<1>4. \A i \in 1..(n + 1) : i + MaxRpm = n + 2 - win.count => win.start - U[i] > Length
  <2> SUFFICES ASSUME NEW i \in 1..(n + 1), i + MaxRpm = n + 2 - win.count
               PROVE  win.start - U[i] > Length
    OBVIOUS
  <2>1. i \in 1..n
    BY <1>1, <1>2
  <2> QED BY <1>1, <1>3, <2>1
<1>5. \A i, j \in 1..(n + 1) : j = i + 2 * MaxRpm - 1 => U[j] - U[i] > Length
  <2> SUFFICES ASSUME NEW i \in 1..(n + 1), NEW j \in 1..(n + 1),
                      j = i + 2 * MaxRpm - 1
               PROVE  U[j] - U[i] > Length
    OBVIOUS
  <2>1. CASE j \in 1..n
    <3>1. i \in 1..n
      BY <1>1, <1>2, <2>1
    <3> QED BY <1>1, <1>3, <2>1, <3>1
  <2>2. CASE j = n + 1
    <3> DEFINE m == n + 2 - win.count - MaxRpm
    <3>1. m \in 1..(n + 1) /\ i <= m /\ m + MaxRpm = n + 2 - win.count /\ m \in 1..n
      <4>1. /\ n \in Nat /\ i \in Nat \ {0} /\ win.count \in Nat \ {0}
            /\ MaxRpm \in Nat \ {0} /\ win.count <= MaxRpm
            /\ n + 1 = i + 2 * MaxRpm - 1
        BY <1>1, <1>2, <2>2
      <4>2. /\ n + 2 - win.count - MaxRpm \in 1..n
            /\ i <= n + 2 - win.count - MaxRpm
            /\ n + 2 - win.count - MaxRpm + MaxRpm = n + 2 - win.count
        BY ONLY <4>1
      <4> QED BY <1>1, <4>2
    <3> HIDE DEF m
    <3>2. win.start - U[m] > Length /\ U[i] <= U[m] /\ U[m] \in Nat
      BY <1>1, <1>4, <3>1
    <3>3. n + 2 - win.count \in 1..(n + 1)
      BY <1>1, <1>2, <1>3
    <3>4. win.start <= now
      BY <1>1, <1>3, <3>3
    <3>5. i \in 1..n
      BY <1>1, <3>1
    <3>6. U[i] \in Nat /\ U[j] = now
      BY <1>1, <2>2, <3>5
    <3> QED BY <1>2, <3>2, <3>4, <3>6
  <2>3. j \in 1..n \/ j = n + 1
    BY <1>1
  <2> QED BY <2>1, <2>2, <2>3
<1>6. Len(U) - win.count + 1 = n + 2 - win.count
  BY <1>1, <1>2
<1>7. AgentInv(now, U, win, 0)
  BY <1>1, <1>2, <1>3, <1>4, <1>5, <1>6 DEF AgentInv
<1> QED BY <1>7 DEF U

\* A request in the open window.
LEMMA CountAgent ==
  ASSUME NEW T \in Seq(Nat), NEW win \in [start : Nat, count : 0..MaxRpm],
         NEW promise \in Nat, now \in Nat, AgentInv(now, T, win, promise),
         win.count > 0, win.count < MaxRpm
  PROVE  AgentInv(now, Append(T, now), [start |-> win.start, count |-> win.count + 1], 0)
<1> DEFINE w == [start |-> win.start, count |-> win.count + 1]
<1>1. /\ w \in [start : Nat, count : 1..MaxRpm]
      /\ w.start = win.start /\ w.count = win.count + 1
      /\ win.count \in Nat /\ MaxRpm \in Nat /\ Len(T) \in Nat
  BY LimiterAssumption
<1> HIDE DEF w
<1>2. /\ win.count <= Len(T) /\ T[Len(T) - win.count + 1] = win.start
      /\ Len(T) + 2 - w.count = Len(T) - win.count + 1
      /\ Len(T) - win.count + 1 \in 1..Len(T)
  <2>1. win.count <= Len(T) /\ T[Len(T) - win.count + 1] = win.start
    BY DEF AgentInv
  <2>2. /\ Len(T) - win.count + 1 \in 1..Len(T)
        /\ Len(T) + 2 - (win.count + 1) = Len(T) - win.count + 1
    <3>1. Len(T) \in Nat /\ win.count \in Nat /\ win.count > 0 /\ win.count <= Len(T)
      BY <1>1, <2>1
    <3> QED BY ONLY <3>1
  <2> QED BY <1>1, <2>1, <2>2, Zenon
<1>3. Append(T, now)[Len(T) + 2 - w.count] = w.start
  <2> DEFINE k == Len(T) - win.count + 1
  <2>1. k \in 1..Len(T) => Append(T, now)[k] = T[k]
    OBVIOUS
  <2> QED BY <1>1, <1>2, <2>1
<1>4. /\ \A i, j \in 1..Len(T) : i <= j => T[i] <= T[j]
      /\ \A i \in 1..Len(T) : T[i] <= now
      /\ \A i, j \in 1..Len(T) : j = i + 2 * MaxRpm - 1 => T[j] - T[i] > Length
      /\ \A i \in 1..Len(T) :
            i + MaxRpm = Len(T) + 2 - w.count => w.start - T[i] > Length
  BY <1>1, <1>2 DEF AgentInv
<1>5. w.count <= Len(T) + 1
  BY <1>1, <1>2
<1>6. AgentInv(now, Append(T, now), w, 0)
  BY <1>1, <1>3, <1>4, <1>5, Admitted
<1> QED BY <1>6 DEF w

\* The first request of a new window.
LEMMA NewAgent ==
  ASSUME NEW T \in Seq(Nat), NEW win \in [start : Nat, count : 0..MaxRpm],
         NEW promise \in Nat, now \in Nat, AgentInv(now, T, win, promise),
         win.count > 0 => now - win.start > Length
  PROVE  AgentInv(now, Append(T, now), [start |-> now, count |-> 1], 0)
<1> DEFINE w == [start |-> now, count |-> 1]
<1>1. /\ w \in [start : Nat, count : 1..MaxRpm] /\ w.start = now /\ w.count = 1
      /\ win.count \in Nat /\ win.count <= MaxRpm /\ win.start \in Nat
      /\ MaxRpm \in Nat \ {0} /\ Len(T) \in Nat /\ Length \in Nat
      /\ \A i \in 1..Len(T) : T[i] \in Nat
  BY LimiterAssumption, LengthType
<1> HIDE DEF w
<1>2. ASSUME NEW i \in 1..Len(T), i + MaxRpm = Len(T) + 1
      PROVE  now - T[i] > Length
  <2> DEFINE k == Len(T) - win.count + 1
  <2>1. win.count > 0 /\ k \in 1..Len(T) /\ T[k] = win.start /\ i <= k
    <3>1. /\ win.count <= Len(T) /\ win.count > 0
          /\ T[k] = win.start
      BY <1>1, <1>2 DEF AgentInv
    <3> DEFINE n == Len(T)  c == win.count  m == MaxRpm
    <3>2. n \in Nat /\ c \in Nat /\ m \in Nat /\ i \in 1..n /\ k = n - c + 1
      BY <1>1
    <3>3. i + m = n + 1 /\ c <= m /\ c <= n /\ c > 0
      BY <1>1, <1>2, <3>1
    <3> HIDE DEF n, c, m, k
    <3>4. k \in 1..n /\ i <= k
      BY <3>2, <3>3
    <3> QED BY <3>1, <3>4 DEF n
  <2> HIDE DEF k
  <2>2. T[i] <= T[k]
    BY <2>1 DEF AgentInv
  <2> QED BY <1>1, <2>1, <2>2
<1>3. Append(T, now)[Len(T) + 2 - w.count] = w.start
  <2>1. Append(T, now)[Len(T) + 1] = now
    OBVIOUS
  <2>2. Len(T) + 2 - w.count = Len(T) + 1
    BY ONLY <1>1
  <2> QED BY <1>1, <2>1, <2>2
<1>4. /\ \A i, j \in 1..Len(T) : i <= j => T[i] <= T[j]
      /\ \A i \in 1..Len(T) : T[i] <= now
      /\ \A i, j \in 1..Len(T) : j = i + 2 * MaxRpm - 1 => T[j] - T[i] > Length
  BY DEF AgentInv
<1>5. \A i \in 1..Len(T) : i + MaxRpm = Len(T) + 2 - w.count => w.start - T[i] > Length
  BY <1>1, <1>2
<1>6. w.count <= Len(T) + 1
  BY <1>1
<1>7. AgentInv(now, Append(T, now), w, 0)
  BY <1>1, <1>3, <1>4, <1>5, <1>6, Admitted
<1> QED BY <1>7 DEF w

\* What holds of an agent's requests at a time holds of them later.
LEMMA Later ==
  ASSUME NEW T \in Seq(Nat), NEW win, NEW promise, NEW t \in Nat, NEW u \in Nat,
         u >= t, AgentInv(t, T, win, promise)
  PROVE  AgentInv(u, T, win, promise)
<1>1. \A i \in 1..Len(T) : T[i] \in Nat /\ T[i] <= t
  BY DEF AgentInv
<1>2. \A i \in 1..Len(T) : T[i] <= u
  BY <1>1
<1> QED BY <1>2 DEF AgentInv

LEMMA NextInv == Inv /\ [Next]_vars => Inv'
<1> SUFFICES ASSUME Inv, [Next]_vars PROVE Inv'
  OBVIOUS
<1> USE LengthType
<1>0. /\ TypeOK /\ now \in Nat
      /\ \A a \in Agents : /\ admitted[a] \in Seq(Nat) /\ retryAt[a] \in Nat
                           /\ windows[a] \in [start : Nat, count : 0..MaxRpm]
                           /\ AgentInv(now, admitted[a], windows[a], retryAt[a])
  BY DEF Inv, TypeOK
<1>1. CASE UNCHANGED vars
  BY <1>0, <1>1 DEF vars, Inv, TypeOK
<1>2. CASE Tick
  <2>1. TypeOK' /\ now' \in Nat /\ now' >= now
    BY <1>0, <1>2 DEF Tick, TypeOK
  <2>2. ASSUME NEW a \in Agents
        PROVE  AgentInv(now, admitted[a], windows[a], retryAt[a])'
    <3>1. AgentInv(now', admitted[a], windows[a], retryAt[a])
      BY <1>0, <2>1, Later
    <3> QED BY <1>2, <3>1 DEF Tick
  <2> QED BY <2>1, <2>2 DEF Inv
<1>3. ASSUME NEW a \in Agents, Admit(a), NEW w \in [start : Nat, count : 0..MaxRpm],
             windows' = [windows EXCEPT ![a] = w],
             AgentInv(now, Append(admitted[a], now), w, 0)
      PROVE  Inv'
  <2>1. /\ admitted'[a] = Append(admitted[a], now) /\ windows'[a] = w
        /\ retryAt'[a] = 0 /\ now' = now
        /\ \A b \in Agents \ {a} : /\ admitted'[b] = admitted[b]
                                   /\ windows'[b] = windows[b]
                                   /\ retryAt'[b] = retryAt[b]
    BY <1>0, <1>3 DEF Admit, TypeOK
  <2>2. TypeOK'
    BY <1>0, <1>3 DEF Admit, TypeOK
  <2>3. ASSUME NEW b \in Agents
        PROVE  AgentInv(now, admitted[b], windows[b], retryAt[b])'
    <3>1. CASE b = a
      BY <1>3, <2>1, <3>1
    <3>2. CASE b # a
      BY <1>0, <2>1, <3>2
    <3> QED BY <3>1, <3>2
  <2> QED BY <2>2, <2>3 DEF Inv
<1>4. ASSUME NEW a \in Agents, NewWindow(a) PROVE Inv'
  <2> DEFINE w == [start |-> now, count |-> 1]
  <2>1. w \in [start : Nat, count : 0..MaxRpm]
    BY <1>0, LimiterAssumption
  <2>2. windows[a].count > 0 => now - windows[a].start > Length
    BY <1>0, <1>4 DEF NewWindow, Over, Elapsed, Seen
  <2>3. AgentInv(now, Append(admitted[a], now), w, 0)
    BY <1>0, <2>2, NewAgent
  <2> QED BY <1>3, <1>4, <2>1, <2>3 DEF NewWindow
<1>5. ASSUME NEW a \in Agents, Count(a) PROVE Inv'
  <2> DEFINE w == [start |-> Seen(a).start, count |-> Seen(a).count + 1]
  <2>1. w \in [start : Nat, count : 0..MaxRpm]
    BY <1>0, <1>5, LimiterAssumption DEF Count, Full, Seen
  <2>2. CASE windows[a].count = 0
    <3>1. AgentInv(now, Append(admitted[a], now), [start |-> now, count |-> 1], 0)
      BY <1>0, <2>2, NewAgent
    <3>2. w = [start |-> now, count |-> 1]
      BY <2>2 DEF Seen
    <3> QED BY <1>3, <1>5, <2>1, <3>1, <3>2 DEF Count
  <2>3. CASE windows[a].count # 0
    <3>1. windows[a].count > 0 /\ windows[a].count < MaxRpm
      BY <1>0, <1>5, <2>3, LimiterAssumption DEF Count, Full, Seen
    <3>2. w = [start |-> windows[a].start, count |-> windows[a].count + 1]
      BY <2>3 DEF Seen
    <3>3. AgentInv(now, Append(admitted[a], now), w, 0)
      BY <1>0, <3>1, <3>2, CountAgent
    <3> QED BY <1>3, <1>5, <2>1, <3>3 DEF Count
  <2> QED BY <2>2, <2>3
<1>6. ASSUME NEW a \in Agents, Refuse(a) PROVE Inv'
  <2> DEFINE left == Length - Elapsed(a)
             back == (left \div Second + 1) * Second
  <2>1. windows[a].count > 0 /\ Seen(a) = windows[a]
    BY <1>0, <1>6, LimiterAssumption DEF Refuse, Full, Seen
  <2>2. windows[a].start <= now
    <3>1. Len(admitted[a]) - windows[a].count + 1 \in 1..Len(admitted[a])
      BY <1>0, <2>1 DEF AgentInv
    <3> QED BY <1>0, <2>1, <3>1 DEF AgentInv
  <2>3. left \in Nat /\ left = Length - (now - windows[a].start)
    BY <1>0, <1>6, <2>1, <2>2 DEF Refuse, Over, Elapsed
  <2> HIDE DEF left
  <2>4. back > left /\ back \in Nat
    BY <2>3, RetryReaches
  <2>5. retryAt' = [retryAt EXCEPT ![a] = now + back]
    BY <1>6 DEF Refuse, RetryAfter, left
  <2> HIDE DEF back
  <2>6. UNCHANGED <<now, windows, admitted>>
    BY <1>6 DEF Refuse
  <2>7. TypeOK'
    BY <1>0, <2>4, <2>5, <2>6 DEF TypeOK
  <2>8. retryAt'[a] > windows[a].start + Length
    BY <1>0, <2>3, <2>4, <2>5 DEF TypeOK
  <2>9. ASSUME NEW b \in Agents
        PROVE  AgentInv(now, admitted[b], windows[b], retryAt[b])'
    <3>1. CASE b = a
      BY <1>0, <2>1, <2>6, <2>8, <3>1 DEF AgentInv
    <3>2. CASE b # a
      BY <1>0, <2>5, <2>6, <3>2 DEF AgentInv, TypeOK
    <3> QED BY <3>1, <3>2
  <2> QED BY <2>7, <2>9 DEF Inv
<1> QED BY <1>1, <1>2, <1>4, <1>5, <1>6 DEF Next

LEMMA Invariance == Spec => []Inv
BY InitInv, NextInv, PTL DEF Spec

-----------------------------------------------------------------------------
(***************************************************************************)
(* Theorems                                                                *)
(***************************************************************************)

\* Every variable keeps its type; no count passes the limit.
THEOREM TypeCorrect == Spec => []TypeOK
<1>1. Inv => TypeOK
  BY DEF Inv
<1> QED BY <1>1, Invariance, PTL

\* What the fixed window of dispatch does promise about any 60 seconds.
THEOREM Bursts == Spec => []BurstBound
<1>1. Inv => BurstBound
  BY DEF Inv, BurstBound, AgentInv
<1> QED BY <1>1, Invariance, PTL

\* A refusal has MaxRpm requests of the last 60 seconds to show for it: no
\* request of another agent, of an older window or refused before counts.
THEOREM RefusalsAreDeserved == Spec => []RefusedForCause
<1>1. ASSUME Inv, NEW a \in Agents, ~ Over(a), Full(a)
      PROVE  /\ Len(admitted[a]) >= MaxRpm
             /\ now - admitted[a][Len(admitted[a]) - MaxRpm + 1] <= Length
  <2>1. /\ now \in Nat /\ Len(admitted[a]) \in Nat /\ MaxRpm \in Nat \ {0}
        /\ windows[a] \in [start : Nat, count : 0..MaxRpm]
        /\ AgentInv(now, admitted[a], windows[a], retryAt[a])
    BY <1>1, LimiterAssumption DEF Inv, TypeOK
  <2>2. Seen(a) = windows[a] /\ windows[a].count = MaxRpm
    BY <1>1, <2>1 DEF Full, Seen
  <2>3. now - windows[a].start <= Length
    BY <1>1, <2>1, <2>2, LengthType DEF Over, Elapsed
  <2>4. /\ MaxRpm <= Len(admitted[a])
        /\ admitted[a][Len(admitted[a]) - MaxRpm + 1] = windows[a].start
    BY <2>1, <2>2 DEF AgentInv
  <2> QED BY <2>1, <2>3, <2>4
<1>2. Inv => RefusedForCause
  BY <1>1 DEF RefusedForCause
<1> QED BY <1>2, Invariance, PTL

\* The Retry-After of a 429 is neither early nor rounded down.
THEOREM RetryIsEnough == Spec => []RetryAfterWorks
<1>1. ASSUME Inv, NEW a \in Agents, retryAt[a] # 0, now >= retryAt[a]
      PROVE  Over(a)
  <2>1. /\ now \in Nat /\ retryAt[a] \in Nat /\ windows[a].start \in Nat
        /\ windows[a].count > 0 /\ retryAt[a] > windows[a].start + Length
    BY <1>1 DEF Inv, TypeOK, AgentInv
  <2> QED BY <1>1, <2>1, LengthType DEF Over, Elapsed, Seen
<1>2. Inv => RetryAfterWorks
  BY <1>1 DEF RetryAfterWorks
<1> QED BY <1>2, Invariance, PTL

=============================================================================
