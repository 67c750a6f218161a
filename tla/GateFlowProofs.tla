---------------------------- MODULE GateFlowProofs ----------------------------
(***************************************************************************)
(* Theorems about GateRegistry, for any gates, any way policies open them  *)
(* and any number of crashes; then about GateFlow, for any callers, gates, *)
(* deadlines and clocks: the first three hold whatever the log loses, the  *)
(* others if appends reach the file whole (LogFaults = {}).                *)
(***************************************************************************)
EXTENDS GateFlow, Induction

-----------------------------------------------------------------------------
(* The last line about a gate.                                             *)

LEMMA LastLineUnique ==
  ASSUME NEW f \in Seq(Line), NEW g, NEW T, NEW i, NEW j,
         IsLastLine(f, g, T, i), IsLastLine(f, g, T, j)
  PROVE  i = j
<1>1. i \in Nat /\ j \in Nat
  BY DEF IsLastLine
<1>2. QED
  BY <1>1 DEF IsLastLine

LEMMA LastLineIs ==
  ASSUME NEW f \in Seq(Line), NEW g, NEW T, NEW i, IsLastLine(f, g, T, i)
  PROVE  LastLine(f, g, T) = f[i]
<1> DEFINE k == CHOOSE n \in DOMAIN f : IsLastLine(f, g, T, n)
<1>1. i \in DOMAIN f
  BY DEF IsLastLine
<1>2. IsLastLine(f, g, T, k)
  BY <1>1
<1>3. k = i
  BY <1>2, LastLineUnique
<1>4. QED
  BY <1>3 DEF LastLine

LEMMA AppendedLine ==
  ASSUME NEW f \in Seq(Line), NEW l \in Line
  PROVE  /\ Append(f, l) \in Seq(Line)
         /\ Len(f) \in Nat
         /\ DOMAIN f = 1 .. Len(f)
         /\ DOMAIN Append(f, l) = 1 .. Len(f) + 1
         /\ Append(f, l)[Len(f) + 1] = l
         /\ \A i \in DOMAIN f : Append(f, l)[i] = f[i]
  OBVIOUS

\* An appended line that is about g becomes the last one.
LEMMA LastLineNew ==
  ASSUME NEW f \in Seq(Line), NEW l \in Line, NEW g, NEW T, l.gate = g, l.type \in T
  PROVE  IsLastLine(Append(f, l), g, T, Len(f) + 1)
  BY AppendedLine DEF IsLastLine

\* Any other line leaves the last one where it is.
LEMMA LastLineOld ==
  ASSUME NEW f \in Seq(Line), NEW l \in Line, NEW g, NEW T, ~(l.gate = g /\ l.type \in T),
         NEW i, IsLastLine(f, g, T, i)
  PROVE  IsLastLine(Append(f, l), g, T, i) /\ Append(f, l)[i] = f[i]
<1>1. i \in DOMAIN f /\ i \in DOMAIN Append(f, l) /\ Append(f, l)[i] = f[i]
  BY AppendedLine DEF IsLastLine
<1>2. \A j \in DOMAIN Append(f, l) :
        (j \in DOMAIN f /\ Append(f, l)[j] = f[j]) \/ Append(f, l)[j] = l
  BY AppendedLine
<1>3. QED
  BY <1>1, <1>2 DEF IsLastLine

Registered(f, g) == \E i \in DOMAIN f : f[i].gate = g /\ f[i].type = "register"

\* A gate with a register line has a last line, and a last register line.
LastLinesExist(f) ==
  \A g \in Gates : Registered(f, g) =>
    /\ \E i : IsLastLine(f, g, AllTypes, i)
    /\ \E i : IsLastLine(f, g, {"register"}, i)

LEMMA LineTyped ==
  \A l \in Line : l.gate \in Gates /\ l.type \in AllTypes
    /\ (l.type = "register" => l.opened \in Opened)
  BY DEF Line, AllTypes

LEMMA RegisteredAppend ==
  ASSUME NEW f \in Seq(Line), NEW l \in Line, NEW g
  PROVE  Registered(Append(f, l), g) <=>
           Registered(f, g) \/ (l.gate = g /\ l.type = "register")
<1>1. Registered(f, g) => Registered(Append(f, l), g)
  BY AppendedLine DEF Registered
<1>2. (l.gate = g /\ l.type = "register") => Registered(Append(f, l), g)
  BY AppendedLine DEF Registered
<1>3. \A j \in DOMAIN Append(f, l) :
        (j \in DOMAIN f /\ Append(f, l)[j] = f[j]) \/ Append(f, l)[j] = l
  BY AppendedLine
<1>4. QED
  BY <1>1, <1>2, <1>3 DEF Registered

LEMMA LastLinesAppend ==
  ASSUME NEW f \in Seq(Line), NEW l \in Line, LastLinesExist(f)
  PROVE  LastLinesExist(Append(f, l))
<1>1. SUFFICES ASSUME NEW g \in Gates, Registered(Append(f, l), g)
               PROVE  /\ \E i : IsLastLine(Append(f, l), g, AllTypes, i)
                      /\ \E i : IsLastLine(Append(f, l), g, {"register"}, i)
  BY DEF LastLinesExist
<1>2. ASSUME NEW T, (l.gate = g /\ l.type \in T) \/ \E i : IsLastLine(f, g, T, i)
      PROVE  \E i : IsLastLine(Append(f, l), g, T, i)
  BY <1>2, LastLineNew, LastLineOld
<1>3. Registered(f, g) \/ (l.gate = g /\ l.type = "register")
  BY <1>1, RegisteredAppend
<1>4. (l.gate = g /\ l.type \in AllTypes) \/ \E i : IsLastLine(f, g, AllTypes, i)
  BY <1>3, LineTyped DEF LastLinesExist
<1>5. (l.gate = g /\ l.type \in {"register"}) \/ \E i : IsLastLine(f, g, {"register"}, i)
  BY <1>3 DEF LastLinesExist
<1>6. \E i : IsLastLine(Append(f, l), g, AllTypes, i)
  BY <1>2, <1>4
<1>7. \E i : IsLastLine(Append(f, l), g, {"register"}, i)
  BY <1>2, <1>5
<1>8. QED
  BY <1>6, <1>7

-----------------------------------------------------------------------------
(* The replay.                                                             *)

LEMMA ReplayValue ==
  ASSUME NEW f, NEW g \in Gates
  PROVE  Replay(f)[g] =
           IF Registered(f, g)
           THEN [status |-> StatusOf(LastLine(f, g, AllTypes)),
                 opened |-> LastLine(f, g, {"register"}).opened]
           ELSE Unknown
  BY DEF Replay, Registered

\* What a replay of one more line changes: this is the loop of replay().
LEMMA ReplayAppend ==
  ASSUME NEW f \in Seq(Line), NEW l \in Line, NEW g \in Gates, LastLinesExist(f)
  PROVE  /\ l.gate # g => Replay(Append(f, l))[g] = Replay(f)[g]
         /\ (l.gate = g /\ l.type = "register") =>
              Replay(Append(f, l))[g] = [status |-> "pending", opened |-> l.opened]
         /\ (l.gate = g /\ l.type # "register" /\ Registered(f, g)) =>
              Replay(Append(f, l))[g] =
                [status |-> StatusOf(l), opened |-> Replay(f)[g].opened]
<1> DEFINE h == Append(f, l)
<1>1. h \in Seq(Line)
  BY AppendedLine
<1>2. ASSUME NEW T, l.gate = g, l.type \in T
      PROVE  LastLine(h, g, T) = l
  <2>1. IsLastLine(h, g, T, Len(f) + 1)
    BY <1>2, LastLineNew
  <2>2. LastLine(h, g, T) = h[Len(f) + 1]
    BY <1>1, <2>1, LastLineIs
  <2>3. QED
    BY <2>2, AppendedLine
<1>3. ASSUME NEW T, ~(l.gate = g /\ l.type \in T), \E i : IsLastLine(f, g, T, i)
      PROVE  LastLine(h, g, T) = LastLine(f, g, T)
  <2>1. PICK i : IsLastLine(f, g, T, i)
    BY <1>3
  <2>2. IsLastLine(h, g, T, i) /\ h[i] = f[i]
    BY <1>3, <2>1, LastLineOld
  <2>3. LastLine(h, g, T) = h[i]
    BY <1>1, <2>2, LastLineIs
  <2>4. LastLine(f, g, T) = f[i]
    BY <2>1, LastLineIs
  <2>5. QED
    BY <2>2, <2>3, <2>4
<1>4. l.type \in AllTypes
  BY LineTyped
<1>5. Registered(h, g) <=> Registered(f, g) \/ (l.gate = g /\ l.type = "register")
  BY RegisteredAppend
<1> HIDE DEF h
<1>6. ASSUME l.gate # g
      PROVE  Replay(h)[g] = Replay(f)[g]
  <2>1. CASE Registered(f, g)
    <3>1. /\ \E i : IsLastLine(f, g, AllTypes, i)
          /\ \E i : IsLastLine(f, g, {"register"}, i)
      BY <2>1 DEF LastLinesExist
    <3>2. LastLine(h, g, AllTypes) = LastLine(f, g, AllTypes)
      BY <1>3, <1>6, <3>1
    <3>3. LastLine(h, g, {"register"}) = LastLine(f, g, {"register"})
      BY <1>3, <1>6, <3>1
    <3>4. QED
      BY <1>5, <2>1, <3>2, <3>3, ReplayValue
  <2>2. CASE ~Registered(f, g)
    BY <1>5, <1>6, <2>2, ReplayValue
  <2>3. QED
    BY <2>1, <2>2
<1>7. ASSUME l.gate = g, l.type = "register"
      PROVE  Replay(h)[g] = [status |-> "pending", opened |-> l.opened]
  <2>0. l.type \in {"register"}
    BY <1>7
  <2>1. LastLine(h, g, AllTypes) = l /\ LastLine(h, g, {"register"}) = l
    BY <1>2, <1>4, <1>7, <2>0
  <2>2. StatusOf(l) = "pending"
    BY <1>7 DEF StatusOf
  <2>3. QED
    BY <1>5, <1>7, <2>1, <2>2, ReplayValue
<1>8. ASSUME l.gate = g, l.type # "register", Registered(f, g)
      PROVE  Replay(h)[g] = [status |-> StatusOf(l), opened |-> Replay(f)[g].opened]
  <2>1. LastLine(h, g, AllTypes) = l
    BY <1>2, <1>4, <1>8
  <2>2. LastLine(h, g, {"register"}) = LastLine(f, g, {"register"})
    <3>1. ~(l.gate = g /\ l.type \in {"register"})
      BY <1>8
    <3>2. \E i : IsLastLine(f, g, {"register"}, i)
      BY <1>8 DEF LastLinesExist
    <3>3. QED
      BY <1>3, <3>1, <3>2
  <2>3. Replay(f)[g].opened = LastLine(f, g, {"register"}).opened
    <3>1. Replay(f)[g] = [status |-> StatusOf(LastLine(f, g, AllTypes)),
                          opened |-> LastLine(f, g, {"register"}).opened]
      BY <1>8, ReplayValue, Zenon
    <3>2. QED
      BY <3>1
  <2>4. QED
    BY <1>5, <1>8, <2>1, <2>2, <2>3, ReplayValue
<1>9. QED
  BY <1>6, <1>7, <1>8 DEF h

LEMMA ReplayTyped ==
  ASSUME NEW f \in Seq(Line), LastLinesExist(f)
  PROVE  Replay(f) \in [Gates -> Record \cup {Unknown}]
<1>1. SUFFICES ASSUME NEW g \in Gates
               PROVE  Replay(f)[g] \in Record \cup {Unknown}
  BY DEF Replay
<1>2. CASE ~Registered(f, g)
  BY <1>2, ReplayValue
<1>3. CASE Registered(f, g)
  <2>1. PICK i : IsLastLine(f, g, AllTypes, i)
    BY <1>3 DEF LastLinesExist
  <2>2. PICK j : IsLastLine(f, g, {"register"}, j)
    BY <1>3 DEF LastLinesExist
  <2>3. LastLine(f, g, AllTypes) = f[i] /\ f[i] \in Line
    BY <2>1, LastLineIs DEF IsLastLine
  <2>4. LastLine(f, g, {"register"}) = f[j] /\ f[j] \in Line /\ f[j].type = "register"
    <3>1. LastLine(f, g, {"register"}) = f[j]
      BY <2>2, LastLineIs
    <3>2. QED
      BY <2>2, <3>1 DEF IsLastLine
  <2>5. StatusOf(f[i]) \in {"pending", "resolved", "denied", "expired"}
    BY <2>3, LineTyped DEF StatusOf, AllTypes
  <2>6. f[j].opened \in Opened
    BY <2>4, LineTyped
  <2>7. QED
    <3>1. Replay(f)[g] = [status |-> StatusOf(f[i]), opened |-> f[j].opened]
      BY <1>3, <2>3, <2>4, ReplayValue, Zenon
    <3>2. QED
      BY <2>5, <2>6, <3>1 DEF Record
<1>4. QED
  BY <1>2, <1>3

-----------------------------------------------------------------------------
(* The loop of replay() and its closed form.                               *)

LEMMA ReplayOfNothing == Replay(<< >>) = [g \in Gates |-> Unknown]
  BY DEF Replay

\* One line more is one turn of the loop more.
LEMMA ReplayStep ==
  ASSUME NEW f \in Seq(Line), NEW l \in Line, LastLinesExist(f)
  PROVE  Replay(Append(f, l)) = ReplayLine(Replay(f), l)
<1> DEFINE old == Replay(f)
           new == Replay(Append(f, l))
<1>1. new = [g \in Gates |-> new[g]] /\ old = [g \in Gates |-> old[g]]
  BY DEF Replay
<1>2. l.gate \in Gates
  BY LineTyped
<1>3. (old[l.gate] = Unknown) <=> ~Registered(f, l.gate)
  <2>1. \A s, o : [status |-> s, opened |-> o] # [status |-> "unknown"]
    <3>1. \A s, o : DOMAIN [status |-> s, opened |-> o] = {"status", "opened"}
      OBVIOUS
    <3>2. DOMAIN [status |-> "unknown"] = {"status"}
      OBVIOUS
    <3>3. QED
      BY <3>1, <3>2
  <2>2. QED
    BY <1>2, <2>1, ReplayValue, Zenon DEF Unknown
<1>4. \A g \in Gates : l.gate # g => new[g] = old[g]
  BY ReplayAppend
<1>5. l.type = "register" => new[l.gate] = [status |-> "pending", opened |-> l.opened]
  BY <1>2, ReplayAppend
<1>6. (l.type # "register" /\ Registered(f, l.gate)) =>
        new[l.gate] = [status |-> StatusOf(l), opened |-> old[l.gate].opened]
  BY <1>2, ReplayAppend
<1>7. (l.type # "register" /\ ~Registered(f, l.gate)) => new[l.gate] = old[l.gate]
  <2>1. ~Registered(f, l.gate) /\ l.type # "register" => ~Registered(Append(f, l), l.gate)
    BY RegisteredAppend
  <2>2. QED
    BY <1>2, <2>1, ReplayValue
<1> HIDE DEF old, new
<1>8. new = ReplayLine(old, l)
  BY <1>1, <1>2, <1>3, <1>4, <1>5, <1>6, <1>7 DEF ReplayLine
<1>9. QED
  BY <1>8 DEF old, new

LEMMA Prefixes ==
  ASSUME NEW f \in Seq(Line)
  PROVE  /\ SubSeq(f, 1, 0) = << >> /\ SubSeq(f, 1, Len(f)) = f
         /\ \A n \in 0 .. Len(f) : SubSeq(f, 1, n) \in Seq(Line)
         /\ \A n \in 0 .. Len(f) - 1 :
              f[n + 1] \in Line /\ SubSeq(f, 1, n + 1) = Append(SubSeq(f, 1, n), f[n + 1])
  OBVIOUS

LEMMA LoopIsReplay ==
  ASSUME NEW f \in Seq(Line)
  PROVE  ReplayLoop(f) = Replay(f)
<1> DEFINE map == CHOOSE m : m = [n \in 0 .. Len(f) |->
                    IF n = 0 THEN [g \in Gates |-> Unknown] ELSE ReplayLine(m[n - 1], f[n])]
           closed == [n \in 0 .. Len(f) |-> Replay(SubSeq(f, 1, n))]
<1>1. Len(f) \in Nat
  OBVIOUS
<1>2. \A n \in 0 .. Len(f) : LastLinesExist(SubSeq(f, 1, n))
  <2> DEFINE T == {n \in 0 .. Len(f) : LastLinesExist(SubSeq(f, 1, n))}
  <2>1. 0 \in T
    BY Prefixes DEF LastLinesExist, Registered
  <2>2. ASSUME NEW n \in 0 .. Len(f) - 1, n \in T
        PROVE  n + 1 \in T
    <3>1. n \in 0 .. Len(f) /\ n + 1 \in 0 .. Len(f)
      BY <1>1
    <3>2. QED
      BY <2>2, <3>1, Prefixes, LastLinesAppend
  <2> HIDE DEF T
  <2>3. \A n \in 0 .. Len(f) : n \in T
    BY <1>1, <2>1, <2>2, CountUp
  <2>4. QED
    BY <2>3 DEF T
<1>3. ASSUME NEW n \in 0 .. Len(f)
      PROVE  Replay(SubSeq(f, 1, n)) =
               IF n = 0 THEN [g \in Gates |-> Unknown] ELSE ReplayLine(closed[n - 1], f[n])
  <2>1. CASE n = 0
    BY <2>1, Prefixes, ReplayOfNothing
  <2>2. CASE n # 0
    <3>1. n - 1 \in 0 .. Len(f) - 1 /\ n - 1 \in 0 .. Len(f) /\ (n - 1) + 1 = n
      BY <2>2
    <3>2. SubSeq(f, 1, n) = Append(SubSeq(f, 1, n - 1), f[n]) /\ f[n] \in Line
          /\ SubSeq(f, 1, n - 1) \in Seq(Line)
      BY <3>1, Prefixes
    <3>3. Replay(SubSeq(f, 1, n)) = ReplayLine(Replay(SubSeq(f, 1, n - 1)), f[n])
      BY <1>2, <3>1, <3>2, ReplayStep
    <3>4. QED
      BY <2>2, <3>1, <3>3
  <2>3. QED
    BY <2>1, <2>2
<1>4. closed = [n \in 0 .. Len(f) |->
                  IF n = 0 THEN [g \in Gates |-> Unknown] ELSE ReplayLine(closed[n - 1], f[n])]
  BY <1>3
<1> HIDE DEF closed
<1>5. map = [n \in 0 .. Len(f) |->
               IF n = 0 THEN [g \in Gates |-> Unknown] ELSE ReplayLine(map[n - 1], f[n])]
  BY <1>4
<1> HIDE DEF map
<1> DEFINE T == {n \in 0 .. Len(f) : map[n] = closed[n]}
<1>6. 0 \in T
  BY <1>1, <1>4, <1>5
<1>7. ASSUME NEW n \in 0 .. Len(f) - 1, map[n] = closed[n]
      PROVE  map[n + 1] = closed[n + 1]
  <2>1. n + 1 \in 0 .. Len(f) /\ n + 1 # 0 /\ (n + 1) - 1 = n
    BY <1>1
  <2>2. map[n + 1] = ReplayLine(map[n], f[n + 1])
    BY <1>5, <2>1
  <2>3. closed[n + 1] = ReplayLine(closed[n], f[n + 1])
    BY <1>4, <2>1
  <2>4. QED
    BY <1>7, <2>2, <2>3
<1>8. \A n \in 0 .. Len(f) - 1 : n \in T => n + 1 \in T
  BY <1>1, <1>7
<1> HIDE DEF T
<1>9. \A n \in 0 .. Len(f) : n \in T
  BY <1>1, <1>6, <1>8, CountUp
<1>10. map[Len(f)] = closed[Len(f)]
  BY <1>1, <1>9 DEF T
<1>11. ReplayLoop(f) = map[Len(f)]
  BY DEF ReplayLoop, map
<1>12. closed[Len(f)] = Replay(f)
  <2>1. Len(f) \in 0 .. Len(f)
    BY <1>1
  <2>2. QED
    BY <2>1, Prefixes, Zenon DEF closed
<1>13. QED
  BY <1>10, <1>11, <1>12

-----------------------------------------------------------------------------
(* Types, whatever the log loses.                                          *)

IInv == RegistryTypeOK /\ LastLinesExist(file)

LEMMA ReadableTyped ==
  ASSUME IInv
  PROVE  Readable \in Seq(Line) /\ LastLinesExist(Readable)
BY LastLinesAppend, AppendedLine DEF IInv, RegistryTypeOK, Readable

LEMMA LinesTyped ==
  ASSUME NEW g \in Gates
  PROVE  /\ \A o \in Opened : RegisterLine(g, o) \in Line
         /\ \A d \in {"resume", "deny"} : ResolveLine(g, d) \in Line
         /\ ExpireLine(g) \in Line
BY DEF Line, RegisterLine, ResolveLine, ExpireLine

LEMMA AppendLogTyped ==
  ASSUME IInv, NEW line \in Line, AppendLog(line)
  PROVE  /\ file' \in Seq(Line) /\ tail' \in Line \cup {NoTail, Fragment}
         /\ LastLinesExist(file')
<1>1. file \in Seq(Line) /\ LastLinesExist(file) /\ tail \in Line \cup {NoTail, Fragment}
  BY DEF IInv, RegistryTypeOK
<1>2. file' = file \/ file' = Append(file, line)
  BY DEF AppendLog
<1>3. tail' \in {tail, NoTail, Fragment, line}
  BY DEF AppendLog, Torn
<1>4. QED
  BY <1>1, <1>2, <1>3, LastLinesAppend, AppendedLine

LEMMA DecidedTyped ==
  ASSUME RegistryTypeOK, NEW g \in Gates, IsPending(g),
         NEW d \in {"resume", "deny", "expire"}
  PROVE  Decided(g, d) \in [Gates -> Record \cup {Unknown}]
<1>1. records \in [Gates -> Record \cup {Unknown}] /\ records[g] \in Record
  BY DEF RegistryTypeOK, IsPending
<1>2. Verdict(d) \in {"pending", "resolved", "denied", "expired"}
  BY DEF Verdict
<1>3. [status |-> Verdict(d), opened |-> records[g].opened] \in Record
  BY <1>1, <1>2 DEF Record
<1>4. QED
  BY <1>1, <1>3 DEF Decided

\* What the invariant needs, action by action.
LEMMA Steps ==
  ASSUME IInv, RegistryNext
  PROVE  IInv'
<1>1. ASSUME NEW g \in Gates, NEW o \in Opened, Register(g, o)
      PROVE  IInv'
  <2>1. RegisterLine(g, o) \in Line
    BY LinesTyped
  <2>2. /\ file' \in Seq(Line) /\ tail' \in Line \cup {NoTail, Fragment}
        /\ LastLinesExist(file')
    BY <1>1, <2>1, AppendLogTyped DEF Register
  <2>3. records' \in [Gates -> Record \cup {Unknown}]
    BY <1>1 DEF Register, IInv, RegistryTypeOK, Record
  <2>4. QED
    BY <1>1, <2>2, <2>3 DEF Register, IInv, RegistryTypeOK
<1>2. ASSUME NEW g \in Gates, NEW d \in {"resume", "deny"}, Resolve(g, d)
      PROVE  IInv'
  <2>1. ResolveLine(g, d) \in Line
    BY LinesTyped
  <2>2. /\ file' \in Seq(Line) /\ tail' \in Line \cup {NoTail, Fragment}
        /\ LastLinesExist(file')
    BY <1>2, <2>1, AppendLogTyped DEF Resolve
  <2>3. records' \in [Gates -> Record \cup {Unknown}]
    BY <1>2, DecidedTyped DEF Resolve, IInv
  <2>4. QED
    BY <1>2, <2>2, <2>3 DEF Resolve, IInv, RegistryTypeOK
<1>3. ASSUME NEW g \in Gates, NEW at \in Nat, Expire(g, at)
      PROVE  IInv'
  <2>1. ExpireLine(g) \in Line
    BY LinesTyped
  <2>2. /\ file' \in Seq(Line) /\ tail' \in Line \cup {NoTail, Fragment}
        /\ LastLinesExist(file')
    BY <1>3, <2>1, AppendLogTyped DEF Expire
  <2>3. records' \in [Gates -> Record \cup {Unknown}]
    BY <1>3, DecidedTyped DEF Expire, IInv
  <2>4. QED
    BY <1>3, <2>2, <2>3 DEF Expire, IInv, RegistryTypeOK
<1>4. ASSUME ForgetMemory
      PROVE  up' \in BOOLEAN /\ records' \in [Gates -> Record \cup {Unknown}]
  BY <1>4 DEF ForgetMemory
<1>5. ASSUME NEW line \in Line, NEW at \in Nat, CrashInAppend(line, at)
      PROVE  IInv'
  <2>1. ForgetMemory /\ file' = file /\ tail' \in {Fragment, line}
    BY <1>5 DEF CrashInAppend, Torn
  <2>2. QED
    BY <1>4, <2>1 DEF IInv, RegistryTypeOK
<1>6. CASE Crash
  BY <1>4, <1>6 DEF Crash, IInv, RegistryTypeOK
<1>7. CASE Restart
  <2>1. Replay(Readable) \in [Gates -> Record \cup {Unknown}]
    BY ReadableTyped, ReplayTyped
  <2>2. QED
    BY <1>7, <2>1 DEF Restart, IInv, RegistryTypeOK
<1>8. QED
  BY <1>1, <1>2, <1>3, <1>5, <1>6, <1>7 DEF RegistryNext

-----------------------------------------------------------------------------
(* The map is the projection of the file, if no append is lost.            *)

Durable ==
  /\ tail = NoTail
  /\ up => Replay(file) = records

LEMMA ReadableIsFile ==
  ASSUME tail = NoTail
  PROVE  Readable = file
BY DEF Readable, NoTail, Line

LEMMA LoggedOneGate ==
  ASSUME LogFaults = {}, IInv, Durable, up,
         NEW g \in Gates, NEW line \in Line, line.gate = g, AppendLog(line),
         NEW r, Replay(Append(file, line))[g] = r, records' = [records EXCEPT ![g] = r]
  PROVE  tail' = NoTail /\ Replay(file') = records'
<1>1. file' = Append(file, line) /\ tail' = NoTail
  BY DEF AppendLog, Durable
<1>2. file \in Seq(Line) /\ LastLinesExist(file)
  BY DEF IInv, RegistryTypeOK
<1>3. \A h \in Gates : h # g => Replay(Append(file, line))[h] = Replay(file)[h]
  BY <1>2, ReplayAppend
<1>4. Replay(file) = records
  BY DEF Durable
<1>5. \A h \in Gates : Replay(file')[h] = records'[h]
  BY <1>1, <1>3, <1>4 DEF IInv, RegistryTypeOK
<1>6. records' \in [Gates -> {records'[h] : h \in Gates}]
  BY DEF IInv, RegistryTypeOK
<1>7. QED
  BY <1>1, <1>5, <1>6 DEF Replay

LEMMA LoggedVerdict ==
  ASSUME LogFaults = {}, IInv, Durable, up, NEW g \in Gates, IsPending(g),
         NEW line \in Line, line.gate = g, line.type # "register", AppendLog(line),
         NEW d, StatusOf(line) = Verdict(d), records' = Decided(g, d)
  PROVE  tail' = NoTail /\ Replay(file') = records'
<1>1. Replay(file)[g] = records[g] /\ records[g] # Unknown
  BY DEF Durable, IsPending
<1>2. Registered(file, g)
  BY <1>1, ReplayValue
<1>3. file \in Seq(Line) /\ LastLinesExist(file)
  BY DEF IInv, RegistryTypeOK
<1>4. Replay(Append(file, line))[g] = [status |-> StatusOf(line), opened |-> Replay(file)[g].opened]
  BY <1>2, <1>3, ReplayAppend
<1>5. Replay(Append(file, line))[g] = [status |-> Verdict(d), opened |-> records[g].opened]
  BY <1>1, <1>4
<1>6. QED
  BY <1>5, LoggedOneGate DEF Decided

LEMMA DurableRegister ==
  ASSUME LogFaults = {}, IInv, Durable, NEW g \in Gates, NEW o \in Opened, Register(g, o)
  PROVE  tail' = NoTail /\ Replay(file') = records'
<1> DEFINE line == RegisterLine(g, o)
<1>1. line \in Line /\ line.gate = g /\ line.type = "register" /\ line.opened = o
  BY LinesTyped DEF RegisterLine
<1>2. up /\ AppendLog(line)
  BY DEF Register
<1>3. records' = [records EXCEPT ![g] = [status |-> "pending", opened |-> o]]
  BY DEF Register
<1> HIDE DEF line
<1>4. file \in Seq(Line) /\ LastLinesExist(file)
  BY DEF IInv, RegistryTypeOK
<1>5. Replay(Append(file, line))[g] = [status |-> "pending", opened |-> o]
  BY <1>1, <1>4, ReplayAppend
<1>6. QED
  BY <1>1, <1>2, <1>3, <1>5, LoggedOneGate

LEMMA DurableResolve ==
  ASSUME LogFaults = {}, IInv, Durable, NEW g \in Gates, NEW d \in {"resume", "deny"},
         Resolve(g, d)
  PROVE  tail' = NoTail /\ Replay(file') = records'
<1> DEFINE line == ResolveLine(g, d)
<1>1. line \in Line /\ line.gate = g /\ line.type # "register"
  BY LinesTyped DEF ResolveLine
<1>2. StatusOf(line) = Verdict(d)
  BY DEF StatusOf, Verdict, ResolveLine
<1>3. up /\ IsPending(g) /\ AppendLog(line) /\ records' = Decided(g, d)
  BY DEF Resolve
<1> HIDE DEF line
<1>4. QED
  BY <1>1, <1>2, <1>3, LoggedVerdict

LEMMA DurableExpire ==
  ASSUME LogFaults = {}, IInv, Durable, NEW g \in Gates, NEW at, Expire(g, at)
  PROVE  tail' = NoTail /\ Replay(file') = records'
<1> DEFINE line == ExpireLine(g)
<1>1. line \in Line /\ line.gate = g /\ line.type # "register"
  BY LinesTyped DEF ExpireLine
<1>2. StatusOf(line) = Verdict("expire")
  BY DEF StatusOf, Verdict, ExpireLine
<1>3. up /\ IsPending(g) /\ AppendLog(line) /\ records' = Decided(g, "expire")
  BY DEF Expire
<1> HIDE DEF line
<1>4. QED
  BY <1>1, <1>2, <1>3, LoggedVerdict

LEMMA DurableSteps ==
  ASSUME LogFaults = {}, IInv, Durable, RegistryNext
  PROVE  Durable'
<1>1. ASSUME NEW g \in Gates, NEW o \in Opened, Register(g, o)
      PROVE  Durable'
  BY <1>1, DurableRegister DEF Durable
<1>2. ASSUME NEW g \in Gates, NEW d \in {"resume", "deny"}, Resolve(g, d)
      PROVE  Durable'
  BY <1>2, DurableResolve DEF Durable
<1>3. ASSUME NEW g \in Gates, NEW at \in Nat, Expire(g, at)
      PROVE  Durable'
  BY <1>3, DurableExpire DEF Durable
<1>4. ASSUME NEW line \in Line, NEW at \in Nat, CrashInAppend(line, at)
      PROVE  Durable'
  BY <1>4 DEF CrashInAppend
<1>5. CASE Crash
  BY <1>5 DEF Crash, ForgetMemory, Durable
<1>6. CASE Restart
  BY <1>6, ReadableIsFile DEF Restart, Durable
<1>7. QED
  BY <1>1, <1>2, <1>3, <1>4, <1>5, <1>6 DEF RegistryNext

-----------------------------------------------------------------------------
(* The file goes through GateLifecycle.                                    *)

StatusBar == [g \in Gates |-> Replay(Readable)[g].status]

LEMMA StatusOfRecords ==
  ASSUME Durable, up
  PROVE  StatusBar = [g \in Gates |-> records[g].status]
BY ReadableIsFile DEF Durable, StatusBar

LEMMA StatusChange ==
  ASSUME IInv, Durable, up, NEW g \in Gates, NEW r,
         tail' = NoTail, Replay(file') = records', records' = [records EXCEPT ![g] = r]
  PROVE  StatusBar' = [StatusBar EXCEPT ![g] = r.status]
<1>1. StatusBar' = [h \in Gates |-> records'[h].status]
  BY DEF StatusBar, Readable, NoTail, Line
<1>2. records \in [Gates -> Record \cup {Unknown}]
  BY DEF IInv, RegistryTypeOK
<1>3. StatusBar = [h \in Gates |-> records[h].status]
  BY StatusOfRecords
<1>4. \A h \in Gates : records'[h] = IF h = g THEN r ELSE records[h]
  BY <1>2
<1>5. \A h \in Gates : records'[h].status = IF h = g THEN r.status ELSE records[h].status
  BY <1>4
<1>6. QED
  BY <1>1, <1>3, <1>5

LEMMA LifecycleSteps ==
  ASSUME LogFaults = {}, IInv, Durable, [RegistryNext]_registry
  PROVE  [Lifecycle!Next]_StatusBar
<1>1. ASSUME NEW g \in Gates, NEW o \in Opened, Register(g, o)
      PROVE  Lifecycle!Open(g)
  <2>1. StatusBar' = [StatusBar EXCEPT ![g] = "pending"]
    <3> DEFINE r == [status |-> "pending", opened |-> o]
    <3>1. up /\ records' = [records EXCEPT ![g] = r]
      BY <1>1 DEF Register
    <3>2. tail' = NoTail /\ Replay(file') = records'
      BY <1>1, DurableRegister
    <3>3. r.status = "pending"
      OBVIOUS
    <3> HIDE DEF r
    <3>4. StatusBar' = [StatusBar EXCEPT ![g] = r.status]
      BY <3>1, <3>2, StatusChange
    <3>5. QED
      BY <3>3, <3>4
  <2>2. StatusBar[g] = "unknown"
    BY <1>1, StatusOfRecords DEF Register, Unknown
  <2>3. QED
    BY <2>1, <2>2 DEF Lifecycle!Open, StatusBar
<1>2. ASSUME NEW g \in Gates, NEW d \in {"resume", "deny", "expire"}, up, IsPending(g),
             records' = Decided(g, d), tail' = NoTail, Replay(file') = records'
      PROVE  \E v \in Lifecycle!Verdicts : Lifecycle!Decide(g, v)
  <2>1. StatusBar' = [StatusBar EXCEPT ![g] = Verdict(d)]
    <3> DEFINE r == [status |-> Verdict(d), opened |-> records[g].opened]
    <3>1. records' = [records EXCEPT ![g] = r] /\ r.status = Verdict(d)
      BY <1>2 DEF Decided
    <3> HIDE DEF r
    <3>2. StatusBar' = [StatusBar EXCEPT ![g] = r.status]
      BY <1>2, <3>1, StatusChange
    <3>3. QED
      BY <3>1, <3>2
  <2>2. StatusBar[g] = "pending"
    BY <1>2, StatusOfRecords DEF IsPending
  <2>3. Verdict(d) \in Lifecycle!Verdicts
    BY DEF Verdict, Lifecycle!Verdicts
  <2>4. QED
    BY <2>1, <2>2, <2>3 DEF Lifecycle!Decide, StatusBar
<1>3. ASSUME NEW g \in Gates, NEW d \in {"resume", "deny"}, Resolve(g, d)
      PROVE  \E v \in Lifecycle!Verdicts : Lifecycle!Decide(g, v)
  BY <1>2, <1>3, DurableResolve DEF Resolve
<1>4. ASSUME NEW g \in Gates, NEW at \in Nat, Expire(g, at)
      PROVE  \E v \in Lifecycle!Verdicts : Lifecycle!Decide(g, v)
  BY <1>2, <1>4, DurableExpire DEF Expire
<1>5. ASSUME NEW line \in Line, NEW at \in Nat, CrashInAppend(line, at)
      PROVE  FALSE
  BY <1>5 DEF CrashInAppend
<1>6. CASE Crash \/ Restart \/ UNCHANGED registry
  BY <1>6 DEF Crash, Restart, registry, StatusBar, Readable
<1>7. QED
  BY <1>1, <1>3, <1>4, <1>5, <1>6 DEF RegistryNext, Lifecycle!Next

LEMMA Start ==
  ASSUME RegistryInit
  PROVE  IInv /\ Durable /\ StatusBar = [g \in Gates |-> "unknown"]
<1>1. \A g \in Gates : ~Registered(<<>>, g)
  BY DEF Registered
<1>2. Replay(<<>>) = [g \in Gates |-> Unknown]
  BY <1>1 DEF Replay, Registered
<1>3. IInv
  BY <1>1 DEF IInv, RegistryInit, RegistryTypeOK, LastLinesExist
<1>4. Durable
  BY <1>2 DEF RegistryInit, Durable
<1>5. QED
  BY <1>3, <1>4, StatusOfRecords DEF RegistryInit, Unknown

-----------------------------------------------------------------------------
(* The theorems, for the registry used by any caller in any order.         *)

LEMMA SameRegistry ==
  ASSUME UNCHANGED registry
  PROVE  (IInv => IInv') /\ (Durable => Durable')
BY DEF registry, IInv, Durable, RegistryTypeOK, Line

\* Whatever appends are lost or torn, the map and what replay() reads keep their
\* types: a replay never meets a status line without the record it changes
\* (gate-registry.ts:190-207).
THEOREM RegistryTyped == RegistrySpec => []RegistryTypeOK
<1>1. RegistryInit => IInv
  BY Start
<1>2. IInv /\ [RegistryNext]_registry => IInv'
  BY Steps, SameRegistry
<1>3. IInv => RegistryTypeOK
  BY DEF IInv
<1>4. QED
  BY <1>1, <1>2, <1>3, PTL DEF RegistrySpec


-----------------------------------------------------------------------------
(* Every step of the flow is a step of the registry, or leaves it alone.   *)

LEMMA TriesAreRegistrySteps ==
  ASSUME NEW c \in Callers, FirstTry(c)
  PROVE  RegistryNext
BY FlowAssumption DEF FirstTry, RegistryNext

LEMMA FlowIsRegistry ==
  ASSUME now \in Nat, [FlowNext]_fvars
  PROVE  [RegistryNext]_registry
<1>1. ASSUME NEW c \in Callers, Begin(c) \/ FirstTry(c) \/ Retry(c) \/ Rejects(c) \/ WakeUp(c)
      PROVE  [RegistryNext]_registry
  BY <1>1, TriesAreRegistrySteps DEF Begin, Retry, Rejects, WakeUp
<1>2. ASSUME NEW g \in Gates, NEW d \in {"resume", "deny"}, Operator(g, d)
      PROVE  RegistryNext
  BY <1>2 DEF Operator, RegistryNext
<1>3. ASSUME NEW g \in Gates, Sweep(g)
      PROVE  RegistryNext
  BY <1>3 DEF Sweep, RegistryNext
<1>4. CASE Die
  BY <1>4 DEF Die, RegistryNext
<1>5. CASE DieInAppend
  BY <1>5 DEF DieInAppend, RegistryNext
<1>6. CASE Recover
  BY <1>6 DEF Recover, RegistryNext
<1>7. CASE Tick
  BY <1>7 DEF Tick
<1>8. CASE UNCHANGED fvars
  BY <1>8 DEF fvars
<1>9. QED
  BY <1>1, <1>2, <1>3, <1>4, <1>5, <1>6, <1>7, <1>8 DEF FlowNext

-----------------------------------------------------------------------------
(* Types.                                                                  *)

FlowVarsTyped ==
  /\ now \in Nat /\ restarts \in Nat
  /\ cpc \in [Callers -> {"idle"} \cup Waiting \cup Over]
  /\ since \in [Callers -> Nat] /\ wake \in [Callers -> Nat]
  /\ decisions \in [Gates -> SUBSET {"resume", "deny"}]

LEMMA CallersTyped ==
  ASSUME FlowVarsTyped, NEW c \in Callers
  PROVE  /\ \A o : HandleVeto(c, o) => FlowVarsTyped'
         /\ Passes(c) => FlowVarsTyped'
BY FlowAssumption DEF FlowVarsTyped, HandleVeto, Passes, Goto, Waiting, Over

LEMMA FlowTypes ==
  ASSUME FlowVarsTyped, [FlowNext]_fvars
  PROVE  FlowVarsTyped'
<1>1. ASSUME NEW c \in Callers, Begin(c) \/ Rejects(c) \/ WakeUp(c)
      PROVE  FlowVarsTyped'
  BY <1>1 DEF FlowVarsTyped, Begin, Rejects, WakeUp, Goto, Waiting, Over
<1>2. ASSUME NEW c \in Callers, FirstTry(c) \/ Retry(c)
      PROVE  FlowVarsTyped'
  BY <1>2, CallersTyped DEF FirstTry, Retry
<1>3. ASSUME NEW g \in Gates, NEW d \in {"resume", "deny"}, Operator(g, d)
      PROVE  FlowVarsTyped'
  BY <1>3 DEF FlowVarsTyped, Operator
<1>4. ASSUME NEW g \in Gates, Sweep(g)
      PROVE  FlowVarsTyped'
  BY <1>4 DEF FlowVarsTyped, Sweep, flow
<1>5. ASSUME CallersLost
      PROVE  FlowVarsTyped => cpc' \in [Callers -> {"idle"} \cup Waiting \cup Over]
  BY <1>5 DEF FlowVarsTyped, CallersLost, Waiting, Over
<1>6. CASE Die
  BY <1>5, <1>6 DEF FlowVarsTyped, Die
<1>7. CASE DieInAppend
  <2>1. CallersLost /\ UNCHANGED <<now, restarts, since, wake>>
    BY <1>7 DEF DieInAppend
  <2>2. PICK line \in Line :
          decisions' = IF line.type \in {"resume", "deny"}
                       THEN [decisions EXCEPT ![line.gate] = @ \cup {line.type}]
                       ELSE decisions
    BY <1>7 DEF DieInAppend
  <2>3. decisions' \in [Gates -> SUBSET {"resume", "deny"}]
    BY <2>2 DEF FlowVarsTyped
  <2>4. QED
    BY <1>5, <2>1, <2>3 DEF FlowVarsTyped
<1>8. CASE Recover \/ Tick \/ UNCHANGED fvars
  BY <1>8 DEF FlowVarsTyped, Recover, Tick, fvars, flow
<1>9. QED
  BY <1>1, <1>2, <1>3, <1>4, <1>6, <1>7, <1>8 DEF FlowNext

LEMMA FlowStart ==
  ASSUME FlowInit
  PROVE  FlowVarsTyped /\ IInv /\ Durable
BY Start DEF FlowInit, FlowVarsTyped, Waiting, Over

FlowInv == FlowVarsTyped /\ IInv

LEMMA FlowSteps ==
  ASSUME FlowInv, [FlowNext]_fvars
  PROVE  FlowInv' /\ [RegistryNext]_registry
<1>1. [RegistryNext]_registry
  BY FlowIsRegistry DEF FlowInv, FlowVarsTyped
<1>2. QED
  BY <1>1, FlowTypes, Steps, SameRegistry DEF FlowInv

LEMMA FlowInductive == FlowSpec => []FlowInv
<1>1. FlowInit => FlowInv
  BY FlowStart DEF FlowInv
<1>2. FlowInv /\ [FlowNext]_fvars => FlowInv'
  BY FlowSteps
<1>3. QED
  BY <1>1, <1>2, PTL DEF FlowSpec

\* The variables of the registry, the callers, the clock and the history keep their
\* types in every interleaving (gate-registry.ts, gate-retry.ts).
THEOREM FlowTypeCorrect == FlowSpec => []FlowTypeOK
<1>1. FlowInit => FlowVarsTyped /\ IInv
  BY FlowStart
<1>2. (FlowVarsTyped /\ IInv) /\ [FlowNext]_fvars => (FlowVarsTyped /\ IInv)'
  <2>1. SUFFICES ASSUME FlowVarsTyped, IInv, [FlowNext]_fvars
                 PROVE  FlowVarsTyped' /\ IInv'
    OBVIOUS
  <2>2. [RegistryNext]_registry
    BY <2>1, FlowIsRegistry DEF FlowVarsTyped
  <2>3. QED
    BY <2>1, <2>2, FlowTypes, Steps, SameRegistry
<1>3. FlowVarsTyped /\ IInv => FlowTypeOK
  BY DEF FlowVarsTyped, IInv, FlowTypeOK
<1>4. QED
  BY <1>1, <1>2, <1>3, PTL DEF FlowSpec

\* gate-registry.ts:183-207, in the flow of gate-retry.ts: at any time, also with a line
\* torn at the end of the file and whatever lines were lost, the loop of replay() makes of
\* the file what the closed form says.
THEOREM ReplayClosed == FlowSpec => []ReplayIsLoop
<1>1. FlowInv => ReplayIsLoop
  BY ReadableTyped, LoopIsReplay DEF FlowInv, ReplayIsLoop
<1>2. QED
  BY <1>1, FlowInductive, PTL

-----------------------------------------------------------------------------
(* Sleeping callers.                                                       *)

LEMMA GatesStayKnown ==
  ASSUME RegistryTypeOK, NEW g \in Gates, records[g] # Unknown,
         (\E h \in Gates, o \in Opened : Register(h, o))
           \/ (\E h \in Gates, d \in {"resume", "deny"} : Resolve(h, d))
           \/ (\E h \in Gates : Expire(h, now))
           \/ UNCHANGED registry
  PROVE  records'[g] # Unknown /\ (up => up')
<1>1. records \in [Gates -> Record \cup {Unknown}]
  BY DEF RegistryTypeOK
<1>2. \A h \in Gates, o \in Opened : Register(h, o) => records'[g] # Unknown /\ up'
  BY <1>1 DEF Register, Unknown
<1>3. \A h \in Gates, d \in {"resume", "deny", "expire"} :
        records' = Decided(h, d) => records'[g] # Unknown
  BY <1>1 DEF Decided, Unknown
<1>4. \A h \in Gates, d \in {"resume", "deny"} : Resolve(h, d) => records'[g] # Unknown /\ up'
  BY <1>3 DEF Resolve
<1>5. \A h \in Gates : Expire(h, now) => records'[g] # Unknown /\ up'
  BY <1>3 DEF Expire
<1>6. UNCHANGED registry => records'[g] # Unknown /\ (up => up')
  BY DEF registry
<1>7. QED
  BY <1>2, <1>4, <1>5, <1>6

LEMMA FirstSleep ==
  ASSUME FlowInv, NEW c \in Callers, FirstTry(c)
  PROVE  up' /\ records'[GateOf[c]] # Unknown
BY FlowAssumption DEF FlowInv, IInv, RegistryTypeOK, FirstTry, Register, Unknown

LEMMA OneCallerMoves ==
  ASSUME FlowInv, NEW c \in Callers,
         Begin(c) \/ FirstTry(c) \/ Retry(c) \/ Rejects(c) \/ WakeUp(c)
  PROVE  /\ \A b \in Callers : b # c => cpc'[b] = cpc[b]
         /\ Begin(c) \/ Rejects(c) \/ WakeUp(c) => cpc'[c] # "sleeping"
BY DEF FlowInv, FlowVarsTyped, Begin, FirstTry, Retry, Rejects, WakeUp, HandleVeto, Passes, Goto

LEMMA SleepersSteps ==
  ASSUME FlowInv, SleepersAreListed, [FlowNext]_fvars
  PROVE  SleepersAreListed'
<1>1. RegistryTypeOK
  BY DEF FlowInv, IInv
<1>2. SUFFICES ASSUME NEW b \in Callers, cpc'[b] = "sleeping"
               PROVE  up' /\ records'[GateOf[b]] # Unknown
  BY DEF SleepersAreListed
<1>3. GateOf[b] \in Gates
  BY FlowAssumption
<1>4. ASSUME cpc[b] = "sleeping",
             (\E h \in Gates, o \in Opened : Register(h, o))
               \/ (\E h \in Gates, d \in {"resume", "deny"} : Resolve(h, d))
               \/ (\E h \in Gates : Expire(h, now))
               \/ UNCHANGED registry
      PROVE  up' /\ records'[GateOf[b]] # Unknown
  BY <1>1, <1>3, <1>4, GatesStayKnown DEF SleepersAreListed
<1>5. ASSUME NEW c \in Callers, Begin(c) \/ Rejects(c) \/ WakeUp(c)
      PROVE  up' /\ records'[GateOf[b]] # Unknown
  <2>1. cpc[b] = "sleeping"
    BY <1>2, <1>5, OneCallerMoves
  <2>2. UNCHANGED registry
    BY <1>5 DEF Begin, Rejects, WakeUp
  <2>3. QED
    BY <1>4, <2>1, <2>2
<1>6. ASSUME NEW c \in Callers, FirstTry(c)
      PROVE  up' /\ records'[GateOf[b]] # Unknown
  <2>1. CASE b = c
    BY <1>6, <2>1, FirstSleep
  <2>2. CASE b # c
    <3>1. cpc[b] = "sleeping"
      BY <1>2, <1>6, <2>2, OneCallerMoves
    <3>2. \E h \in Gates, o \in Opened : Register(h, o)
      BY <1>6, FlowAssumption DEF FirstTry
    <3>3. QED
      BY <1>4, <3>1, <3>2
  <2>3. QED
    BY <2>1, <2>2
<1>7. ASSUME NEW c \in Callers, Retry(c)
      PROVE  up' /\ records'[GateOf[b]] # Unknown
  <2>1. up /\ records[GateOf[c]] # Unknown /\ UNCHANGED registry
    BY <1>7 DEF Retry
  <2>2. CASE b = c
    BY <2>1, <2>2 DEF registry
  <2>3. CASE b # c
    BY <1>2, <1>4, <1>7, <2>1, <2>3, OneCallerMoves
  <2>4. QED
    BY <2>2, <2>3
<1>8. ASSUME NEW g \in Gates, NEW d \in {"resume", "deny"}, Operator(g, d)
      PROVE  up' /\ records'[GateOf[b]] # Unknown
  BY <1>2, <1>4, <1>8 DEF Operator
<1>9. ASSUME NEW g \in Gates, Sweep(g)
      PROVE  up' /\ records'[GateOf[b]] # Unknown
  BY <1>2, <1>4, <1>9 DEF Sweep, flow
<1>10. CASE Die \/ DieInAppend
  BY <1>2, <1>10 DEF Die, DieInAppend, CallersLost, Waiting
<1>11. CASE Recover
  BY <1>2, <1>11 DEF Recover, Restart, SleepersAreListed
<1>12. CASE Tick \/ UNCHANGED fvars
  BY <1>2, <1>4, <1>12 DEF Tick, fvars, flow
<1>13. QED
  BY <1>5, <1>6, <1>7, <1>8, <1>9, <1>10, <1>11, <1>12 DEF FlowNext

\* Whatever the log loses, a caller that sleeps waits for a gate in the map of a
\* running registry (gate-registry.ts:84-99, lattice index.ts:123-144).
THEOREM SleepersListed == FlowSpec => []SleepersAreListed
<1>1. FlowInit => SleepersAreListed
  BY DEF FlowInit, SleepersAreListed
<1>2. FlowInv /\ SleepersAreListed /\ [FlowNext]_fvars => SleepersAreListed'
  BY SleepersSteps
<1>3. QED
  BY FlowInductive, <1>1, <1>2, PTL DEF FlowSpec

-----------------------------------------------------------------------------
(* Verdicts come from operators.                                           *)

Submitted(line) == line.type \in {"resume", "deny"} => line.type \in decisions[line.gate]

LogSubmitted ==
  /\ \A i \in DOMAIN file : Submitted(file[i])
  /\ tail \in Line => Submitted(tail)

\* A history that only grows, and lines that were submitted.
LEMMA LogKeepsSubmitted ==
  ASSUME FlowInv, LogSubmitted,
         \A g \in Gates : decisions[g] \subseteq decisions'[g],
         \/ file' = file /\ tail' = tail
         \/ \E l \in Line : AppendLog(l) /\ Submitted(l)'
         \/ \E l \in Line : file' = file /\ tail' \in {Fragment, l} /\ Submitted(l)'
  PROVE  LogSubmitted'
<1>1. file \in Seq(Line)
  BY DEF FlowInv, IInv, RegistryTypeOK
<1>2. \A l \in Line : Submitted(l) => Submitted(l)'
  BY LineTyped DEF Submitted
<1>3. \A i \in DOMAIN file : file[i] \in Line /\ Submitted(file[i])
  BY <1>1 DEF LogSubmitted
<1>4. \A l \in Line : Submitted(l)' <=> (l.type \in {"resume", "deny"} => l.type \in decisions'[l.gate])
  BY DEF Submitted
<1>5. \A i \in DOMAIN file : (file[i].type \in {"resume", "deny"} => file[i].type \in decisions'[file[i].gate])
  BY <1>2, <1>3, <1>4
<1>6. CASE file' = file
  <2>1. \A i \in DOMAIN file' : Submitted(file[i])'
    BY <1>5, <1>6 DEF Submitted
  <2>2. Fragment \notin Line /\ NoTail \notin Line
    BY DEF Fragment, NoTail, Line
  <2>3. tail' \in Line => (tail' = tail \/ \E l \in Line : tail' = l /\ Submitted(l)')
    BY <2>2 DEF AppendLog, Torn
  <2>4. tail' \in Line => (tail'.type \in {"resume", "deny"} => tail'.type \in decisions'[tail'.gate])
    BY <2>3, <1>2, <1>4 DEF LogSubmitted
  <2>5. QED
    BY <1>5, <1>6, <2>4 DEF LogSubmitted, Submitted
<1>7. ASSUME NEW l \in Line, file' = Append(file, l), tail' = tail, tail = NoTail, Submitted(l)'
      PROVE  LogSubmitted'
  <2>1. \A i \in DOMAIN file' : (i \in DOMAIN file /\ file'[i] = file[i]) \/ file'[i] = l
    BY <1>1, <1>7, AppendedLine
  <2>2. l.type \in {"resume", "deny"} => l.type \in decisions'[l.gate]
    BY <1>4, <1>7
  <2>3. \A i \in DOMAIN file' : (file'[i].type \in {"resume", "deny"} => file'[i].type \in decisions'[file'[i].gate])
    BY <1>5, <2>1, <2>2
  <2>4. tail' \notin Line
    BY <1>7 DEF NoTail, Line
  <2>5. QED
    BY <2>3, <2>4 DEF LogSubmitted, Submitted
<1>8. QED
  BY <1>6, <1>7 DEF AppendLog

\* A verdict that a replay reads was submitted.
LEMMA ReplaySubmitted ==
  ASSUME FlowInv, LogSubmitted, NEW g \in Gates, Replay(Readable)[g] # Unknown
  PROVE  /\ Replay(Readable)[g].status = "resolved" => "resume" \in decisions[g]
         /\ Replay(Readable)[g].status = "denied" => "deny" \in decisions[g]
<1> DEFINE f == Readable
<1>1. f \in Seq(Line) /\ LastLinesExist(f)
  BY ReadableTyped DEF FlowInv
<1>2. \A i \in DOMAIN f : Submitted(f[i])
  BY AppendedLine DEF FlowInv, IInv, RegistryTypeOK, LogSubmitted, Readable
<1> HIDE DEF f
<1>3. SUFFICES ASSUME Replay(f)[g] # Unknown
               PROVE  /\ Replay(f)[g].status = "resolved" => "resume" \in decisions[g]
                      /\ Replay(f)[g].status = "denied" => "deny" \in decisions[g]
  BY DEF f
<1>4. Registered(f, g)
  BY <1>3, ReplayValue
<1>5. PICK i : IsLastLine(f, g, AllTypes, i)
  BY <1>1, <1>4 DEF LastLinesExist
<1>6. LastLine(f, g, AllTypes) = f[i] /\ i \in DOMAIN f /\ f[i].gate = g /\ f[i].type \in AllTypes
  <2>1. LastLine(f, g, AllTypes) = f[i]
    BY <1>1, <1>5, LastLineIs
  <2>2. QED
    BY <1>5, <2>1 DEF IsLastLine
<1>7. Replay(f)[g].status = StatusOf(f[i])
  <2>1. Replay(f)[g] = [status |-> StatusOf(f[i]), opened |-> LastLine(f, g, {"register"}).opened]
    BY <1>4, <1>6, ReplayValue, Zenon
  <2>2. QED
    BY <2>1
<1>8. /\ StatusOf(f[i]) = "resolved" => f[i].type = "resume"
      /\ StatusOf(f[i]) = "denied" => f[i].type = "deny"
  BY <1>6 DEF StatusOf, AllTypes
<1>9. QED
  BY <1>2, <1>6, <1>7, <1>8 DEF Submitted

\* A change of one record and of the history that agree.
LEMMA KeepsVerdicts ==
  ASSUME FlowInv, NoInventedVerdict, \A g \in Gates : decisions[g] \subseteq decisions'[g],
         NEW g \in Gates, NEW r, records' = [records EXCEPT ![g] = r],
         r.status = "resolved" => "resume" \in decisions'[g],
         r.status = "denied" => "deny" \in decisions'[g]
  PROVE  NoInventedVerdict'
<1>1. records \in [Gates -> Record \cup {Unknown}]
  BY DEF FlowInv, IInv, RegistryTypeOK
<1>2. \A h \in Gates : records'[h] = IF h = g THEN r ELSE records[h]
  BY <1>1
<1>3. QED
  BY <1>2 DEF NoInventedVerdict

VerdictInv == NoInventedVerdict /\ LogSubmitted

LEMMA RegisterKeepsVerdicts ==
  ASSUME FlowInv, VerdictInv, NEW g \in Gates, NEW o \in Opened, Register(g, o), UNCHANGED decisions
  PROVE  VerdictInv'
<1>1. RegisterLine(g, o) \in Line /\ Submitted(RegisterLine(g, o))'
  BY LinesTyped DEF RegisterLine, Submitted
<1>2. LogSubmitted'
  BY <1>1, LogKeepsSubmitted DEF VerdictInv, Register
<1> DEFINE r == [status |-> "pending", opened |-> o]
<1>3. records' = [records EXCEPT ![g] = r] /\ r.status = "pending"
  BY DEF Register
<1> HIDE DEF r
<1>4. QED
  BY <1>2, <1>3, KeepsVerdicts DEF VerdictInv

LEMMA DecisionKeepsVerdicts ==
  ASSUME FlowInv, VerdictInv, NEW g \in Gates, NEW d \in {"resume", "deny", "expire"},
         records' = Decided(g, d),
         NEW line \in Line, line = [type |-> d, gate |-> g], AppendLog(line),
         \A h \in Gates : decisions[h] \subseteq decisions'[h],
         d # "expire" => d \in decisions'[g]
  PROVE  VerdictInv'
<1>1. Submitted(line)'
  BY DEF Submitted
<1>2. LogSubmitted'
  BY <1>1, LogKeepsSubmitted DEF VerdictInv
<1> DEFINE r == [status |-> Verdict(d), opened |-> records[g].opened]
<1>3. records' = [records EXCEPT ![g] = r] /\ r.status = Verdict(d)
  BY DEF Decided
<1> HIDE DEF r
<1>4. (Verdict(d) = "resolved" => d = "resume") /\ (Verdict(d) = "denied" => d = "deny")
  BY DEF Verdict
<1>5. QED
  BY <1>2, <1>3, <1>4, KeepsVerdicts DEF VerdictInv

LEMMA VerdictSteps ==
  ASSUME FlowInv, VerdictInv, [FlowNext]_fvars
  PROVE  VerdictInv'
<1>1. ASSUME UNCHANGED <<registry, decisions>>
      PROVE  VerdictInv'
  BY <1>1 DEF registry, VerdictInv, NoInventedVerdict, LogSubmitted, Submitted, Line
<1>2. \A c \in Callers : \A o : HandleVeto(c, o) \/ Passes(c) => UNCHANGED decisions
  BY DEF HandleVeto, Passes
<1>3. ASSUME NEW c \in Callers, Begin(c) \/ Retry(c) \/ Rejects(c) \/ WakeUp(c)
      PROVE  VerdictInv'
  BY <1>1, <1>2, <1>3 DEF Begin, Retry, Rejects, WakeUp
<1>4. ASSUME NEW c \in Callers, FirstTry(c)
      PROVE  VerdictInv'
  BY <1>2, <1>4, RegisterKeepsVerdicts, FlowAssumption DEF FirstTry
<1>5. ASSUME NEW g \in Gates, NEW d \in {"resume", "deny"}, Operator(g, d)
      PROVE  VerdictInv'
  <2>1. decisions' = [decisions EXCEPT ![g] = @ \cup {d}]
    BY <1>5 DEF Operator
  <2>2. d \in decisions'[g] /\ \A h \in Gates : decisions[h] \subseteq decisions'[h]
    BY <2>1 DEF FlowInv, FlowVarsTyped
  <2>3. ResolveLine(g, d) \in Line /\ ResolveLine(g, d) = [type |-> d, gate |-> g]
    BY LinesTyped DEF ResolveLine
  <2>4. records' = Decided(g, d) /\ AppendLog(ResolveLine(g, d))
    BY <1>5 DEF Operator, Resolve
  <2>5. QED
    BY <2>2, <2>3, <2>4, DecisionKeepsVerdicts
<1>6. ASSUME NEW g \in Gates, Sweep(g)
      PROVE  VerdictInv'
  <2>1. ExpireLine(g) \in Line /\ ExpireLine(g) = [type |-> "expire", gate |-> g]
    BY LinesTyped DEF ExpireLine
  <2>2. records' = Decided(g, "expire") /\ AppendLog(ExpireLine(g)) /\ UNCHANGED decisions
    BY <1>6 DEF Sweep, Expire, flow
  <2>3. QED
    BY <2>1, <2>2, DecisionKeepsVerdicts
<1>7. ASSUME ForgetMemory
      PROVE  NoInventedVerdict'
  BY <1>7 DEF ForgetMemory, NoInventedVerdict
<1>8. CASE Die
  <2>1. LogSubmitted'
    BY <1>8 DEF Die, Crash, VerdictInv, LogSubmitted, Submitted, Line
  <2>2. QED
    BY <1>7, <1>8, <2>1 DEF Die, Crash, VerdictInv
<1>9. CASE DieInAppend
  <2>1. PICK line \in Line :
          /\ CrashInAppend(line, now)
          /\ decisions' = IF line.type \in {"resume", "deny"}
                          THEN [decisions EXCEPT ![line.gate] = @ \cup {line.type}]
                          ELSE decisions
    BY <1>9 DEF DieInAppend
  <2>2. line.gate \in Gates
    BY LineTyped
  <2>3. \A h \in Gates : decisions[h] \subseteq decisions'[h]
    BY <2>1, <2>2 DEF FlowInv, FlowVarsTyped
  <2>4. line.type \in {"resume", "deny"} => line.type \in decisions'[line.gate]
    BY <2>1, <2>2 DEF FlowInv, FlowVarsTyped
  <2>5. Submitted(line)'
    BY <2>4 DEF Submitted
  <2>6. file' = file /\ tail' \in {Fragment, line} /\ ForgetMemory
    BY <2>1 DEF CrashInAppend, Torn
  <2>7. QED
    BY <1>7, <2>3, <2>5, <2>6, LogKeepsSubmitted DEF VerdictInv
<1>10. CASE Recover
  <2>1. records' = Replay(Readable) /\ UNCHANGED <<file, tail, decisions>>
    BY <1>10 DEF Recover, Restart
  <2>2. NoInventedVerdict'
    BY <2>1, ReplaySubmitted DEF NoInventedVerdict, VerdictInv
  <2>3. LogSubmitted'
    BY <2>1 DEF VerdictInv, LogSubmitted, Submitted, Line
  <2>4. QED
    BY <2>2, <2>3 DEF VerdictInv
<1>11. CASE Tick \/ UNCHANGED fvars
  BY <1>1, <1>11 DEF Tick, fvars, flow
<1>12. QED
  BY <1>3, <1>4, <1>5, <1>6, <1>8, <1>9, <1>10, <1>11 DEF FlowNext

\* Whatever appends are lost or torn and however often the process dies, a replay
\* makes up no verdict (gate-registry.ts:168-208).
THEOREM VerdictsSubmitted == FlowSpec => []NoInventedVerdict
<1>1. FlowInit => VerdictInv
  BY DEF FlowInit, RegistryInit, VerdictInv, NoInventedVerdict, LogSubmitted, NoTail, Line, Unknown
<1>2. FlowInv /\ VerdictInv /\ [FlowNext]_fvars => VerdictInv'
  BY VerdictSteps
<1>3. VerdictInv => NoInventedVerdict
  BY DEF VerdictInv
<1>4. QED
  BY FlowInductive, <1>1, <1>2, <1>3, PTL DEF FlowSpec

-----------------------------------------------------------------------------
(* If appends reach the file whole.                                        *)

\* With no append lost, the map in memory is the replay of the log at any time
\* (gate-registry.ts:15-18), for whatever callers, operators and sweeps do.
THEOREM RecordsProjected ==
  ASSUME LogFaults = {}
  PROVE  FlowSpec => []Projection
<1>1. FlowInit => Durable
  BY FlowStart
<1>2. FlowInv /\ Durable /\ [FlowNext]_fvars => Durable'
  BY FlowSteps, DurableSteps, SameRegistry DEF FlowInv
<1>3. Durable => Projection
  BY ReadableIsFile DEF Durable, Projection
<1>4. QED
  BY FlowInductive, <1>1, <1>2, <1>3, PTL DEF FlowSpec

\* With no append lost, a gate gets at most one verdict and keeps it through any
\* crash and replay: the registry implements GateLifecycle (gate-registry.ts:106-150).
THEOREM ImplementsLifecycle ==
  ASSUME LogFaults = {}
  PROVE  FlowSpec => LifecycleSpec
<1>1. FlowInit => Durable /\ Lifecycle!Init
  BY FlowStart, Start DEF FlowInit, Lifecycle!Init, StatusBar
<1>2. FlowInv /\ Durable /\ [FlowNext]_fvars => Durable'
  BY FlowSteps, DurableSteps, SameRegistry DEF FlowInv
<1>3. FlowInv /\ Durable /\ [FlowNext]_fvars
        => [Lifecycle!Next]_[g \in Gates |-> Replay(Readable)[g].status]
  BY FlowSteps, LifecycleSteps DEF FlowInv, StatusBar
<1>4. QED
  BY FlowInductive, <1>1, <1>2, <1>3, PTL DEF FlowSpec, LifecycleSpec, Lifecycle!Spec

\* A denial that was submitted is what the log says.
DeniedStay == \A g \in Gates : "deny" \in decisions[g] => StatusBar[g] = "denied"

LEMMA DeniedSteps ==
  ASSUME LogFaults = {}, FlowInv, Durable, DeniedStay, [FlowNext]_fvars
  PROVE  DeniedStay'
<1>1. [Lifecycle!Next]_StatusBar
  BY FlowSteps, LifecycleSteps DEF FlowInv
<1>2. \A g \in Gates : StatusBar[g] = "denied" => StatusBar'[g] = "denied"
  BY <1>1 DEF Lifecycle!Next, Lifecycle!Open, Lifecycle!Decide, StatusBar
<1>3. ASSUME NEW g \in Gates, Operator(g, "deny")
      PROVE  StatusBar'[g] = "denied"
  <2>1. Durable' /\ up' /\ records' = Decided(g, "deny")
    BY <1>3, DurableResolve DEF Operator, Resolve, Durable, FlowInv
  <2>2. records'[g].status = "denied"
    BY <2>1 DEF Decided, Verdict, FlowInv, IInv, RegistryTypeOK
  <2>3. StatusBar' = [h \in Gates |-> records'[h].status]
    BY <2>1 DEF Durable, StatusBar, Readable, NoTail, Line
  <2>4. QED
    BY <2>2, <2>3
<1>4. ASSUME NEW g \in Gates, "deny" \in decisions'[g], "deny" \notin decisions[g]
      PROVE  Operator(g, "deny")
  <2>1. ~DieInAppend
    BY DEF DieInAppend, CrashInAppend
  <2>2. \A c \in Callers : Begin(c) \/ FirstTry(c) \/ Retry(c) \/ Rejects(c) \/ WakeUp(c)
          => UNCHANGED decisions
    BY DEF Begin, FirstTry, Retry, Rejects, WakeUp, HandleVeto, Passes
  <2>3. (\E h \in Gates : Sweep(h)) \/ Die \/ Recover \/ Tick \/ UNCHANGED fvars
          => UNCHANGED decisions
    BY DEF Sweep, Die, Recover, Tick, fvars, flow
  <2>4. PICK h \in Gates, d \in {"resume", "deny"} : Operator(h, d)
    BY <1>4, <2>1, <2>2, <2>3 DEF FlowNext
  <2>5. decisions' = [decisions EXCEPT ![h] = @ \cup {d}]
    BY <2>4 DEF Operator
  <2>6. h = g /\ d = "deny"
    BY <1>4, <2>5 DEF FlowInv, FlowVarsTyped
  <2>7. QED
    BY <2>4, <2>6
<1>5. QED
  BY <1>2, <1>3, <1>4 DEF DeniedStay

LEMMA DeniedHold ==
  ASSUME FlowInv, Durable, DeniedStay, [FlowNext]_fvars, NEW c \in Callers,
         cpc[c] # "emitted", cpc'[c] = "emitted", "deny" \in decisions[GateOf[c]]
  PROVE  records[GateOf[c]] # Unknown /\ ~Vetoes(records[GateOf[c]].opened)
<1>1. GateOf[c] \in Gates
  BY FlowAssumption
<1>2. FirstTry(c) \/ Retry(c)
  <2>1. \A b \in Callers : (Begin(b) \/ Rejects(b) \/ WakeUp(b)) => cpc'[c] # "emitted" \/ cpc'[c] = cpc[c]
    BY DEF Begin, Rejects, WakeUp, Goto, FlowInv, FlowVarsTyped
  <2>2. \A b \in Callers : (FirstTry(b) \/ Retry(b)) /\ b # c => cpc'[c] = cpc[c]
    BY OneCallerMoves
  <2>3. (Die \/ DieInAppend) => cpc'[c] # "emitted" \/ cpc'[c] = cpc[c]
    BY DEF Die, DieInAppend, CallersLost
  <2>4. (\E g \in Gates : Sweep(g) \/ \E d \in {"resume", "deny"} : Operator(g, d)) \/ Recover \/ Tick \/ UNCHANGED fvars
          => cpc' = cpc
    BY DEF Sweep, Operator, Recover, Tick, fvars, flow
  <2>5. QED
    BY <2>1, <2>2, <2>3, <2>4 DEF FlowNext
<1>3. up
  BY <1>2 DEF FirstTry, Register, Retry
<1>4. records[GateOf[c]].status = "denied"
  BY <1>1, <1>3, StatusOfRecords DEF DeniedStay
<1>5. records[GateOf[c]] # Unknown /\ ~Cleared(records[GateOf[c]])
  BY <1>4 DEF Unknown, Cleared
<1>6. ~FirstTry(c)
  BY <1>5 DEF FirstTry, Register
<1>7. ASSUME NEW o, HandleVeto(c, o)
      PROVE  cpc'[c] # "emitted"
  BY <1>7 DEF HandleVeto, Goto, FlowInv, FlowVarsTyped
<1>8. QED
  BY <1>2, <1>5, <1>6, <1>7 DEF Retry

\* With no append lost, no event passes a pending gate that an operator denied, not
\* even after a crash and a replay, or a sweep past the deadline.
THEOREM DenialsHold ==
  ASSUME LogFaults = {}
  PROVE  FlowSpec => DenyStands
<1>1. FlowInit => Durable /\ DeniedStay
  BY FlowStart DEF FlowInit, DeniedStay
<1>2. FlowInv /\ Durable /\ DeniedStay /\ [FlowNext]_fvars => (Durable /\ DeniedStay)'
  BY FlowSteps, DurableSteps, SameRegistry, DeniedSteps DEF FlowInv
<1>3. FlowInv /\ Durable /\ DeniedStay /\ [FlowNext]_fvars
        => [\A c \in Callers :
              LET r == records[GateOf[c]] IN
              (cpc[c] # "emitted" /\ cpc'[c] = "emitted" /\ "deny" \in decisions[GateOf[c]])
                => r # Unknown /\ ~Vetoes(r.opened)]_fvars
  BY DeniedHold
<1>4. QED
  BY FlowInductive, <1>1, <1>2, <1>3, PTL DEF FlowSpec, DenyStands
=============================================================================
