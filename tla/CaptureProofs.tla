---- MODULE CaptureProofs ----
(***************************************************************************)
(* Theorems about Capture.tla for every set of characteristics, commands   *)
(* of any length and any number of restarts.                               *)
(***************************************************************************)
EXTENDS Capture, SequenceTheorems, TLAPS

SomeParts == [command: Nat, part: Nat, full: BOOLEAN]

-----------------------------------------------------------------------------
(* Sequences of parts.                                                      *)

\* A part that is appended is the only one that joins the others.
LEMMA AppendedParts ==
    ASSUME NEW s \in Seq(SomeParts), NEW part \in SomeParts
    PROVE  /\ Append(s, part) \in Seq(SomeParts)
           /\ ToSet(Append(s, part)) = ToSet(s) \cup {part}
<1> HIDE DEF SomeParts
<1>1. DOMAIN Append(s, part) = 1..Len(s) + 1 /\ DOMAIN s = 1..Len(s) /\ Len(s) \in Nat
  OBVIOUS
<1>2. \A n \in 1..Len(s) + 1 : Append(s, part)[n] = IF n = Len(s) + 1 THEN part ELSE s[n]
  OBVIOUS
<1> QED BY <1>1, <1>2 DEF ToSet

\* Of different parts in a row the first is not among the rest.
LEMMA HeadAndTail ==
    ASSUME NEW s \in Seq(SomeParts), s # <<>>, IsInjective(s)
    PROVE  /\ Tail(s) \in Seq(SomeParts) /\ IsInjective(Tail(s)) /\ Head(s) \in SomeParts
           /\ Head(s) \in ToSet(s) /\ Head(s) \notin ToSet(Tail(s))
           /\ ToSet(Tail(s)) \subseteq ToSet(s)
<1> HIDE DEF SomeParts
<1>1. Len(s) \in Nat /\ Len(s) > 0 /\ DOMAIN s = 1..Len(s) /\ Head(s) = s[1]
  OBVIOUS
<1>2. DOMAIN Tail(s) = 1..Len(s) - 1 /\ \A n \in 1..Len(s) - 1 : Tail(s)[n] = s[n + 1]
  BY <1>1
<1>3. \A n \in 1..Len(s) - 1 : n + 1 \in DOMAIN s /\ n + 1 # 1
  BY <1>1
<1>4. Tail(s) \in Seq(SomeParts) /\ Head(s) \in SomeParts
  BY <1>1
<1>5. IsInjective(Tail(s))
  <2> SUFFICES ASSUME NEW a \in 1..Len(s) - 1, NEW b \in 1..Len(s) - 1,
                      Tail(s)[a] = Tail(s)[b]
               PROVE  a = b
    BY <1>2 DEF IsInjective
  <2>1. s[a + 1] = s[b + 1] /\ a + 1 \in DOMAIN s /\ b + 1 \in DOMAIN s
    BY <1>2, <1>3
  <2>2. a + 1 = b + 1
    BY <2>1 DEF IsInjective
  <2> QED BY <1>1, <2>2
<1>6. \A n \in 1..Len(s) - 1 : s[n + 1] # s[1]
  BY <1>1, <1>3 DEF IsInjective
<1>7. ToSet(Tail(s)) \subseteq ToSet(s) /\ Head(s) \notin ToSet(Tail(s)) /\ Head(s) \in ToSet(s)
  BY <1>1, <1>2, <1>3, <1>6 DEF ToSet
<1> QED BY <1>4, <1>5, <1>7

\* The parts of a command are different, and all its own.
LEMMA PartsOfCommand ==
    ASSUME NEW i \in Nat, NEW c, c.full \in Nat
    PROVE  /\ Parts(i, c) \in Seq(SomeParts) /\ IsInjective(Parts(i, c))
           /\ \A part \in ToSet(Parts(i, c)) : part.command = i
<1> DEFINE n == c.full + (IF c.tail THEN 1 ELSE 0)
           q == [k \in 1..n |-> [command |-> i, part |-> k, full |-> k <= c.full]]
<1>1. n \in Nat
  OBVIOUS
<1>2. Parts(i, c) = q
  BY DEF Parts
<1>3. \A k \in 1..n : q[k] \in SomeParts /\ q[k].part = k /\ q[k].command = i
  BY DEF SomeParts
<1>4. DOMAIN q = 1..n
  OBVIOUS
<1> HIDE DEF n, q
<1>5. q \in Seq(SomeParts)
  <2>1. q = [k \in 1..n |-> q[k]]
    BY <1>4 DEF q
  <2> HIDE DEF SomeParts
  <2> QED BY <1>1, <1>3, <2>1
<1>6. IsInjective(q)
  BY <1>3, <1>4 DEF IsInjective
<1>7. \A part \in ToSet(q) : part.command = i
  BY <1>3, <1>4 DEF ToSet
<1> QED BY <1>2, <1>5, <1>6, <1>7

-----------------------------------------------------------------------------
(* No part counts twice.                                                    *)

AnyCommand == [char: Chars, full: Nat, tail: BOOLEAN, response: BOOLEAN]

TypeInv ==
    /\ command \in Seq(AnyCommand)
    /\ air \in [Chars -> Seq(SomeParts)]
    /\ buf \in [Chars -> Seq(SomeParts)]
    /\ handed \subseteq Seq(SomeParts)
    /\ writing \subseteq DOMAIN command
    /\ travelling \subseteq DOMAIN command
    /\ executed \subseteq DOMAIN command

\* The commands that have been seen as parts or values: one that is being written
\* has not.
Seen == DOMAIN command \ writing

\* A part is in the air, in a buffer or in one value, and once; it stays on the
\* characteristic of its command.
PartsInv ==
    /\ \A ch \in Chars :
        /\ IsInjective(air[ch])
        /\ ToSet(air[ch]) \cap ToSet(buf[ch]) = {}
        /\ \A part \in ToSet(air[ch]) \cup ToSet(buf[ch]) :
              part.command \in Seen /\ command[part.command].char = ch
        /\ \A v \in handed : ToSet(v) \cap (ToSet(air[ch]) \cup ToSet(buf[ch])) = {}
    /\ \A v \in handed : \A part \in ToSet(v) : part.command \in Seen
    /\ PartsCountOnce

\* A command of the app is numbered from one, and so are its parts.
LEMMA WholeCommand ==
    ASSUME TypeInv, NEW i \in DOMAIN command
    PROVE  /\ i \in Nat /\ command[i].full \in Nat
           /\ Whole(i) \in Seq(SomeParts)
           /\ \A part \in ToSet(Whole(i)) : part.command = i
<1>1. i \in Nat /\ command[i] \in AnyCommand
  BY DEF TypeInv
<1>2. command[i].full \in Nat
  BY <1>1 DEF AnyCommand
<1> QED BY <1>1, <1>2, PartsOfCommand DEF Whole

\* What Issue does to the commands.
LEMMA IssuedCommand ==
    ASSUME TypeInv, NEW c \in Commands, Issue(c)
    PROVE  /\ c \in AnyCommand /\ command' \in Seq(AnyCommand)
           /\ Len(command) \in Nat /\ DOMAIN command = 1..Len(command)
           /\ DOMAIN command' = DOMAIN command \cup {Len(command) + 1}
           /\ Len(command) + 1 \notin DOMAIN command
           /\ command'[Len(command) + 1] = c
           /\ c.full \in Nat /\ c.char \in Chars
           /\ \A i \in DOMAIN command : command'[i] = command[i]
<1>1. c \in AnyCommand
  <2>1. {0} \subseteq Nat /\ 0..MaxFull \subseteq Nat
    BY CaptureAssumption
  <2>2. CASE way = "observe"
    <3>1. c \in [char: Chars, full: 0..MaxFull, tail: BOOLEAN, response: {FALSE}]
      BY <2>2 DEF Commands
    <3> QED BY <2>1, <3>1 DEF AnyCommand
  <2>3. CASE way # "observe"
    <3>1. c \in [char: Chars, full: {0}, tail: {TRUE}, response: BOOLEAN]
      BY <2>3 DEF Commands
    <3> QED BY <2>1, <3>1 DEF AnyCommand
  <2> QED BY <2>2, <2>3
<1>2. c.full \in Nat /\ c.char \in Chars
  BY <1>1 DEF AnyCommand
<1>3. command' = Append(command, c) /\ command \in Seq(AnyCommand)
  BY DEF Issue, TypeInv
<1>4. Len(command) \in Nat /\ DOMAIN command = 1..Len(command)
  BY <1>3
<1>5. /\ DOMAIN command' = 1..Len(command) + 1 /\ command'[Len(command) + 1] = c
      /\ \A i \in DOMAIN command : command'[i] = command[i]
      /\ command' \in Seq(AnyCommand)
  BY <1>1, <1>3
<1> QED BY <1>1, <1>2, <1>4, <1>5

\* What Notify does to the parts.
LEMMA NotifiedPart ==
    ASSUME TypeInv, PartsInv, NEW ch \in Chars, Notify(ch)
    PROVE  \E part \in SomeParts, value \in Seq(SomeParts), rest \in Seq(SomeParts) :
              /\ part \in ToSet(air[ch]) /\ part \notin ToSet(rest)
              /\ ToSet(rest) \subseteq ToSet(air[ch]) /\ IsInjective(rest)
              /\ ToSet(value) = ToSet(buf[ch]) \cup {part}
              /\ air' = [air EXCEPT ![ch] = rest]
              /\ \/ buf' = [buf EXCEPT ![ch] = value] /\ handed' = handed
                 \/ buf' = [buf EXCEPT ![ch] = <<>>] /\ handed' = handed \cup {value}
<1> DEFINE part == Head(air[ch])
           value == Append(buf[ch], part)
           rest == Tail(air[ch])
<1>1. air[ch] \in Seq(SomeParts) /\ air[ch] # <<>> /\ IsInjective(air[ch])
      /\ buf[ch] \in Seq(SomeParts)
  BY DEF TypeInv, PartsInv, Notify
<1>2. /\ part \in SomeParts /\ rest \in Seq(SomeParts) /\ IsInjective(rest)
      /\ part \in ToSet(air[ch]) /\ part \notin ToSet(rest)
      /\ ToSet(rest) \subseteq ToSet(air[ch])
  BY <1>1, HeadAndTail
<1>3. value \in Seq(SomeParts) /\ ToSet(value) = ToSet(buf[ch]) \cup {part}
  BY <1>1, <1>2, AppendedParts
<1>4. /\ air' = [air EXCEPT ![ch] = rest]
      /\ \/ buf' = [buf EXCEPT ![ch] = value] /\ handed' = handed
         \/ buf' = [buf EXCEPT ![ch] = <<>>] /\ handed' = handed \cup {value}
  BY DEF Notify, Buffer, Leftover
<1> HIDE DEF part, value, rest
<1> QED BY <1>2, <1>3, <1>4

LEMMA EmptyParts == <<>> \in Seq(SomeParts) /\ ToSet(<<>>) = {} /\ IsInjective(<<>>)
BY DEF ToSet, IsInjective

LEMMA TypeStep == TypeInv /\ PartsInv /\ [Next]_vars => TypeInv'
<1> SUFFICES ASSUME TypeInv, PartsInv, [Next]_vars PROVE TypeInv'
  OBVIOUS
<1>1. ASSUME NEW c \in Commands, Issue(c) PROVE TypeInv'
  <2>1. /\ command' \in Seq(AnyCommand) /\ DOMAIN command \subseteq DOMAIN command'
        /\ Len(command) + 1 \in DOMAIN command' /\ Len(command) + 1 \in Nat
        /\ c.full \in Nat /\ c.char \in Chars
    BY <1>1, IssuedCommand
  <2>2. Parts(Len(command) + 1, c) \in Seq(SomeParts)
    BY <2>1, PartsOfCommand
  <2>3. air' \in [Chars -> Seq(SomeParts)]
    BY <1>1, <2>1, <2>2 DEF Issue, TypeInv, observer
  <2> QED BY <1>1, <2>1, <2>3 DEF Issue, TypeInv, observer, proxy
<1>2. ASSUME NEW ch \in Chars, Notify(ch) PROVE TypeInv'
  <2>1. UNCHANGED <<command, proxy>>
    BY <1>2 DEF Notify
  <2> QED BY <1>2, <2>1, NotifiedPart, EmptyParts DEF TypeInv, proxy
<1>3. ASSUME NEW ch \in Chars, Miss(ch) PROVE TypeInv'
  <2>1. air[ch] \in Seq(SomeParts) /\ air[ch] # <<>> /\ IsInjective(air[ch])
    BY <1>3 DEF Miss, TypeInv, PartsInv
  <2>2. Tail(air[ch]) \in Seq(SomeParts)
    BY <2>1, HeadAndTail
  <2> QED BY <1>3, <2>2 DEF Miss, TypeInv, proxy
<1>4. CASE Detach
  BY <1>4 DEF Detach, TypeInv, proxy
<1>5. ASSUME NEW i \in travelling, Execute(i) PROVE TypeInv'
  BY <1>5 DEF Execute, TypeInv, observer
<1>6. ASSUME NEW i \in writing, Written(i) PROVE TypeInv'
  <2>1. Whole(i) \in Seq(SomeParts)
    BY WholeCommand DEF TypeInv
  <2> QED BY <1>6, <2>1 DEF Written, TypeInv, observer
<1>7. ASSUME NEW i \in writing, WriteFails(i) PROVE TypeInv'
  BY <1>7 DEF WriteFails, TypeInv, observer
<1>8. CASE Restart
  BY <1>8, EmptyParts DEF Restart, TypeInv
<1>9. CASE UNCHANGED vars
  BY <1>9 DEF vars, TypeInv, observer, proxy
<1> QED BY <1>1, <1>2, <1>3, <1>4, <1>5, <1>6, <1>7, <1>8, <1>9 DEF Next

LEMMA PartsStep == TypeInv /\ PartsInv /\ [Next]_vars => PartsInv'
<1> SUFFICES ASSUME TypeInv, PartsInv, [Next]_vars PROVE PartsInv'
  OBVIOUS
<1>0. /\ Len(command) \in Nat /\ DOMAIN command = 1..Len(command)
      /\ Len(command) + 1 \notin DOMAIN command
  BY DEF TypeInv
<1>1. ASSUME NEW c \in Commands, Issue(c) PROVE PartsInv'
  <2>0. PICK i \in Nat : i = Len(command) + 1
    BY <1>0
  <2>1. /\ c.full \in Nat /\ DOMAIN command' = DOMAIN command \cup {i}
        /\ command'[i] = c /\ \A k \in DOMAIN command : command'[k] = command[k]
    BY <1>1, <2>0, IssuedCommand
  <2>2. IsInjective(Parts(i, c)) /\ \A part \in ToSet(Parts(i, c)) : part.command = i
    BY <2>1, PartsOfCommand
  <2>3. /\ \/ /\ air' = [air EXCEPT ![c.char] = Parts(i, c)] /\ air[c.char] = <<>>
              /\ writing' = writing
           \/ air' = air /\ writing' = writing \cup {i}
        /\ UNCHANGED <<buf, handed>>
    BY <1>1, <2>0 DEF Issue, observer, proxy
  <2>4. i \notin DOMAIN command /\ writing \subseteq DOMAIN command
    BY <1>0, <2>0 DEF TypeInv
  <2>5. /\ Seen \subseteq Seen' /\ i \notin Seen
        /\ writing' = writing => i \in Seen'
    BY <2>1, <2>3, <2>4 DEF Seen
  <2>6. ASSUME NEW ch \in Chars
        PROVE  /\ IsInjective(air'[ch])
               /\ \A part \in ToSet(air'[ch]) : part \in ToSet(air[ch]) \/ part.command = i
               /\ \A part \in ToSet(air'[ch]) : part.command \in Seen'
                                                /\ command'[part.command].char = ch
    <3>1. CASE air'[ch] = air[ch]
      BY <2>1, <2>5, <3>1 DEF PartsInv, Seen
    <3>2. CASE air'[ch] # air[ch]
      <4>1. ch = c.char /\ air'[ch] = Parts(i, c) /\ writing' = writing
        BY <2>3, <3>2 DEF TypeInv
      <4> QED BY <2>1, <2>2, <2>5, <4>1
    <3> QED BY <3>1, <3>2
  <2>7. PartsCountOnce'
    BY <2>3 DEF PartsInv, PartsCountOnce
  <2>8. ASSUME NEW ch \in Chars
        PROVE  /\ ToSet(air'[ch]) \cap ToSet(buf'[ch]) = {}
               /\ \A part \in ToSet(buf'[ch]) :
                     part.command \in Seen' /\ command'[part.command].char = ch
               /\ \A v \in handed' : ToSet(v) \cap (ToSet(air'[ch]) \cup ToSet(buf'[ch])) = {}
    <3>1. /\ buf'[ch] = buf[ch] /\ handed' = handed
          /\ \A part \in ToSet(buf[ch]) : part.command \in Seen /\ command[part.command].char = ch
          /\ ToSet(air[ch]) \cap ToSet(buf[ch]) = {}
          /\ \A v \in handed : ToSet(v) \cap (ToSet(air[ch]) \cup ToSet(buf[ch])) = {}
          /\ \A v \in handed : \A part \in ToSet(v) : part.command \in Seen
      BY <2>3 DEF PartsInv
    <3>2. \A n \in Seen : n \in Seen' /\ n # i /\ command'[n] = command[n]
      BY <2>1, <2>5 DEF Seen
    <3> QED BY <2>6, <3>1, <3>2
  <2>9. \A v \in handed' : \A part \in ToSet(v) : part.command \in Seen'
    <3>1. handed' = handed
      BY <2>3
    <3> QED BY <2>5, <3>1 DEF PartsInv
  <2> QED BY <2>6, <2>7, <2>8, <2>9 DEF PartsInv
<1>2. ASSUME NEW ch \in Chars, Notify(ch) PROVE PartsInv'
  <2>1. PICK part \in SomeParts, value \in Seq(SomeParts), rest \in Seq(SomeParts) :
              /\ part \in ToSet(air[ch]) /\ part \notin ToSet(rest)
              /\ ToSet(rest) \subseteq ToSet(air[ch]) /\ IsInjective(rest)
              /\ ToSet(value) = ToSet(buf[ch]) \cup {part}
              /\ air' = [air EXCEPT ![ch] = rest]
              /\ \/ buf' = [buf EXCEPT ![ch] = value] /\ handed' = handed
                 \/ buf' = [buf EXCEPT ![ch] = <<>>] /\ handed' = handed \cup {value}
    BY <1>2, NotifiedPart
  <2>2. UNCHANGED <<command, writing>> /\ Seen' = Seen
    BY <1>2 DEF Notify, proxy, Seen
  <2>3. \A c \in Chars : /\ air'[c] = IF c = ch THEN rest ELSE air[c]
                         /\ \/ buf'[c] = buf[c] /\ c # ch
                            \/ c = ch /\ (buf'[c] = value \/ buf'[c] = <<>>)
    <3>1. air \in [Chars -> Seq(SomeParts)] /\ buf \in [Chars -> Seq(SomeParts)]
      BY DEF TypeInv
    <3>2. \A c \in Chars : air'[c] = IF c = ch THEN rest ELSE air[c]
      BY <2>1, <3>1
    <3>3. ASSUME NEW kept, buf' = [buf EXCEPT ![ch] = kept]
          PROVE  \A c \in Chars : buf'[c] = IF c = ch THEN kept ELSE buf[c]
      BY <3>1, <3>3
    <3>4. CASE buf' = [buf EXCEPT ![ch] = value]
      BY <3>2, <3>3, <3>4
    <3>5. CASE buf' = [buf EXCEPT ![ch] = <<>>]
      BY <3>2, <3>3, <3>5
    <3> QED BY <2>1, <3>4, <3>5
  <2>4. \A v \in handed : ToSet(v) \cap ToSet(value) = {}
    BY <2>1 DEF PartsInv
  <2>5. \A c \in Chars \ {ch} : ToSet(value) \cap (ToSet(air[c]) \cup ToSet(buf[c])) = {}
    BY <2>1 DEF PartsInv
  <2>6. ToSet(value) \cap ToSet(rest) = {}
    BY <2>1 DEF PartsInv
  <2>7. \A p \in ToSet(value) : p.command \in Seen /\ command[p.command].char = ch
    BY <2>1 DEF PartsInv
  <2>8. PartsCountOnce'
    BY <2>1, <2>4 DEF PartsInv, PartsCountOnce
  <2>9. ASSUME NEW c \in Chars
        PROVE  /\ IsInjective(air'[c])
               /\ ToSet(air'[c]) \cap ToSet(buf'[c]) = {}
               /\ \A p \in ToSet(air'[c]) \cup ToSet(buf'[c]) :
                     p.command \in Seen' /\ command'[p.command].char = c
    <3>1. CASE c = ch
      BY <2>1, <2>2, <2>3, <2>6, <2>7, <3>1, EmptyParts DEF PartsInv
    <3>2. CASE c # ch
      <4>1. air'[c] = air[c] /\ buf'[c] = buf[c]
        BY <2>3, <3>2
      <4> QED BY <2>2, <4>1 DEF PartsInv
    <3> QED BY <3>1, <3>2
  <2>10. CASE buf' = [buf EXCEPT ![ch] = value] /\ handed' = handed
    <3>1. \A v \in handed', c \in Chars : ToSet(v) \cap (ToSet(air'[c]) \cup ToSet(buf'[c])) = {}
      BY <2>1, <2>3, <2>4, <2>10 DEF PartsInv
    <3> QED BY <2>2, <2>8, <2>9, <2>10, <3>1 DEF PartsInv
  <2>11. CASE buf' = [buf EXCEPT ![ch] = <<>>] /\ handed' = handed \cup {value}
    <3>1. \A c \in Chars : buf'[c] = IF c = ch THEN <<>> ELSE buf[c]
      BY <2>11 DEF TypeInv
    <3>2. \A v \in handed', c \in Chars : ToSet(v) \cap (ToSet(air'[c]) \cup ToSet(buf'[c])) = {}
      BY <2>1, <2>3, <2>4, <2>5, <2>6, <2>11, <3>1, EmptyParts DEF PartsInv
    <3>3. \A v \in handed' : \A p \in ToSet(v) : p.command \in Seen'
      BY <2>2, <2>7, <2>11 DEF PartsInv
    <3> QED BY <2>8, <2>9, <3>2, <3>3 DEF PartsInv
  <2> QED BY <2>1, <2>10, <2>11
<1>3. ASSUME NEW ch \in Chars, Miss(ch) PROVE PartsInv'
  <2>1. air[ch] \in Seq(SomeParts) /\ air[ch] # <<>> /\ IsInjective(air[ch])
    BY <1>3 DEF Miss, TypeInv, PartsInv
  <2>2. IsInjective(Tail(air[ch])) /\ ToSet(Tail(air[ch])) \subseteq ToSet(air[ch])
    BY <2>1, HeadAndTail
  <2>3. /\ air' = [air EXCEPT ![ch] = Tail(air[ch])] /\ UNCHANGED <<command, buf, handed, writing>>
    BY <1>3 DEF Miss, proxy
  <2> QED BY <2>2, <2>3 DEF TypeInv, PartsInv, Seen, PartsCountOnce
<1>4. ASSUME UNCHANGED <<command, air, buf, handed>>, writing' \subseteq writing
      PROVE  PartsInv'
  BY <1>4 DEF PartsInv, Seen, PartsCountOnce
<1>5. ASSUME NEW i \in writing, Written(i) PROVE PartsInv'
  <2>1. \A part \in ToSet(Whole(i)) : part.command = i
    BY WholeCommand DEF TypeInv
  <2>2. /\ writing' = writing \ {i} /\ handed' = handed \cup {Whole(i)}
        /\ UNCHANGED <<command, air, buf>>
    BY <1>5 DEF Written, observer
  <2>3. i \notin Seen /\ Seen' = Seen \cup {i}
    BY <2>2 DEF Seen, TypeInv
  <2>4. \A v \in handed : ToSet(v) \cap ToSet(Whole(i)) = {}
    BY <2>1, <2>3 DEF PartsInv
  <2>5. \A ch \in Chars : ToSet(Whole(i)) \cap (ToSet(air[ch]) \cup ToSet(buf[ch])) = {}
    BY <2>1, <2>3 DEF PartsInv
  <2>6. PartsCountOnce'
    BY <2>2, <2>4 DEF PartsInv, PartsCountOnce
  <2> QED BY <2>1, <2>2, <2>3, <2>5, <2>6 DEF PartsInv
<1>6. CASE Restart
  <2>1. \A ch \in Chars : ToSet(buf'[ch]) = {}
    BY <1>6, EmptyParts DEF Restart
  <2> QED BY <1>6, <2>1 DEF Restart, PartsInv, Seen, PartsCountOnce
<1>7. CASE Detach
  BY <1>4, <1>7 DEF Detach, proxy
<1>8. ASSUME NEW i \in travelling, Execute(i) PROVE PartsInv'
  BY <1>4, <1>8 DEF Execute, observer
<1>9. ASSUME NEW i \in writing, WriteFails(i) PROVE PartsInv'
  BY <1>4, <1>9 DEF WriteFails, observer
<1>10. CASE UNCHANGED vars
  BY <1>4, <1>10 DEF vars, observer, proxy
<1> QED BY <1>1, <1>2, <1>3, <1>5, <1>6, <1>7, <1>8, <1>9, <1>10 DEF Next

LEMMA PartsInvariant == Spec => [](TypeInv /\ PartsInv)
<1>1. Init => TypeInv /\ PartsInv
  <2> SUFFICES ASSUME Init PROVE TypeInv /\ PartsInv
    OBVIOUS
  <2>1. TypeInv
    BY EmptyParts DEF Init, TypeInv
  <2>2. PartsInv
    BY EmptyParts DEF Init, PartsInv, PartsCountOnce
  <2> QED BY <2>1, <2>2
<1> QED BY <1>1, TypeStep, PartsStep, PTL DEF Spec

\* However many parts commands have, whatever is missed, and whenever the link
\* drops, a callback raises or the process is restarted, no part is in two values
\* (the handler's buf, forward_from_app).
THEOREM PartsOnce == Spec => []PartsCountOnce
<1>1. PartsInv => PartsCountOnce
  BY DEF PartsInv
<1> QED BY <1>1, PartsInvariant, PTL

-----------------------------------------------------------------------------
(* The proxy.                                                               *)

\* Nothing is notified beside the proxy, and a write has exactly one part.
ProxyInv ==
    way = "proxy" =>
        /\ \A ch \in Chars : air[ch] = <<>>
        /\ \A i \in DOMAIN command :
              /\ command[i].full = 0 /\ command[i].tail
              /\ i \in writing \cup failed \/ Whole(i) \in handed
              /\ Whole(i) \in handed /\ command[i].response => i \in executed

LEMMA ProxyStep == TypeInv /\ PartsInv /\ ProxyInv /\ [Next]_vars => ProxyInv'
<1> SUFFICES ASSUME TypeInv, PartsInv, ProxyInv, [Next]_vars, way = "proxy", way' = way
             PROVE  ProxyInv'
  BY DEF Next, Issue, Notify, Miss, Detach, Execute, Written, WriteFails, Restart, vars, ProxyInv
<1>0. /\ \A ch \in Chars : air[ch] = <<>>
      /\ \A i \in DOMAIN command :
            /\ command[i].full = 0 /\ command[i].tail
            /\ i \in writing \cup failed \/ Whole(i) \in handed
            /\ Whole(i) \in handed /\ command[i].response => i \in executed
  BY DEF ProxyInv
<1>1. ASSUME NEW i \in DOMAIN command
      PROVE  \E part \in ToSet(Whole(i)) : part.command = i
  <2>1. i \in Nat /\ command[i].full = 0 /\ command[i].tail
    BY <1>0, WholeCommand
  <2>2. 1 \in DOMAIN Whole(i) /\ Whole(i)[1].command = i
    BY <2>1 DEF Whole, Parts
  <2> QED BY <2>2 DEF ToSet
<1>2. ASSUME UNCHANGED <<command, air, handed>>, executed \subseteq executed',
             writing \cup failed \subseteq writing' \cup failed'
      PROVE  ProxyInv'
  BY <1>0, <1>2 DEF ProxyInv, Whole
<1>3. ASSUME NEW c \in Commands, Issue(c) PROVE ProxyInv'
  <2>0. PICK i \in Nat : i = Len(command) + 1
    BY DEF TypeInv
  <2>1. /\ DOMAIN command' = DOMAIN command \cup {i} /\ i \notin DOMAIN command
        /\ command'[i] = c /\ \A k \in DOMAIN command : command'[k] = command[k]
    BY <1>3, <2>0, IssuedCommand
  <2>2. /\ c.full = 0 /\ c.tail
        /\ UNCHANGED <<air, handed, executed, failed>> /\ writing' = writing \cup {i}
    BY <1>3, <2>0 DEF Commands, Issue, observer, proxy
  <2>3. Whole(i)' \notin handed
    <3>1. 1 \in DOMAIN Whole(i)' /\ Whole(i)'[1].command = i
      BY <2>1, <2>2 DEF Whole, Parts
    <3>2. \A v \in handed : \A part \in ToSet(v) : part.command # i
      BY <2>1 DEF PartsInv, Seen
    <3> QED BY <3>1, <3>2 DEF ToSet
  <2>4. \A k \in DOMAIN command : Whole(k)' = Whole(k)
    BY <2>1 DEF Whole
  <2>5. ASSUME NEW k \in DOMAIN command'
        PROVE  /\ command'[k].full = 0 /\ command'[k].tail
               /\ k \in writing' \cup failed' \/ Whole(k)' \in handed'
               /\ Whole(k)' \in handed' /\ command'[k].response => k \in executed'
    BY <1>0, <2>1, <2>2, <2>3, <2>4
  <2> QED BY <1>0, <2>2, <2>5 DEF ProxyInv
<1>4. ASSUME NEW ch \in Chars, Notify(ch) \/ Miss(ch) PROVE ProxyInv'
  BY <1>0, <1>4 DEF Notify, Miss
<1>5. CASE Detach
  BY <1>5 DEF Detach
<1>6. ASSUME NEW i \in travelling, Execute(i) PROVE ProxyInv'
  BY <1>2, <1>6 DEF Execute, observer
<1>7. ASSUME NEW i \in writing, Written(i) PROVE ProxyInv'
  <2>1. /\ UNCHANGED <<command, air, executed, failed>>
        /\ writing' = writing \ {i} /\ handed' = handed \cup {Whole(i)}
        /\ command[i].response => i \in executed
    BY <1>7 DEF Written, Forwarded, observer
  <2>2. \A k \in DOMAIN command : Whole(k)' = Whole(k)
    BY <2>1 DEF Whole
  <2>3. i \in DOMAIN command
    BY DEF TypeInv
  <2>4. \A k \in DOMAIN command : Whole(k) = Whole(i) => k = i
    <3>1. \A part \in ToSet(Whole(i)) : part.command = i
      BY <2>3, WholeCommand
    <3> QED BY <1>1, <3>1
  <2>5. ASSUME NEW k \in DOMAIN command
        PROVE  /\ k \in writing' \cup failed' \/ Whole(k) \in handed'
               /\ Whole(k) \in handed' /\ command[k].response => k \in executed'
    BY <1>0, <2>1, <2>4
  <2> QED BY <1>0, <2>1, <2>2, <2>5 DEF ProxyInv
<1>8. ASSUME NEW i \in writing, WriteFails(i) PROVE ProxyInv'
  BY <1>2, <1>8 DEF WriteFails, observer
<1>9. CASE Restart
  BY <1>2, <1>9 DEF Restart
<1>10. CASE UNCHANGED vars
  BY <1>2, <1>10 DEF vars, observer, proxy
<1> QED BY <1>3, <1>4, <1>5, <1>6, <1>7, <1>8, <1>9, <1>10 DEF Next

\* "Forward first, count second" for any number of writes, answered late, never,
\* or after the process that waited for them is gone (forward_from_app).
THEOREM ProxyTrue == Spec => []ProxyCountsWhatRan
<1>1. Init => ProxyInv
  BY DEF Init, ProxyInv
<1>2. TypeInv /\ PartsInv /\ ProxyInv /\ [Next]_vars => ProxyInv'
  BY ProxyStep
<1>3. ProxyInv => ProxyCountsWhatRan
  BY DEF ProxyInv, ProxyCountsWhatRan
<1> QED BY <1>1, <1>2, <1>3, PartsInvariant, PTL DEF Spec

-----------------------------------------------------------------------------
(* The order of the parts.                                                  *)

PartOf(i, m) == [command |-> i, part |-> m, full |-> m <= command[i].full]

Size(i) == command[i].full + (IF command[i].tail THEN 1 ELSE 0)

\* s is command i from its k-th part on.
Rest(s, i, k) ==
    /\ k \in 1..Size(i) /\ Len(s) = Size(i) - k + 1
    /\ \A m \in 1..Len(s) : s[m] = PartOf(i, k - 1 + m)

\* No later command is on its characteristic.
Latest(i) == \A j \in DOMAIN command : command[j].char = command[i].char => j <= i

\* The command that is being notified on a characteristic, and its next part.
Current(ch) == air[ch][1].command
Position(ch) == air[ch][1].part

\* What is in the air is the rest of the latest command, and was not heard.
InAir(ch, i, k) ==
    /\ i \in DOMAIN command /\ command[i].char = ch /\ Latest(i)
    /\ Rest(air[ch], i, k)
    /\ \A m \in k..Size(i) : PartOf(i, m) \notin heard

AirInv ==
    /\ way = "proxy" => heard = {} /\ \A ch \in Chars : air[ch] = <<>> /\ buf[ch] = <<>>
    /\ \A ch \in Chars : air[ch] # <<>> => InAir(ch, Current(ch), Position(ch))
    /\ \A p \in heard : /\ p.command \in DOMAIN command /\ p = PartOf(p.command, p.part)
                        /\ p.part \in 1..Size(p.command)

LEMMA CommandTypes ==
    ASSUME TypeInv, NEW i \in DOMAIN command
    PROVE  /\ i \in Nat /\ command[i].full \in Nat /\ command[i].tail \in BOOLEAN
           /\ Size(i) \in Nat
           /\ \A m \in Nat : PartOf(i, m) \in SomeParts
<1>1. i \in Nat /\ command[i] \in AnyCommand
  BY DEF TypeInv
<1> QED BY <1>1 DEF AnyCommand, Size, PartOf, SomeParts

LEMMA WholeParts ==
    ASSUME TypeInv, NEW i \in DOMAIN command
    PROVE  /\ Whole(i) = [m \in 1..Size(i) |-> PartOf(i, m)] /\ Len(Whole(i)) = Size(i)
           /\ \A p : p \in ToSet(Whole(i)) <=> \E m \in 1..Size(i) : p = PartOf(i, m)
           /\ Closed(i) <=> command[i].tail /\ PartOf(i, Size(i)) \in heard
<1>1. Size(i) \in Nat
  BY CommandTypes
<1>2. Whole(i) = [m \in 1..Size(i) |-> PartOf(i, m)]
  BY DEF Whole, Parts, Size, PartOf
<1>3. Len(Whole(i)) = Size(i) /\ DOMAIN Whole(i) = 1..Size(i)
  BY <1>1, <1>2
<1>4. \A p : p \in ToSet(Whole(i)) <=> \E m \in 1..Size(i) : p = PartOf(i, m)
  BY <1>2, <1>3 DEF ToSet
<1>5. Closed(i) <=> command[i].tail /\ PartOf(i, Size(i)) \in heard
  <2>1. CASE command[i].tail
    <3>1. Size(i) \in 1..Size(i)
      BY <2>1, CommandTypes DEF Size
    <3>2. Last(Whole(i)) = PartOf(i, Size(i))
      BY <1>2, <1>3, <3>1 DEF Last
    <3> QED BY <2>1, <3>2 DEF Closed
  <2>2. CASE ~ command[i].tail
    BY <2>2 DEF Closed
  <2> QED BY <2>1, <2>2
<1> QED BY <1>2, <1>3, <1>4, <1>5

\* The next notification, and what is left after it.
LEMMA NextPart ==
    ASSUME TypeInv, AirInv, NEW ch \in Chars, air[ch] # <<>>,
           NEW i, i = Current(ch), NEW k, k = Position(ch)
    PROVE  /\ InAir(ch, i, k) /\ k \in 1..Size(i) /\ i \in DOMAIN command /\ command[i].char = ch
           /\ Head(air[ch]) = PartOf(i, k)
           /\ Tail(air[ch]) = <<>> <=> k = Size(i)
           /\ Tail(air[ch]) # <<>> => Rest(Tail(air[ch]), i, k + 1)
<1>1. InAir(ch, i, k) /\ i \in DOMAIN command /\ Size(i) \in Nat /\ k \in 1..Size(i)
      /\ command[i].char = ch
  BY CommandTypes DEF AirInv, InAir, Rest
<1>2. PICK s \in Seq(SomeParts) : s = air[ch]
  BY DEF TypeInv
<1>3. s # <<>> /\ Len(s) = Size(i) - k + 1 /\ \A m \in 1..Len(s) : s[m] = PartOf(i, k - 1 + m)
  BY <1>1, <1>2 DEF InAir, Rest
<1> HIDE DEF SomeParts
<1>4. Head(s) = s[1] /\ 1 \in 1..Len(s) /\ Tail(s) \in Seq(SomeParts)
      /\ Len(Tail(s)) = Len(s) - 1 /\ \A m \in 1..Len(s) - 1 : Tail(s)[m] = s[m + 1]
  BY <1>1, <1>2, <1>3
<1>5. Head(s) = PartOf(i, k)
  <2>1. k - 1 + 1 = k
    BY <1>1
  <2> QED BY <1>3, <1>4, <2>1
<1>6. PICK t : t = Tail(s)
  OBVIOUS
<1>7. t = <<>> <=> Len(t) = 0
  BY <1>4, <1>6, EmptySeq
<1>8. Len(t) = Size(i) - k /\ \A m \in 1..Len(t) : t[m] = s[m + 1]
  BY <1>1, <1>3, <1>4, <1>6
<1>9. t = <<>> <=> k = Size(i)
  BY <1>1, <1>7, <1>8
<1>10. ASSUME t # <<>> PROVE Rest(t, i, k + 1)
  <2>1. k + 1 \in 1..Size(i) /\ Len(t) = Size(i) - (k + 1) + 1
    BY <1>1, <1>8, <1>9, <1>10
  <2>2. ASSUME NEW m \in 1..Len(t) PROVE t[m] = PartOf(i, (k + 1) - 1 + m)
    <3>1. m + 1 \in 1..Len(s) /\ t[m] = s[m + 1] /\ k - 1 + (m + 1) = (k + 1) - 1 + m
      BY <1>1, <1>3, <1>8
    <3> QED BY <1>3, <3>1
  <2> QED BY <2>1, <2>2 DEF Rest
<1> QED BY <1>1, <1>2, <1>5, <1>6, <1>9, <1>10

\* A command stays what it was when others are issued.
LEMMA CommandsStay ==
    ASSUME \A i \in DOMAIN command : i \in DOMAIN command' /\ command'[i] = command[i]
    PROVE  \A i \in DOMAIN command :
              /\ Size(i)' = Size(i) /\ Whole(i)' = Whole(i)
              /\ \A m : PartOf(i, m)' = PartOf(i, m)
              /\ \A s, k : Rest(s, i, k)' = Rest(s, i, k)
BY DEF Size, Whole, PartOf, Rest

\* What Issue puts in the air: the command from its first part on.
LEMMA IssuedAir ==
    ASSUME TypeInv, NEW c \in Commands, Issue(c), way = "observe",
           NEW i, i = Len(command) + 1
    PROVE  /\ i \in Nat /\ c \in AnyCommand /\ c.char \in Chars /\ DOMAIN command = 1..i - 1
           /\ DOMAIN command' = DOMAIN command \cup {i} /\ i \notin DOMAIN command
           /\ command'[i] = c /\ \A j \in DOMAIN command : command'[j] = command[j]
           /\ \A ch \in Chars \ {c.char} : air'[ch] = air[ch]
           /\ air[c.char] = <<>> /\ air'[c.char] # <<>> /\ Rest(air[c.char], i, 1)'
           /\ Current(c.char)' = i /\ Position(c.char)' = 1
           /\ UNCHANGED <<way, mtuKnown, buf, heard, handed>>
<1>1. /\ c \in AnyCommand /\ command' \in Seq(AnyCommand)
      /\ Len(command) \in Nat /\ DOMAIN command = 1..Len(command)
      /\ DOMAIN command' = DOMAIN command \cup {i} /\ i \notin DOMAIN command
      /\ command'[i] = c /\ \A j \in DOMAIN command : command'[j] = command[j]
  BY IssuedCommand
<1>2. i \in Nat /\ i - 1 = Len(command)
  BY <1>1
<1>3. c.full \in Nat /\ c.char \in Chars /\ c.tail \in BOOLEAN
  BY <1>1 DEF AnyCommand
<1>4. /\ air[c.char] = <<>> /\ air' = [air EXCEPT ![c.char] = Parts(i, c)]
      /\ UNCHANGED <<way, mtuKnown, buf, heard, handed>>
  BY DEF Issue, observer, proxy
<1>5. Size(i)' \in Nat /\ Size(i)' >= 1
  <2>1. c.full > 0 \/ c.tail
    BY DEF Commands
  <2>2. CASE c.tail
    BY <1>1, <1>3, <2>2 DEF Size
  <2>3. CASE ~ c.tail
    BY <1>1, <1>3, <2>1, <2>3 DEF Size
  <2> QED BY <2>2, <2>3
<1>6. air'[c.char] = [m \in 1..Size(i)' |-> PartOf(i, m)']
      /\ \A ch \in Chars \ {c.char} : air'[ch] = air[ch]
  BY <1>1, <1>3, <1>4 DEF Parts, Size, PartOf, TypeInv
<1>7. Len(air'[c.char]) = Size(i)' /\ \A m \in 1..Size(i)' : air'[c.char][m] = PartOf(i, m)'
  BY <1>5, <1>6
<1>8. 1 \in 1..Size(i)' /\ \A m \in Int : 1 - 1 + m = m
  BY <1>5
<1>9. Rest(air[c.char], i, 1)'
  BY <1>5, <1>7, <1>8 DEF Rest
<1>10. air'[c.char] # <<>>
  BY <1>5, <1>7
<1>11. Current(c.char)' = i /\ Position(c.char)' = 1
  <2>1. air'[c.char][1] = PartOf(i, 1)'
    BY <1>7, <1>8
  <2>2. PartOf(i, 1)'.command = i /\ PartOf(i, 1)'.part = 1
    BY DEF PartOf
  <2> QED BY <2>1, <2>2 DEF Current, Position
<1> QED BY <1>1, <1>2, <1>3, <1>4, <1>6, <1>9, <1>10, <1>11

LEMMA AirStep == TypeInv /\ PartsInv /\ AirInv /\ [Next]_vars => AirInv'
<1> SUFFICES ASSUME TypeInv, PartsInv, AirInv, [Next]_vars PROVE AirInv'
  OBVIOUS
<1>0. /\ air \in [Chars -> Seq(SomeParts)] /\ buf \in [Chars -> Seq(SomeParts)]
  BY DEF TypeInv
<1>1. ASSUME UNCHANGED <<way, command, air, buf, heard>> PROVE AirInv'
  BY <1>1 DEF AirInv, InAir, Rest, Latest, Size, PartOf, Current, Position
<1>2. ASSUME NEW c \in Commands, Issue(c), way = "observe" PROVE AirInv'
  <2>0. PICK i \in Nat : i = Len(command) + 1
    BY DEF TypeInv
  <2>1. /\ c \in AnyCommand /\ c.char \in Chars /\ DOMAIN command = 1..i - 1
        /\ DOMAIN command' = DOMAIN command \cup {i} /\ i \notin DOMAIN command
        /\ command'[i] = c /\ \A j \in DOMAIN command : command'[j] = command[j]
    BY <1>2, <2>0, IssuedAir
  <2>2. /\ \A ch \in Chars \ {c.char} : air'[ch] = air[ch]
        /\ UNCHANGED <<way, buf, heard>> /\ Rest(air[c.char], i, 1)'
        /\ Current(c.char)' = i /\ Position(c.char)' = 1
    BY <1>2, <2>0, IssuedAir
  <2>3. \A j \in DOMAIN command : /\ Size(j)' = Size(j)
                                  /\ \A m : PartOf(j, m)' = PartOf(j, m)
                                  /\ \A s, k : Rest(s, j, k)' = Rest(s, j, k)
    BY <2>1, CommandsStay
  <2>4. \A p \in heard : p.command \in DOMAIN command
    BY DEF AirInv
  <2>5. \A p \in heard' : /\ p.command \in DOMAIN command' /\ p = PartOf(p.command, p.part)'
                          /\ p.part \in 1..Size(p.command)'
    BY <2>1, <2>2, <2>3 DEF AirInv
  <2>6. ASSUME NEW ch \in Chars, air'[ch] # <<>>
        PROVE  InAir(ch, Current(ch), Position(ch))'
    <3>1. CASE ch = c.char
      <4>1. Latest(i)'
        BY <2>1 DEF Latest
      <4>2. \A m : PartOf(i, m)' \notin heard'
        BY <2>1, <2>2, <2>4 DEF PartOf
      <4>3. InAir(ch, i, 1)'
        BY <2>1, <2>2, <3>1, <4>1, <4>2 DEF InAir
      <4> QED BY <2>2, <3>1, <4>3
    <3>2. CASE ch # c.char
      <4>1. air'[ch] = air[ch]
        BY <1>0, <2>2, <3>2
      <4>2. PICK j, k : j = Current(ch) /\ k = Position(ch)
        OBVIOUS
      <4>3. InAir(ch, j, k) /\ Current(ch)' = j /\ Position(ch)' = k
        BY <2>6, <4>1, <4>2 DEF AirInv, Current, Position
      <4>4. j \in DOMAIN command /\ Latest(j)'
        BY <2>1, <3>2, <4>3 DEF InAir, Latest
      <4>5. InAir(ch, j, k)'
        BY <2>1, <2>2, <2>3, <4>1, <4>3, <4>4 DEF InAir, Rest
      <4> QED BY <4>3, <4>5
    <3> QED BY <3>1, <3>2
  <2> QED BY <1>2, <2>2, <2>5, <2>6 DEF AirInv
<1>3. ASSUME NEW c \in Commands, Issue(c), way = "proxy" PROVE AirInv'
  BY <1>3 DEF Issue, AirInv, observer
<1>4. ASSUME NEW ch \in Chars, air[ch] # <<>>, air' = [air EXCEPT ![ch] = Tail(air[ch])],
             heard' \in {heard, heard \cup {Head(air[ch])}}, UNCHANGED <<way, command>>
      PROVE  AirInv'
  <2>0. PICK i, k : i = Current(ch) /\ k = Position(ch)
    OBVIOUS
  <2>1. /\ InAir(ch, i, k) /\ k \in 1..Size(i) /\ i \in DOMAIN command /\ command[i].char = ch
        /\ Head(air[ch]) = PartOf(i, k)
        /\ Tail(air[ch]) = <<>> <=> k = Size(i)
        /\ Tail(air[ch]) # <<>> => Rest(Tail(air[ch]), i, k + 1)
    BY <1>4, <2>0, NextPart
  <2>2. /\ \A j : Size(j)' = Size(j) /\ \A m : PartOf(j, m)' = PartOf(j, m)
        /\ \A j : Latest(j)' = Latest(j)
        /\ \A s, j, m : Rest(s, j, m)' = Rest(s, j, m)
    BY <1>4 DEF Size, PartOf, Latest, Rest
  <2>3. way # "proxy"
    BY <1>4 DEF AirInv
  <2>4. \A p \in heard' : /\ p.command \in DOMAIN command' /\ p = PartOf(p.command, p.part)'
                          /\ p.part \in 1..Size(p.command)'
    BY <1>4, <2>1, <2>2 DEF AirInv, PartOf
  <2>5. ASSUME NEW c \in Chars, air'[c] # <<>>
        PROVE  InAir(c, Current(c), Position(c))'
    <3>1. CASE c = ch
      <4>1. air'[c] = Tail(air[ch]) /\ Rest(air'[c], i, k + 1) /\ i \in Nat /\ Size(i) \in Nat
        BY <1>0, <1>4, <2>1, <2>5, <3>1, CommandTypes
      <4>2. k + 1 \in 1..Size(i) /\ 1 \in 1..Len(air'[c]) /\ (k + 1) - 1 + 1 = k + 1
        BY <2>1, <4>1 DEF Rest
      <4>3. air'[c][1] = PartOf(i, k + 1)
        BY <4>1, <4>2 DEF Rest
      <4>4. Current(c)' = i /\ Position(c)' = k + 1
        BY <4>3 DEF Current, Position, PartOf
      <4>5. \A m \in k + 1..Size(i) : m \in k..Size(i) /\ m # k
        BY <2>1, <4>1
      <4>6. \A m \in k + 1..Size(i) : PartOf(i, m) \notin heard'
        BY <1>4, <2>1, <4>5 DEF InAir, PartOf
      <4>7. InAir(c, i, k + 1)'
        BY <1>4, <2>1, <2>2, <3>1, <4>1, <4>6 DEF InAir
      <4> QED BY <4>4, <4>7
    <3>2. CASE c # ch
      <4>1. air'[c] = air[c]
        BY <1>0, <1>4, <3>2
      <4>2. PICK j, m : j = Current(c) /\ m = Position(c)
        OBVIOUS
      <4>3. InAir(c, j, m) /\ Current(c)' = j /\ Position(c)' = m
        BY <2>5, <4>1, <4>2 DEF AirInv, Current, Position
      <4>4. j # i /\ \A n : PartOf(j, n) # PartOf(i, k)
        BY <2>1, <3>2, <4>3 DEF InAir, PartOf
      <4>5. InAir(c, j, m)'
        BY <1>4, <2>1, <2>2, <4>1, <4>3, <4>4 DEF InAir
      <4> QED BY <4>3, <4>5
    <3> QED BY <3>1, <3>2
  <2> QED BY <1>4, <2>3, <2>4, <2>5 DEF AirInv
<1>5. ASSUME NEW ch \in Chars, Notify(ch) \/ Miss(ch) PROVE AirInv'
  BY <1>4, <1>5 DEF Notify, Miss
<1>6. CASE Restart
  <2>1. heard' \subseteq heard /\ UNCHANGED <<way, command, air>> /\ \A ch \in Chars : buf'[ch] = <<>>
    BY <1>6 DEF Restart
  <2> QED BY <2>1 DEF AirInv, InAir, Rest, Latest, Size, PartOf, Current, Position
<1>7. CASE Detach
  BY <1>1, <1>7 DEF Detach
<1>8. ASSUME NEW i \in travelling, Execute(i) PROVE AirInv'
  BY <1>1, <1>8 DEF Execute, observer
<1>9. ASSUME NEW i \in writing, Written(i) \/ WriteFails(i) PROVE AirInv'
  BY <1>1, <1>9 DEF Written, WriteFails, observer
<1>10. CASE UNCHANGED vars
  BY <1>1, <1>10 DEF vars, observer
<1> QED BY <1>2, <1>3, <1>5, <1>6, <1>7, <1>8, <1>9, <1>10 DEF Next, Issue

-----------------------------------------------------------------------------
(* What a buffer holds.                                                     *)

HeardBefore(i, k) == \A m \in 1..k - 1 : PartOf(i, m) \in heard

\* j is the command before i on its characteristic.
Before(j, i) ==
    /\ command[j].char = command[i].char
    /\ \A k \in j + 1..i - 1 : command[k].char # command[i].char

PreviousClosed(i) == \A j \in 1..i - 1 : Before(j, i) => Closed(j)

\* s ends with the first n parts of command i, and has no others of it.
EndsWith(s, i, n) ==
    /\ Len(s) >= n
    /\ \A m \in 1..Len(s) : IF m > Len(s) - n THEN s[m] = PartOf(i, m - (Len(s) - n))
                            ELSE s[m].command # i

\* A buffer holds full parts of commands whose end was not heard,
HoldsOpen(ch) ==
    \A m \in 1..Len(buf[ch]) :
        /\ buf[ch][m].full
        /\ \A q \in heard : q.command = buf[ch][m].command => q.full

\* it ends with what was heard of the current command, if nothing was missed, and
\* has nothing else if the command before was closed;
HoldsCurrent(ch) ==
    air[ch] # <<>> /\ HeardBefore(Current(ch), Position(ch)) =>
        /\ EndsWith(buf[ch], Current(ch), Position(ch) - 1)
        /\ PreviousClosed(Current(ch)) => Len(buf[ch]) = Position(ch) - 1

\* between two commands it holds something only if the last was left open.
HoldsOverOpen(ch) ==
    air[ch] = <<>> /\ buf[ch] # <<>> =>
        \E j \in DOMAIN command : command[j].char = ch /\ Latest(j) /\ ~ Closed(j)

\* No value has a part of the command that is being notified.
ValuesApart(ch) ==
    air[ch] # <<>> => \A v \in handed : \A p \in ToSet(v) : p.command # Current(ch)

BufferInv ==
    mtuKnown => \A ch \in Chars :
                   HoldsOpen(ch) /\ HoldsCurrent(ch) /\ HoldsOverOpen(ch) /\ ValuesApart(ch)

\* The parts of a buffer and of a value.
LEMMA PartsKnown ==
    ASSUME TypeInv, PartsInv, NEW ch \in Chars
    PROVE  /\ buf[ch] \in Seq(SomeParts) /\ Len(buf[ch]) \in Nat
           /\ \A m \in 1..Len(buf[ch]) : /\ buf[ch][m] \in ToSet(buf[ch])
                                         /\ buf[ch][m].command \in DOMAIN command
                                         /\ command[buf[ch][m].command].char = ch
           /\ \A v \in handed : \A p \in ToSet(v) : p.command \in DOMAIN command
<1>1. buf[ch] \in Seq(SomeParts)
  BY DEF TypeInv
<1>2. Len(buf[ch]) \in Nat /\ \A m \in 1..Len(buf[ch]) : buf[ch][m] \in ToSet(buf[ch])
  BY <1>1 DEF ToSet
<1> QED BY <1>1, <1>2 DEF PartsInv, Seen

\* The end of a command is its only part that is not full.
LEMMA EndOfCommand ==
    ASSUME TypeInv, AirInv, NEW i \in DOMAIN command
    PROVE  /\ \A m \in 1..Size(i) : ~ PartOf(i, m).full => m = Size(i) /\ command[i].tail
           /\ command[i].tail => /\ Size(i) \in 1..Size(i) /\ ~ PartOf(i, Size(i)).full
                                 /\ Size(i) - 1 = command[i].full
           /\ \A q \in heard : q.command = i /\ ~ q.full => Closed(i)
           /\ Closed(i) => \E q \in heard : q.command = i /\ ~ q.full
<1>1. command[i].full \in Nat /\ Size(i) \in Nat /\ command[i].tail \in BOOLEAN
  BY CommandTypes
<1> PICK full : full = command[i].full
  OBVIOUS
<1>0. /\ command[i].tail => Size(i) = full + 1
      /\ ~ command[i].tail => Size(i) = full
  <2>1. CASE command[i].tail
    BY <1>1, <2>1 DEF Size
  <2>2. CASE ~ command[i].tail
    BY <1>1, <2>2 DEF Size
  <2> QED BY <2>1, <2>2
<1>2. ASSUME NEW m \in 1..Size(i), ~ PartOf(i, m).full PROVE m = Size(i) /\ command[i].tail
  <2>1. ~ (m <= full)
    BY <1>2, Zenon DEF PartOf
  <2> QED BY <1>0, <1>1, <2>1
<1>3. ASSUME command[i].tail
      PROVE  /\ Size(i) \in 1..Size(i) /\ ~ PartOf(i, Size(i)).full
             /\ Size(i) - 1 = command[i].full
  <2>1. Size(i) = full + 1 /\ full \in Nat
    BY <1>0, <1>1, <1>3
  <2>2. ~ (Size(i) <= full) /\ Size(i) \in 1..Size(i) /\ Size(i) - 1 = full
    BY <2>1
  <2> QED BY <2>2, Zenon DEF PartOf
<1>4. \A q \in heard : q.command = i => q = PartOf(i, q.part) /\ q.part \in 1..Size(i)
  BY DEF AirInv
<1>5. \A q \in heard : q.command = i /\ ~ q.full => Closed(i)
  BY <1>2, <1>4, WholeParts
<1>6. Closed(i) => \E q \in heard : q.command = i /\ ~ q.full
  BY <1>3, WholeParts DEF PartOf
<1> QED BY <1>2, <1>3, <1>5, <1>6

\* The next part p of command i is heard: it is appended and waits, or the value is
\* handed over, and that is the end of the command.
Notified(ch, i, k, p) ==
    /\ heard' = heard \cup {p} /\ p \in SomeParts /\ k \in 1..Size(i)
    /\ i \in DOMAIN command /\ command[i].char = ch /\ InAir(ch, i, k)
    /\ air[ch] # <<>> /\ p \notin heard /\ ~ Closed(i)
    /\ \A c \in Chars \ {ch} : air'[c] = air[c] /\ buf'[c] = buf[c]
    /\ air'[ch] = Tail(air[ch]) /\ (air'[ch] = <<>> <=> k = Size(i))
    /\ air'[ch] # <<>> => Current(ch)' = i /\ Position(ch)' = k + 1
    /\ UNCHANGED <<mtuKnown, command>>
    /\ \/ p.full /\ buf'[ch] = Append(buf[ch], p) /\ handed' = handed
       \/ /\ ~ p.full /\ k = Size(i) /\ command[i].tail /\ buf'[ch] = <<>>
          /\ handed' = handed \cup {Append(buf[ch], p)}

LEMMA NotifySteps ==
    ASSUME TypeInv, PartsInv, AirInv, mtuKnown, NEW ch \in Chars, Notify(ch),
           NEW i, i = Current(ch), NEW k, k = Position(ch), NEW p, p = PartOf(i, k)
    PROVE  Notified(ch, i, k, p)
<1>1. air[ch] # <<>>
  BY DEF Notify
<1>2. /\ InAir(ch, i, k) /\ k \in 1..Size(i) /\ i \in DOMAIN command /\ command[i].char = ch
      /\ Head(air[ch]) = p
      /\ Tail(air[ch]) = <<>> <=> k = Size(i)
      /\ Tail(air[ch]) # <<>> => Rest(Tail(air[ch]), i, k + 1)
  BY <1>1, NextPart
<1>3. Size(i) \in Nat /\ k \in Nat /\ p \in SomeParts
  BY <1>2, CommandTypes
<1>4. p \notin heard /\ PartOf(i, Size(i)) \notin heard
  <2>1. k \in k..Size(i) /\ Size(i) \in k..Size(i)
    BY <1>2, <1>3
  <2> QED BY <1>2, <2>1 DEF InAir
<1>5. ~ Closed(i)
  BY <1>2, <1>4, WholeParts
<1>6. /\ heard' = heard \cup {p} /\ UNCHANGED <<mtuKnown, command>>
      /\ air' = [air EXCEPT ![ch] = Tail(air[ch])]
      /\ \/ p.full /\ buf' = [buf EXCEPT ![ch] = Append(buf[ch], p)] /\ handed' = handed
         \/ /\ ~ p.full /\ buf' = [buf EXCEPT ![ch] = <<>>]
            /\ handed' = handed \cup {Append(buf[ch], p)}
  BY <1>2 DEF Notify, Continued, Buffer, Leftover
<1>7. air'[ch] = Tail(air[ch]) /\ \A c \in Chars \ {ch} : air'[c] = air[c] /\ buf'[c] = buf[c]
  BY <1>6 DEF TypeInv
<1>8. air'[ch] # <<>> => Current(ch)' = i /\ Position(ch)' = k + 1
  <2> SUFFICES ASSUME air'[ch] # <<>> PROVE Current(ch)' = i /\ Position(ch)' = k + 1
    OBVIOUS
  <2>1. Rest(air'[ch], i, k + 1)
    BY <1>2, <1>7
  <2>2. 1 \in 1..Len(air'[ch]) /\ (k + 1) - 1 + 1 = k + 1
    BY <1>2, <1>3, <2>1 DEF Rest
  <2>3. air'[ch][1] = PartOf(i, k + 1)
    BY <2>1, <2>2 DEF Rest
  <2> QED BY <2>3 DEF Current, Position, PartOf
<1>9. ~ p.full => k = Size(i) /\ command[i].tail
  BY <1>2, EndOfCommand
<1>10. \/ p.full /\ buf'[ch] = Append(buf[ch], p) /\ handed' = handed
       \/ /\ ~ p.full /\ buf'[ch] = <<>>
          /\ handed' = handed \cup {Append(buf[ch], p)}
  BY <1>6 DEF TypeInv
<1> QED BY <1>1, <1>2, <1>3, <1>4, <1>5, <1>6, <1>7, <1>8, <1>9, <1>10 DEF Notified

\* Held(ch) is what BufferInv says of one characteristic.
Held(ch) == HoldsOpen(ch) /\ HoldsCurrent(ch) /\ HoldsOverOpen(ch) /\ ValuesApart(ch)

\* Nothing that concerns a characteristic changes when others go on.
LEMMA OtherCharacteristic ==
    ASSUME TypeInv, PartsInv, AirInv, NEW ch \in Chars, Held(ch),
           UNCHANGED command, air'[ch] = air[ch], buf'[ch] = buf[ch],
           \A q \in heard \cup heard' :
              command[q.command].char = ch => (q \in heard <=> q \in heard'),
           \A v \in handed' : \/ v \in handed
                              \/ \A p \in ToSet(v) : \/ p.command \in writing
                                                     \/ command[p.command].char # ch
    PROVE  Held(ch)'
<1> PICK i, k : i = Current(ch) /\ k = Position(ch)
  OBVIOUS
<1>1. Current(ch)' = i /\ Position(ch)' = k
  BY DEF Current, Position
<1>2. /\ \A j : Latest(j)' = Latest(j) /\ \A m : PartOf(j, m)' = PartOf(j, m)
      /\ \A j : Whole(j)' = Whole(j)
      /\ \A s, j, n : EndsWith(s, j, n)' = EndsWith(s, j, n)
      /\ \A j, m : Before(j, m)' = Before(j, m)
  BY DEF PartOf, Latest, Whole, EndsWith, Before
<1>3. \A j \in DOMAIN command : command[j].char = ch =>
        /\ \A m : PartOf(j, m) \in heard <=> PartOf(j, m) \in heard'
        /\ Closed(j)' <=> Closed(j)
  <2> SUFFICES ASSUME NEW j \in DOMAIN command, command[j].char = ch
               PROVE  /\ \A m : PartOf(j, m) \in heard <=> PartOf(j, m) \in heard'
                      /\ Closed(j)' <=> Closed(j)
    OBVIOUS
  <2>1. \A m : PartOf(j, m) \in heard <=> PartOf(j, m) \in heard'
    BY DEF PartOf
  <2>2. CASE command[j].tail
    <3>1. Size(j) \in Nat /\ Size(j) >= 1 /\ Whole(j) = [m \in 1..Size(j) |-> PartOf(j, m)]
          /\ Len(Whole(j)) = Size(j)
      BY <2>2, WholeParts, EndOfCommand
    <3>2. Last(Whole(j)) = PartOf(j, Size(j))
      BY <3>1 DEF Last
    <3> QED BY <1>2, <2>1, <2>2, <3>2 DEF Closed
  <2>3. CASE ~ command[j].tail
    <3>1. ~ Closed(j) /\ ~ command'[j].tail
      BY <2>3 DEF Closed
    <3>2. ~ Closed(j)'
      BY <3>1 DEF Closed
    <3> QED BY <2>1, <3>1, <3>2
  <2> QED BY <2>1, <2>2, <2>3
<1>4. air[ch] # <<>> => i \in DOMAIN command /\ command[i].char = ch
  BY DEF AirInv, InAir
<1>5. HoldsOpen(ch)'
  BY PartsKnown DEF Held, HoldsOpen
<1>6. HoldsCurrent(ch)'
  <2> SUFFICES ASSUME air[ch] # <<>>, HeardBefore(i, k)'
               PROVE  /\ EndsWith(buf[ch], i, k - 1)
                      /\ PreviousClosed(i)' => Len(buf[ch]) = k - 1
    BY <1>1, <1>2 DEF HoldsCurrent
  <2>1. HeardBefore(i, k)
    BY <1>1, <1>2, <1>3, <1>4 DEF HeardBefore
  <2>2. \A j \in 1..i - 1 : j \in DOMAIN command
    BY <1>4 DEF TypeInv
  <2>3. PreviousClosed(i)' => PreviousClosed(i)
    BY <1>1, <1>2, <1>3, <1>4, <2>2 DEF PreviousClosed, Before
  <2> QED BY <2>1, <2>3 DEF Held, HoldsCurrent
<1>7. HoldsOverOpen(ch)'
  BY <1>2, <1>3 DEF Held, HoldsOverOpen
<1>8. ValuesApart(ch)'
  <2> SUFFICES ASSUME air[ch] # <<>>, NEW v \in handed', NEW p \in ToSet(v)
               PROVE  p.command # i
    BY <1>1 DEF ValuesApart
  <2>1. air[ch][1] \in ToSet(air[ch])
    <3>1. air[ch] \in Seq(SomeParts)
      BY DEF TypeInv
    <3>2. Len(air[ch]) \in Nat \ {0} /\ DOMAIN air[ch] = 1..Len(air[ch])
      BY <3>1, EmptySeq
    <3>3. 1 \in DOMAIN air[ch]
      BY <3>2
    <3> QED BY <3>3 DEF ToSet
  <2>2. i \notin writing
    BY <2>1 DEF PartsInv, Seen, Current
  <2> QED BY <1>4, <2>2 DEF Held, ValuesApart
<1> QED BY <1>5, <1>6, <1>7, <1>8 DEF Held

LEMMA IssueBuffers ==
    ASSUME TypeInv, PartsInv, AirInv, BufferInv, NEW c \in Commands, Issue(c),
           mtuKnown, way = "observe"
    PROVE  \A ch \in Chars : Held(ch)'
<1>0. PICK i \in Nat : i = Len(command) + 1
  BY DEF TypeInv
<1>1. /\ c \in AnyCommand /\ c.char \in Chars /\ DOMAIN command = 1..i - 1
      /\ DOMAIN command' = DOMAIN command \cup {i} /\ i \notin DOMAIN command
      /\ command'[i] = c /\ \A j \in DOMAIN command : command'[j] = command[j]
      /\ \A ch \in Chars \ {c.char} : air'[ch] = air[ch]
      /\ air[c.char] = <<>> /\ air'[c.char] # <<>>
      /\ Current(c.char)' = i /\ Position(c.char)' = 1
      /\ UNCHANGED <<mtuKnown, buf, heard, handed>>
  BY <1>0, IssuedAir
<1>2. \A j \in DOMAIN command :
        /\ \A m : PartOf(j, m)' = PartOf(j, m)
        /\ Closed(j)' <=> Closed(j)
  <2>1. \A j \in DOMAIN command :
        /\ Size(j)' = Size(j) /\ Whole(j)' = Whole(j)
        /\ \A m : PartOf(j, m)' = PartOf(j, m)
    BY <1>1, CommandsStay
  <2>2. ASSUME NEW j \in DOMAIN command PROVE Closed(j)' <=> Closed(j)
    <3>1. command'[j].tail = command[j].tail /\ Whole(j)' = Whole(j) /\ heard' = heard
      BY <1>1, <2>1
    <3> QED BY <3>1 DEF Closed
  <2> QED BY <2>1, <2>2
<1>3. \A ch \in Chars : HoldsOpen(ch)' /\ Held(ch)
  BY <1>1 DEF BufferInv, Held, HoldsOpen
<1>4. ASSUME NEW ch \in Chars, ch = c.char PROVE Held(ch)'
  <2>1. EndsWith(buf[ch], i, 0)'
    <3>1. Len(buf[ch]) \in Nat /\ \A m \in 1..Len(buf[ch]) : buf[ch][m].command # i
      BY <1>1, PartsKnown
    <3> QED BY <1>1, <3>1 DEF EndsWith
  <2>2. ASSUME PreviousClosed(i)' PROVE Len(buf[ch]) = 0
    <3> SUFFICES ASSUME buf[ch] # <<>> PROVE FALSE
      OBVIOUS
    <3>1. PICK j \in DOMAIN command : command[j].char = ch /\ Latest(j) /\ ~ Closed(j)
      BY <1>1, <1>3, <1>4 DEF Held, HoldsOverOpen
    <3>2. \A k \in j + 1..i - 1 : k \in DOMAIN command /\ ~ (k <= j)
      BY <1>1
    <3>3. \A k \in j + 1..i - 1 : command'[k].char # ch
      BY <1>1, <3>1, <3>2 DEF Latest
    <3>4. Before(j, i)' /\ j \in 1..i - 1
      BY <1>1, <1>4, <3>1, <3>3 DEF Before
    <3>5. Closed(j)'
      BY <2>2, <3>4 DEF PreviousClosed
    <3> QED BY <1>2, <3>1, <3>5
  <2>3. HoldsCurrent(ch)'
    <3>1. 1 - 1 = 0 /\ Current(ch)' = i /\ Position(ch)' = 1 /\ buf' = buf
      BY <1>1, <1>4
    <3> QED BY <2>1, <2>2, <3>1 DEF HoldsCurrent
  <2>4. HoldsOverOpen(ch)'
    BY <1>1, <1>4 DEF HoldsOverOpen
  <2>5. ValuesApart(ch)'
    BY <1>1, <1>4, PartsKnown DEF ValuesApart
  <2> QED BY <1>3, <2>3, <2>4, <2>5 DEF Held
<1>5. ASSUME NEW ch \in Chars, ch # c.char PROVE Held(ch)'
  <2>0. PICK j, k : j = Current(ch) /\ k = Position(ch)
    OBVIOUS
  <2>1. /\ air'[ch] = air[ch] /\ buf'[ch] = buf[ch] /\ heard' = heard /\ handed' = handed
        /\ Current(ch)' = j /\ Position(ch)' = k
    BY <1>1, <1>5, <2>0 DEF Current, Position
  <2>2. ASSUME air[ch] # <<>> PROVE HoldsCurrent(ch)'
    <3>1. j \in DOMAIN command /\ j \in Int /\ j < i
      BY <1>0, <1>1, <2>0, <2>2 DEF AirInv, InAir
    <3>2. HeardBefore(j, k)' <=> HeardBefore(j, k)
      BY <1>2, <2>1, <3>1 DEF HeardBefore
    <3>3. \A s, n : EndsWith(s, j, n)' <=> EndsWith(s, j, n)
      BY <1>2, <3>1 DEF EndsWith
    <3>4. PreviousClosed(j)' => PreviousClosed(j)
      <4>1. \A n \in 1..j : n \in DOMAIN command /\ command'[n] = command[n]
        BY <1>0, <1>1, <3>1
      <4>2. \A n \in 1..j - 1 : n \in 1..j /\ \A m \in n + 1..j - 1 : m \in 1..j
        BY <3>1
      <4>3. j \in 1..j
        BY <1>1, <3>1
      <4>4. \A n \in 1..j - 1 : Before(n, j) => Before(n, j)'
        BY <4>1, <4>2, <4>3 DEF Before
      <4> QED BY <1>2, <4>1, <4>2, <4>4 DEF PreviousClosed
    <3>5. EndsWith(buf[ch], j, k - 1)' <=> EndsWith(buf[ch], j, k - 1)
      BY <1>1, <1>2, <3>1 DEF EndsWith
    <3> QED BY <1>3, <2>0, <2>1, <2>2, <3>2, <3>4, <3>5 DEF Held, HoldsCurrent
  <2>3. HoldsOverOpen(ch)'
    <3>1. \A n \in DOMAIN command : command[n].char = ch /\ Latest(n) => Latest(n)'
      BY <1>1, <1>5 DEF Latest
    <3> QED BY <1>1, <1>2, <1>3, <2>1, <3>1 DEF Held, HoldsOverOpen
  <2>4. ValuesApart(ch)'
    BY <1>3, <2>0, <2>1 DEF Held, ValuesApart
  <2>5. air[ch] = <<>> => HoldsCurrent(ch)'
    BY <2>1 DEF HoldsCurrent
  <2> QED BY <1>3, <2>2, <2>3, <2>4, <2>5 DEF Held
<1> QED BY <1>4, <1>5

LEMMA NotifyBuffers ==
    ASSUME TypeInv, PartsInv, AirInv, BufferInv, mtuKnown, NEW ch \in Chars, Notify(ch)
    PROVE  \A c \in Chars : Held(c)'
<1>0. PICK i, k, p : i = Current(ch) /\ k = Position(ch) /\ p = PartOf(i, k)
  OBVIOUS
<1>1. /\ heard' = heard \cup {p} /\ p \in SomeParts /\ k \in 1..Size(i)
      /\ i \in DOMAIN command /\ command[i].char = ch /\ InAir(ch, i, k)
      /\ air[ch] # <<>> /\ p \notin heard /\ ~ Closed(i)
      /\ \A c \in Chars \ {ch} : air'[c] = air[c] /\ buf'[c] = buf[c]
      /\ air'[ch] = Tail(air[ch]) /\ (air'[ch] = <<>> <=> k = Size(i))
      /\ air'[ch] # <<>> => Current(ch)' = i /\ Position(ch)' = k + 1
      /\ UNCHANGED <<mtuKnown, command>>
      /\ \/ p.full /\ buf'[ch] = Append(buf[ch], p) /\ handed' = handed
         \/ /\ ~ p.full /\ k = Size(i) /\ command[i].tail /\ buf'[ch] = <<>>
            /\ handed' = handed \cup {Append(buf[ch], p)}
  <2>1. Notified(ch, i, k, p)
    BY <1>0, NotifySteps
  <2> QED BY <2>1 DEF Notified
<1>2. /\ p.command = i /\ i \in Nat /\ Size(i) \in Nat /\ k \in Nat
      /\ \A c \in Chars : Held(c)
  BY <1>0, <1>1, CommandTypes DEF PartOf, BufferInv, Held
<1>3. /\ buf[ch] \in Seq(SomeParts) /\ Len(buf[ch]) \in Nat
      /\ \A m \in 1..Len(buf[ch]) : /\ buf[ch][m].command \in DOMAIN command
                                    /\ command[buf[ch][m].command].char = ch
      /\ \A q \in ToSet(Append(buf[ch], p)) : command[q.command].char = ch
  <2>1. /\ buf[ch] \in Seq(SomeParts) /\ Len(buf[ch]) \in Nat
        /\ \A m \in 1..Len(buf[ch]) : /\ buf[ch][m].command \in DOMAIN command
                                      /\ command[buf[ch][m].command].char = ch
    BY PartsKnown
  <2>2. ToSet(Append(buf[ch], p)) = ToSet(buf[ch]) \cup {p}
    BY <1>1, <2>1, AppendedParts
  <2>3. \A q \in ToSet(buf[ch]) : command[q.command].char = ch
    BY DEF PartsInv
  <2> QED BY <1>1, <1>2, <2>1, <2>2, <2>3
<1>4. ASSUME NEW c \in Chars, c # ch PROVE Held(c)'
  <2>1. \A q \in heard \cup heard' :
           command[q.command].char = c => (q \in heard <=> q \in heard')
    BY <1>1, <1>2, <1>4
  <2>2. \A v \in handed' : v \in handed \/ \A q \in ToSet(v) : command[q.command].char # c
    BY <1>1, <1>3, <1>4
  <2> QED BY <1>1, <1>2, <1>4, <2>1, <2>2, OtherCharacteristic
<1>5. ASSUME p.full, buf'[ch] = Append(buf[ch], p), handed' = handed PROVE Held(ch)'
  <2>0. PICK s, n : s = buf[ch] /\ n = Len(s)
    OBVIOUS
  <2>1. /\ n \in Nat /\ Len(buf'[ch]) = n + 1 /\ buf'[ch][n + 1] = p
        /\ \A m \in 1..n : buf'[ch][m] = s[m]
    <3> HIDE DEF SomeParts
    <3> QED BY <1>1, <1>3, <1>5, <2>0
  <2>2. HoldsOpen(ch)'
    <3> SUFFICES ASSUME NEW m \in 1..n + 1
                 PROVE  /\ buf'[ch][m].full
                        /\ \A q \in heard' : q.command = buf'[ch][m].command => q.full
      BY <2>1 DEF HoldsOpen
    <3>1. CASE m = n + 1
      <4>1. \A q \in heard : q.command = i => q.full
        BY <1>1, EndOfCommand
      <4> QED BY <1>1, <1>2, <1>5, <2>1, <3>1, <4>1
    <3>2. CASE m \in 1..n
      BY <1>1, <1>2, <1>5, <2>0, <2>1, <3>2 DEF Held, HoldsOpen
    <3> QED BY <2>1, <3>1, <3>2
  <2>3. HoldsCurrent(ch)'
    <3> SUFFICES ASSUME air'[ch] # <<>>, HeardBefore(i, k + 1)'
                 PROVE  /\ EndsWith(buf[ch], i, (k + 1) - 1)'
                        /\ PreviousClosed(i)' => Len(buf'[ch]) = (k + 1) - 1
      BY <1>1 DEF HoldsCurrent
    <3>1. HeardBefore(i, k)
      <4> SUFFICES ASSUME NEW m \in 1..k - 1 PROVE PartOf(i, m) \in heard
        BY DEF HeardBefore
      <4>1. m \in 1..(k + 1) - 1 /\ m # k
        BY <1>2
      <4>2. PartOf(i, m) \in heard'
        BY <1>1, <4>1 DEF HeardBefore, PartOf
      <4> QED BY <1>0, <1>1, <4>1, <4>2 DEF PartOf
    <3>2. EndsWith(s, i, k - 1) /\ (PreviousClosed(i) => n = k - 1)
      BY <1>0, <1>1, <1>2, <2>0, <3>1 DEF Held, HoldsCurrent
    <3>3. EndsWith(buf[ch], i, (k + 1) - 1)'
      <4>1. (k + 1) - 1 = k /\ n + 1 >= k /\ (n + 1) - k = n - (k - 1)
        BY <1>2, <2>0, <2>1, <3>2 DEF EndsWith
      <4>2. ASSUME NEW m \in 1..n + 1
            PROVE  IF m > (n + 1) - k THEN buf'[ch][m] = PartOf(i, m - ((n + 1) - k))
                   ELSE buf'[ch][m].command # i
        <5>1. CASE m = n + 1
          <6>1. m - ((n + 1) - k) = k /\ m > (n + 1) - k
            BY <1>1, <1>2, <2>1, <5>1
          <6> QED BY <1>0, <2>1, <5>1, <6>1
        <5>2. CASE m \in 1..n
          <6>1. IF m > n - (k - 1) THEN s[m] = PartOf(i, m - (n - (k - 1))) ELSE s[m].command # i
            BY <2>0, <3>2, <5>2 DEF EndsWith
          <6> QED BY <2>1, <4>1, <5>2, <6>1
        <5> QED BY <2>1, <5>1, <5>2
      <4>3. \A m : PartOf(i, m)' = PartOf(i, m)
        BY <1>1 DEF PartOf
      <4> QED BY <2>1, <4>1, <4>2, <4>3 DEF EndsWith
    <3>4. ASSUME PreviousClosed(i)' PROVE Len(buf'[ch]) = (k + 1) - 1
      <4>1. ASSUME NEW j \in 1..i - 1, Before(j, i) PROVE Closed(j)
        <5>1. Before(j, i)'
          BY <1>1, <4>1 DEF Before
        <5>2. Closed(j)' /\ j # i /\ j \in DOMAIN command
          BY <1>1, <1>2, <3>4, <4>1, <5>1 DEF PreviousClosed, TypeInv
        <5>3. command[j].tail /\ PartOf(j, Size(j)) \in heard'
          <6>1. command[j].tail /\ Last(Whole(j)) \in heard'
            BY <1>1, <5>2 DEF Closed, Whole
          <6>2. Size(j) \in Nat /\ Size(j) >= 1 /\ Whole(j) = [m \in 1..Size(j) |-> PartOf(j, m)]
                /\ Len(Whole(j)) = Size(j)
            BY <5>2, <6>1, WholeParts, EndOfCommand
          <6> QED BY <6>1, <6>2 DEF Last
        <5>4. PartOf(j, Size(j)) \in heard
          BY <1>0, <1>1, <5>2, <5>3 DEF PartOf
        <5> QED BY <5>2, <5>3, <5>4, WholeParts
      <4>2. n = k - 1
        BY <3>2, <4>1 DEF PreviousClosed
      <4> QED BY <1>2, <2>1, <4>2
    <3> QED BY <3>3, <3>4
  <2>4. HoldsOverOpen(ch)'
    <3> SUFFICES ASSUME air'[ch] = <<>> PROVE command[i].char = ch /\ Latest(i)' /\ ~ Closed(i)'
      BY <1>1 DEF HoldsOverOpen
    <3>1. ~ command[i].tail
      <4>1. k = Size(i) /\ p.full
        BY <1>1, <1>5
      <4>2. command[i].tail => ~ PartOf(i, Size(i)).full
        BY <1>1, EndOfCommand
      <4> QED BY <1>0, <4>1, <4>2
    <3>2. Latest(i)'
      BY <1>1 DEF InAir, Latest
    <3>3. ~ Closed(i)'
      <4>1. ~ command'[i].tail
        BY <1>1, <3>1
      <4> QED BY <4>1 DEF Closed
    <3> QED BY <1>1, <3>2, <3>3
  <2>5. ValuesApart(ch)'
    BY <1>0, <1>1, <1>2, <1>5 DEF ValuesApart, Held
  <2> QED BY <2>2, <2>3, <2>4, <2>5 DEF Held
<1>6. ASSUME ~ p.full, k = Size(i), buf'[ch] = <<>> PROVE Held(ch)'
  <2>1. air'[ch] = <<>> /\ Len(buf'[ch]) = 0
    BY <1>1, <1>6
  <2>2. 1..0 = {}
    OBVIOUS
  <2> QED BY <1>6, <2>1, <2>2 DEF Held, HoldsOpen, HoldsCurrent, HoldsOverOpen, ValuesApart
<1> QED BY <1>1, <1>4, <1>5, <1>6

LEMMA MissBuffers ==
    ASSUME TypeInv, PartsInv, AirInv, BufferInv, mtuKnown, NEW ch \in Chars, Miss(ch)
    PROVE  \A c \in Chars : Held(c)'
<1>0. PICK i, k : i = Current(ch) /\ k = Position(ch)
  OBVIOUS
<1>1. /\ air[ch] # <<>> /\ air' = [air EXCEPT ![ch] = Tail(air[ch])]
      /\ UNCHANGED <<mtuKnown, command, buf, heard, handed>>
  BY DEF Miss
<1>2. /\ InAir(ch, i, k) /\ k \in 1..Size(i) /\ i \in DOMAIN command /\ command[i].char = ch
      /\ Tail(air[ch]) = <<>> <=> k = Size(i)
      /\ Tail(air[ch]) # <<>> => Rest(Tail(air[ch]), i, k + 1)
  BY <1>0, <1>1, NextPart
<1>3. /\ i \in Nat /\ Size(i) \in Nat /\ k \in Nat
      /\ \A c \in Chars : Held(c)
      /\ air'[ch] = Tail(air[ch]) /\ \A c \in Chars \ {ch} : air'[c] = air[c]
  BY <1>1, <1>2, CommandTypes DEF BufferInv, Held, TypeInv
<1>4. ASSUME NEW c \in Chars, c # ch PROVE Held(c)'
  BY <1>1, <1>3, <1>4, OtherCharacteristic
<1>5. ASSUME air'[ch] # <<>> PROVE Current(ch)' = i /\ Position(ch)' = k + 1
  <2>1. Rest(air'[ch], i, k + 1)
    BY <1>2, <1>3, <1>5
  <2>2. 1 \in 1..Len(air'[ch]) /\ (k + 1) - 1 + 1 = k + 1
    BY <1>2, <1>3, <2>1 DEF Rest
  <2>3. air'[ch][1] = PartOf(i, k + 1)
    BY <2>1, <2>2 DEF Rest
  <2> QED BY <2>3 DEF Current, Position, PartOf
<1>6. PartOf(i, k) \notin heard /\ PartOf(i, Size(i)) \notin heard
  <2>1. k \in k..Size(i) /\ Size(i) \in k..Size(i)
    BY <1>2, <1>3
  <2> QED BY <1>2, <2>1 DEF InAir
<1>7. HoldsOpen(ch)'
  BY <1>1, <1>3 DEF Held, HoldsOpen
<1>8. HoldsCurrent(ch)'
  <2> SUFFICES ASSUME air'[ch] # <<>>, HeardBefore(i, k + 1)' PROVE FALSE
    BY <1>5 DEF HoldsCurrent
  <2>1. k \in 1..(k + 1) - 1
    BY <1>2, <1>3
  <2>2. PartOf(i, k) \in heard
    BY <1>1, <2>1 DEF HeardBefore, PartOf
  <2> QED BY <1>6, <2>2
<1>9. HoldsOverOpen(ch)'
  <2>1. ~ Closed(i)
    BY <1>2, <1>6, WholeParts
  <2>2. ~ Closed(i)' /\ Latest(i)'
    BY <1>1, <1>2, <2>1 DEF Closed, Whole, InAir, Latest
  <2> QED BY <1>1, <1>2, <2>2 DEF HoldsOverOpen
<1>10. ValuesApart(ch)'
  BY <1>0, <1>1, <1>3, <1>5 DEF ValuesApart, Held
<1> QED BY <1>4, <1>7, <1>8, <1>9, <1>10 DEF Held

LEMMA RestartBuffers ==
    ASSUME TypeInv, PartsInv, AirInv, BufferInv, mtuKnown, Restart
    PROVE  \A c \in Chars : Held(c)'
<1> SUFFICES ASSUME NEW ch \in Chars PROVE Held(ch)'
  OBVIOUS
<1>0. PICK i, k : i = Current(ch) /\ k = Position(ch)
  OBVIOUS
<1>1. /\ UNCHANGED <<mtuKnown, command, air, handed>> /\ buf'[ch] = <<>>
      /\ heard' \subseteq heard /\ ToSet(buf[ch]) \cap heard' = {}
      /\ Current(ch)' = i /\ Position(ch)' = k
  BY <1>0 DEF Restart, Current, Position
<1>2. Len(buf'[ch]) = 0 /\ 1..0 = {} /\ Held(ch)
  BY <1>1 DEF BufferInv, Held
<1>3. HoldsOpen(ch)' /\ HoldsOverOpen(ch)' /\ ValuesApart(ch)'
  BY <1>0, <1>1, <1>2 DEF Held, HoldsOpen, HoldsOverOpen, ValuesApart
<1>4. HoldsCurrent(ch)'
  <2> SUFFICES ASSUME air[ch] # <<>>, HeardBefore(i, k)'
               PROVE  EndsWith(buf[ch], i, k - 1)' /\ Len(buf'[ch]) = k - 1
    BY <1>1 DEF HoldsCurrent
  <2>1. k \in 1..Size(i) /\ i \in DOMAIN command /\ Size(i) \in Nat
    BY <1>0, NextPart, CommandTypes
  <2>2. k = 1
    <3> SUFFICES ASSUME k # 1 PROVE FALSE
      OBVIOUS
    <3>1. HeardBefore(i, k) /\ PartOf(i, 1) \in heard'
      <4>1. 1 \in 1..k - 1
        BY <2>1
      <4> QED BY <1>1, <4>1 DEF HeardBefore, PartOf
    <3>2. EndsWith(buf[ch], i, k - 1)
      BY <1>0, <1>2, <3>1 DEF Held, HoldsCurrent
    <3>3. PICK n \in Nat : n = Len(buf[ch])
      BY PartsKnown
    <3>4. PICK m : m = n - (k - 1) + 1
      OBVIOUS
    <3>5. m \in 1..n /\ m > n - (k - 1) /\ m - (n - (k - 1)) = 1
      BY <2>1, <3>2, <3>3, <3>4 DEF EndsWith
    <3>6. buf[ch][m] = PartOf(i, 1)
      BY <3>2, <3>3, <3>5 DEF EndsWith
    <3>7. buf[ch][m] \in ToSet(buf[ch])
      BY <3>3, <3>5, PartsKnown
    <3> QED BY <1>1, <3>1, <3>6, <3>7
  <2> QED BY <1>2, <2>2 DEF EndsWith
<1> QED BY <1>3, <1>4 DEF Held

LEMMA BufferStep == TypeInv /\ PartsInv /\ AirInv /\ BufferInv /\ [Next]_vars => BufferInv'
<1> SUFFICES ASSUME TypeInv, PartsInv, AirInv, BufferInv, [Next]_vars, mtuKnown, mtuKnown' = mtuKnown
             PROVE  \A ch \in Chars : Held(ch)'
  BY DEF BufferInv, Held, Next, Issue, Notify, Miss, Detach, Execute, Written, WriteFails,
         Restart, vars
<1>0. \A ch \in Chars : Held(ch)
  BY DEF BufferInv, Held
<1>1. ASSUME UNCHANGED <<command, air, buf, heard>>,
             \A v \in handed' : v \in handed \/ \A p \in ToSet(v) : p.command \in writing
      PROVE  \A ch \in Chars : Held(ch)'
  BY <1>0, <1>1, OtherCharacteristic
<1>2. ASSUME NEW c \in Commands, Issue(c), way = "proxy" PROVE \A ch \in Chars : Held(ch)'
  <2>1. UNCHANGED <<air, buf, heard>> /\ \A ch \in Chars : air[ch] = <<>> /\ buf[ch] = <<>>
    BY <1>2 DEF Issue, observer, AirInv
  <2>2. Len(<<>>) = 0 /\ 1..0 = {}
    OBVIOUS
  <2> QED BY <2>1, <2>2 DEF Held, HoldsOpen, HoldsCurrent, HoldsOverOpen, ValuesApart
<1>3. ASSUME NEW i \in writing, Written(i) PROVE \A ch \in Chars : Held(ch)'
  <2>1. \A p \in ToSet(Whole(i)) : p.command = i
    BY WholeCommand DEF TypeInv
  <2> QED BY <1>1, <1>3, <2>1 DEF Written, observer
<1>4. ASSUME NEW i \in writing, WriteFails(i) PROVE \A ch \in Chars : Held(ch)'
  BY <1>1, <1>4 DEF WriteFails, observer
<1>5. ASSUME NEW i \in travelling, Execute(i) PROVE \A ch \in Chars : Held(ch)'
  BY <1>1, <1>5 DEF Execute, observer
<1>6. CASE Detach
  BY <1>1, <1>6 DEF Detach
<1>7. CASE UNCHANGED vars
  BY <1>1, <1>7 DEF vars, observer
<1>8. ASSUME NEW c \in Commands, Issue(c) PROVE \A ch \in Chars : Held(ch)'
  BY <1>2, <1>8, IssueBuffers DEF Issue
<1>9. ASSUME NEW ch \in Chars, Notify(ch) \/ Miss(ch) PROVE \A c \in Chars : Held(c)'
  BY <1>9, NotifyBuffers, MissBuffers
<1>10. CASE Restart
  BY <1>10, RestartBuffers
<1> QED BY <1>3, <1>4, <1>5, <1>6, <1>7, <1>8, <1>9, <1>10 DEF Next

-----------------------------------------------------------------------------
(* Whole values.                                                            *)

\* A value is one command, or it can be told why not.
Excused(v) ==
    \/ \E i \in DOMAIN command : v = Whole(i)
    \/ \E part \in ToSet(v) :
          \/ ~ ToSet(Whole(part.command)) \subseteq heard
          \/ ~ command[part.command].tail

LEMMA StillExcused ==
    ASSUME TypeInv, PartsInv, NEW v \in handed, Excused(v),
           \A i \in DOMAIN command : i \in DOMAIN command' /\ command'[i] = command[i],
           \A q \in ToSet(v) : \A r \in heard' : r \in heard \/ r.command # q.command
    PROVE  Excused(v)'
<1>1. \A i \in DOMAIN command : Whole(i)' = Whole(i)
  BY CommandsStay
<1>2. \A q \in ToSet(v) : q.command \in DOMAIN command
  BY DEF PartsInv, Seen
<1>3. CASE \E i \in DOMAIN command : v = Whole(i)
  BY <1>1, <1>3 DEF Excused
<1>4. ASSUME NEW q \in ToSet(v), ~ ToSet(Whole(q.command)) \subseteq heard
      PROVE  ~ ToSet(Whole(q.command))' \subseteq heard'
  <2>1. q.command \in DOMAIN command
    BY <1>2
  <2>2. \A r \in ToSet(Whole(q.command)) : r.command = q.command
    BY <2>1, WholeCommand
  <2> QED BY <1>1, <1>4, <2>1, <2>2
<1>5. CASE \E q \in ToSet(v) : ~ ToSet(Whole(q.command)) \subseteq heard
  BY <1>4, <1>5 DEF Excused
<1>6. CASE \E q \in ToSet(v) : ~ command[q.command].tail
  BY <1>2, <1>6 DEF Excused
<1> QED BY <1>3, <1>5, <1>6 DEF Excused

\* When a command ends, all of which was heard, and the buffer had nothing else,
\* the value is the command.
LEMMA WholeValue ==
    ASSUME TypeInv, PartsInv, NEW ch \in Chars, NEW i \in DOMAIN command,
           NEW k \in Nat, k = Size(i), k >= 1, EndsWith(buf[ch], i, k - 1),
           Len(buf[ch]) = k - 1
    PROVE  Append(buf[ch], PartOf(i, k)) = Whole(i)
<1> PICK s, p : s = buf[ch] /\ p = PartOf(i, k)
  OBVIOUS
<1>1. s \in Seq(SomeParts) /\ p \in SomeParts /\ Len(s) = k - 1
  BY PartsKnown, CommandTypes
<1>2. \A m \in 1..k - 1 : s[m] = PartOf(i, m)
  <2> SUFFICES ASSUME NEW m \in 1..k - 1 PROVE s[m] = PartOf(i, m)
    OBVIOUS
  <2>1. Len(s) - (k - 1) = 0 /\ m > 0 /\ m - 0 = m
    BY <1>1
  <2> QED BY <1>1, <2>1 DEF EndsWith
<1>3. /\ Append(s, p) = [m \in 1..k |-> IF m = k THEN p ELSE s[m]]
  <2> HIDE DEF SomeParts
  <2>1. Append(s, p) \in Seq(SomeParts) /\ Len(Append(s, p)) = k
        /\ \A m \in 1..k : Append(s, p)[m] = IF m = k THEN p ELSE s[m]
    BY <1>1
  <2>2. Append(s, p) = [m \in 1..Len(Append(s, p)) |-> Append(s, p)[m]]
    BY <2>1
  <2> QED BY <2>1, <2>2
<1>4. Append(s, p) = [m \in 1..k |-> PartOf(i, m)]
  <2>1. \A m \in 1..k : m = k \/ m \in 1..k - 1
    OBVIOUS
  <2> QED BY <1>2, <1>3, <2>1
<1> QED BY <1>4, WholeParts

\* What was heard before the end, when all of the command was.
LEMMA HeardToTheEnd ==
    ASSUME TypeInv, PartsInv, AirInv, BufferInv, mtuKnown, NEW ch \in Chars, Notify(ch),
           NEW i, i = Current(ch), NEW k, k = Position(ch), NEW p, p = PartOf(i, k),
           k = Size(i), ToSet(Whole(i)) \subseteq heard'
    PROVE  /\ k \in Nat /\ k >= 1 /\ EndsWith(buf[ch], i, k - 1)
           /\ PreviousClosed(i) => Len(buf[ch]) = k - 1
<1>1. /\ Notified(ch, i, k, p)
  BY NotifySteps
<1>2. /\ k \in 1..Size(i) /\ i \in DOMAIN command /\ heard' = heard \cup {p} /\ air[ch] # <<>>
  BY <1>1 DEF Notified
<1>3. Size(i) \in Nat
  BY <1>2, CommandTypes
<1>4. HeardBefore(i, k)
  <2> SUFFICES ASSUME NEW m \in 1..k - 1 PROVE PartOf(i, m) \in heard
    BY DEF HeardBefore
  <2>1. m \in 1..Size(i) /\ m # k
    BY <1>2, <1>3
  <2>2. PartOf(i, m) \in heard'
    BY <1>2, <2>1, WholeParts
  <2> QED BY <1>2, <2>1, <2>2 DEF PartOf
<1>5. HoldsCurrent(ch)
  BY DEF BufferInv
<1> QED BY <1>2, <1>3, <1>4, <1>5 DEF HoldsCurrent

LEMMA WholeStep ==
    TypeInv /\ PartsInv /\ AirInv /\ BufferInv /\ WholeUnlessMissed /\ [Next]_vars
        => WholeUnlessMissed'
<1> SUFFICES ASSUME TypeInv, PartsInv, AirInv, BufferInv, [Next]_vars, mtuKnown,
                    mtuKnown' = mtuKnown, \A v \in handed : Excused(v)
             PROVE  \A v \in handed' : Excused(v)'
  BY DEF WholeUnlessMissed, Excused, Next, Issue, Notify, Miss, Detach, Execute, Written,
         WriteFails, Restart, vars
<1>1. ASSUME heard' \subseteq heard, handed' = handed,
             \A i \in DOMAIN command : i \in DOMAIN command' /\ command'[i] = command[i]
      PROVE  \A v \in handed' : Excused(v)'
  BY <1>1, StillExcused
<1>2. ASSUME NEW c \in Commands, Issue(c) PROVE \A v \in handed' : Excused(v)'
  BY <1>1, <1>2, IssuedCommand DEF Issue, observer
<1>3. ASSUME NEW ch \in Chars, Notify(ch) PROVE \A v \in handed' : Excused(v)'
  <2>0. PICK i, k, p : i = Current(ch) /\ k = Position(ch) /\ p = PartOf(i, k)
    OBVIOUS
  <2>1. Notified(ch, i, k, p)
    BY <1>3, <2>0, NotifySteps
  <2>2. /\ heard' = heard \cup {p} /\ p.command = i /\ UNCHANGED command
        /\ i \in DOMAIN command /\ command[i].char = ch /\ air[ch] # <<>> /\ k \in 1..Size(i)
        /\ p \notin heard
        /\ \A v \in handed' : \/ v \in handed
                              \/ ~ p.full /\ k = Size(i) /\ v = Append(buf[ch], p)
    BY <2>0, <2>1 DEF Notified, PartOf
  <2>3. ASSUME NEW v \in handed PROVE Excused(v)'
    <3>1. \A q \in ToSet(v) : q.command # i
      BY <2>0, <2>2 DEF BufferInv, ValuesApart
    <3>2. \A q \in ToSet(v) : \A r \in heard' : r \in heard \/ r.command # q.command
      BY <2>2, <3>1
    <3> QED BY <2>2, <3>2, StillExcused
  <2>4. ASSUME ~ p.full, k = Size(i), NEW v, v = Append(buf[ch], p), ~ Excused(v)'
        PROVE  FALSE
    <3>1. /\ buf[ch] \in Seq(SomeParts) /\ Len(buf[ch]) \in Nat /\ p \in SomeParts
          /\ \A m \in 1..Len(buf[ch]) : /\ buf[ch][m] \in ToSet(buf[ch])
                                        /\ buf[ch][m].command \in DOMAIN command
      BY <2>1, PartsKnown DEF Notified
    <3>2. ToSet(v) = ToSet(buf[ch]) \cup {p}
      BY <2>4, <3>1, AppendedParts
    <3>3. \A q \in ToSet(v) : ToSet(Whole(q.command)) \subseteq heard' /\ command[q.command].tail
      BY <2>2, <2>4 DEF Excused, Whole
    <3>4. ToSet(Whole(i)) \subseteq heard'
      BY <2>2, <3>2, <3>3
    <3>5. k \in Nat /\ k >= 1 /\ EndsWith(buf[ch], i, k - 1)
      BY <1>3, <2>0, <2>4, <3>4, HeardToTheEnd
    <3>6. Len(buf[ch]) = k - 1
      <4> SUFFICES ASSUME Len(buf[ch]) # k - 1 PROVE FALSE
        OBVIOUS
      <4>1. 1 \in 1..Len(buf[ch]) /\ ~ (1 > Len(buf[ch]) - (k - 1))
        BY <3>1, <3>5 DEF EndsWith
      <4>2. PICK j : j = buf[ch][1].command
        OBVIOUS
      <4>3. j # i /\ j \in DOMAIN command /\ buf[ch][1] \in ToSet(v)
        BY <3>1, <3>2, <3>5, <4>1, <4>2 DEF EndsWith
      <4>4. ToSet(Whole(j)) \subseteq heard' /\ command[j].tail
        BY <3>3, <4>2, <4>3
      <4>5. Size(j) \in 1..Size(j) /\ ~ PartOf(j, Size(j)).full
        BY <4>3, <4>4, EndOfCommand
      <4>6. PartOf(j, Size(j)) \in heard'
        BY <4>3, <4>4, <4>5, WholeParts
      <4>7. PartOf(j, Size(j)) \in heard /\ PartOf(j, Size(j)).command = j
        BY <2>2, <4>3, <4>6 DEF PartOf
      <4>8. HoldsOpen(ch)
        BY DEF BufferInv
      <4> QED BY <4>1, <4>2, <4>5, <4>7, <4>8 DEF HoldsOpen
    <3>7. v = Whole(i)
      BY <2>0, <2>2, <2>4, <3>5, <3>6, WholeValue
    <3> QED BY <2>2, <2>4, <3>7 DEF Excused, Whole
  <2> QED BY <2>2, <2>3, <2>4
<1>4. ASSUME NEW i \in writing, Written(i) PROVE \A v \in handed' : Excused(v)'
  <2>1. /\ UNCHANGED <<command, heard>> /\ handed' = handed \cup {Whole(i)} /\ i \in DOMAIN command
    BY <1>4 DEF Written, observer, TypeInv
  <2>2. \A v \in handed : Excused(v)'
    BY <2>1, StillExcused
  <2>3. Whole(i)' = Whole(i)
    BY <2>1 DEF Whole
  <2>4. ASSUME NEW v, v = Whole(i) PROVE Excused(v)'
    BY <2>1, <2>3, <2>4 DEF Excused
  <2> QED BY <2>1, <2>2, <2>4
<1>5. CASE UNCHANGED <<command, heard, handed>>
  BY <1>1, <1>5
<1>6. CASE Restart
  BY <1>1, <1>6 DEF Restart
<1> QED BY <1>2, <1>3, <1>4, <1>5, <1>6
        DEF Next, Miss, Detach, Execute, WriteFails, vars, observer

\* Command i was received whole, and so was the end of the one before.
Complete(i) == ToSet(Whole(i)) \subseteq heard /\ Closed(i) /\ PreviousClosed(i)

\* A command that no step has just ended was complete before.
LEMMA CompleteBefore ==
    ASSUME TypeInv, AirInv, NEW i \in DOMAIN command, Complete(i)',
           \A j \in DOMAIN command : j \in DOMAIN command' /\ command'[j] = command[j],
           \A r \in heard' : \/ r \in heard
                             \/ /\ r.command # i
                                /\ \A j \in 1..i - 1 : r.command = j => command[j].char # command[i].char
    PROVE  Complete(i)
<1>1. \A j \in DOMAIN command : Whole(j)' = Whole(j)
  BY CommandsStay
<1>2. i \in Nat /\ \A j \in 1..i : j \in DOMAIN command
  BY DEF TypeInv
<1>3. ToSet(Whole(i)) \subseteq heard
  <2>1. \A r \in ToSet(Whole(i)) : r.command = i
    BY WholeCommand
  <2> QED BY <1>1, <2>1 DEF Complete
<1>4. ASSUME NEW j \in 1..i, Closed(j)', command[j].char = command[i].char PROVE Closed(j)
  <2>1. command[j].tail /\ Last(Whole(j)) \in heard' /\ j \in DOMAIN command
    BY <1>1, <1>2, <1>4 DEF Closed
  <2>2. Size(j) \in 1..Size(j) /\ Whole(j) = [m \in 1..Size(j) |-> PartOf(j, m)]
        /\ Len(Whole(j)) = Size(j)
    BY <2>1, WholeParts, EndOfCommand
  <2>3. Last(Whole(j)) = PartOf(j, Size(j))
    BY <2>2 DEF Last
  <2>4. Last(Whole(j)).command = j
    BY <2>3 DEF PartOf
  <2>5. j = i \/ j \in 1..i - 1
    BY <1>2
  <2>6. Last(Whole(j)) \in heard
    BY <1>4, <2>1, <2>4, <2>5
  <2> QED BY <2>1, <2>6 DEF Closed
<1>5. Closed(i)
  <2>1. i \in 1..i
    BY <1>2, CommandTypes DEF TypeInv
  <2> QED BY <1>4, <2>1 DEF Complete
<1>6. ASSUME NEW j \in 1..i - 1, Before(j, i) PROVE Closed(j)
  <2>1. j \in 1..i /\ i \in 1..i /\ \A k \in j + 1..i - 1 : k \in 1..i
    BY <1>2
  <2>2. Before(j, i)'
    BY <1>2, <1>6, <2>1 DEF Before
  <2>3. Closed(j)' /\ command[j].char = command[i].char
    BY <1>6, <2>2 DEF Complete, PreviousClosed, Before
  <2> QED BY <1>4, <2>1, <2>3
<1> QED BY <1>3, <1>5, <1>6 DEF Complete, PreviousClosed

LEMMA CompleteStep ==
    TypeInv /\ PartsInv /\ AirInv /\ BufferInv /\ CompleteCommandsAreHanded /\ [Next]_vars
        => CompleteCommandsAreHanded'
<1> SUFFICES ASSUME TypeInv, PartsInv, AirInv, BufferInv, [Next]_vars, mtuKnown,
                    mtuKnown' = mtuKnown,
                    \A i \in DOMAIN command : Complete(i) => Whole(i) \in handed,
                    NEW i \in DOMAIN command', Complete(i)'
             PROVE  Whole(i)' \in handed'
  <2>1. [Next]_vars => mtuKnown' = mtuKnown
    BY DEF Next, Issue, Notify, Miss, Detach, Execute, Written, WriteFails, Restart, vars
  <2>2. CompleteCommandsAreHanded =
           (mtuKnown => \A i \in DOMAIN command : Complete(i) => Whole(i) \in handed)
    BY DEF CompleteCommandsAreHanded, Complete, PreviousClosed, Before
  <2>3. CompleteCommandsAreHanded' =
           (mtuKnown' => \A i \in DOMAIN command' : Complete(i)' => Whole(i)' \in handed')
    BY DEF CompleteCommandsAreHanded, Complete, PreviousClosed, Before
  <2> QED BY <2>1, <2>2, <2>3
<1>1. ASSUME heard' \subseteq heard, handed \subseteq handed', i \in DOMAIN command,
             \A j \in DOMAIN command : j \in DOMAIN command' /\ command'[j] = command[j]
      PROVE  Whole(i)' \in handed'
  BY <1>1, CompleteBefore, CommandsStay
<1>2. ASSUME NEW c \in Commands, Issue(c) PROVE Whole(i)' \in handed'
  <2>1. /\ DOMAIN command' = DOMAIN command \cup {Len(command) + 1}
        /\ Len(command) + 1 \notin DOMAIN command
        /\ \A j \in DOMAIN command : command'[j] = command[j]
    BY <1>2, IssuedCommand
  <2>2. heard' = heard /\ handed' = handed
    BY <1>2 DEF Issue, observer
  <2>3. CASE i \in DOMAIN command
    BY <1>1, <2>1, <2>2, <2>3
  <2>4. CASE i \notin DOMAIN command
    <3>1. PICK c1 \in AnyCommand : c1 = command'[i]
      BY <1>2, <2>1, <2>4, IssuedCommand
    <3>2. Whole(i)' = Parts(i, c1) /\ c1.tail /\ Last(Whole(i)') \in heard
      BY <2>2, <3>1 DEF Complete, Closed, Whole
    <3>3. PICK n \in Nat : n = c1.full + 1
      BY <3>1 DEF AnyCommand
    <3>4. Parts(i, c1) = [m \in 1..n |-> [command |-> i, part |-> m, full |-> m <= c1.full]]
      BY <3>2, <3>3 DEF Parts
    <3>5. n \in 1..n /\ Len(Parts(i, c1)) = n
      BY <3>1, <3>3, <3>4 DEF AnyCommand
    <3>6. Last(Whole(i)').command = i
      BY <3>2, <3>4, <3>5 DEF Last
    <3> QED BY <2>4, <3>2, <3>6 DEF AirInv
  <2> QED BY <2>3, <2>4
<1>3. ASSUME NEW ch \in Chars, Notify(ch) PROVE Whole(i)' \in handed'
  <2>0. PICK n, k, p : n = Current(ch) /\ k = Position(ch) /\ p = PartOf(n, k)
    OBVIOUS
  <2>1. Notified(ch, n, k, p)
    BY <1>3, <2>0, NotifySteps
  <2>2. /\ heard' = heard \cup {p} /\ p.command = n /\ UNCHANGED command /\ handed \subseteq handed'
        /\ n \in DOMAIN command /\ command[n].char = ch /\ k \in 1..Size(n) /\ p \notin heard
        /\ Latest(n) /\ i \in DOMAIN command /\ i \in Nat /\ Whole(i)' = Whole(i)
        /\ \A m \in k..Size(n) : PartOf(n, m) \notin heard
    BY <2>0, <2>1 DEF Notified, InAir, PartOf, TypeInv, Whole
  <2>3. CASE i # n
    <3>1. \A j \in 1..i - 1 : n = j => command[j].char # command[i].char
      BY <2>2 DEF Latest
    <3>2. Complete(i)
      BY <2>2, <2>3, <3>1, CompleteBefore
    <3> QED BY <2>2, <3>2
  <2>4. CASE i = n
    <3>1. Closed(i)' /\ ToSet(Whole(i)) \subseteq heard' /\ PreviousClosed(i)'
      BY <2>2 DEF Complete
    <3>2. command[i].tail /\ Last(Whole(i)) \in heard'
      BY <2>2, <3>1 DEF Closed
    <3>3. Size(i) \in 1..Size(i) /\ Size(i) \in Nat /\ ~ PartOf(i, Size(i)).full
          /\ Whole(i) = [m \in 1..Size(i) |-> PartOf(i, m)] /\ Len(Whole(i)) = Size(i)
      BY <2>2, <3>2, WholeParts, EndOfCommand, CommandTypes
    <3>4. Last(Whole(i)) = PartOf(i, Size(i)) /\ Size(i) \in k..Size(i)
      BY <2>2, <2>4, <3>3 DEF Last
    <3>5. PartOf(i, Size(i)) = p
      BY <2>2, <2>4, <3>2, <3>4
    <3>6. k = Size(i) /\ ~ p.full
      BY <2>0, <2>4, <3>3, <3>5 DEF PartOf
    <3>7. PreviousClosed(i)
      <4> SUFFICES ASSUME NEW j \in 1..i - 1, Before(j, i) PROVE Closed(j)
        BY DEF PreviousClosed
      <4>1. Before(j, i)' /\ j # i /\ j \in DOMAIN command
        BY <2>2 DEF Before, TypeInv
      <4>2. command[j].tail /\ Last(Whole(j)) \in heard'
        BY <2>2, <3>1, <4>1 DEF PreviousClosed, Closed, Whole
      <4>3. Size(j) \in 1..Size(j)
            /\ Whole(j) = [m \in 1..Size(j) |-> PartOf(j, m)] /\ Len(Whole(j)) = Size(j)
        BY <4>1, <4>2, WholeParts, EndOfCommand
      <4>4. Last(Whole(j)).command = j
        BY <4>3 DEF Last, PartOf
      <4> QED BY <2>2, <2>4, <4>1, <4>2, <4>4 DEF Closed
    <3>8. k \in Nat /\ k >= 1 /\ EndsWith(buf[ch], i, k - 1) /\ Len(buf[ch]) = k - 1
      BY <1>3, <2>0, <2>4, <3>1, <3>6, <3>7, HeardToTheEnd
    <3>9. Append(buf[ch], p) = Whole(i)
      BY <2>0, <2>2, <2>4, <3>6, <3>8, WholeValue
    <3>10. Append(buf[ch], p) \in handed'
      BY <2>1, <3>6 DEF Notified
    <3> QED BY <2>2, <3>9, <3>10
  <2> QED BY <2>3, <2>4
<1>4. ASSUME NEW j \in writing, Written(j) PROVE Whole(i)' \in handed'
  BY <1>1, <1>4 DEF Written, observer
<1>5. CASE UNCHANGED <<command, heard, handed>>
  BY <1>1, <1>5
<1>6. CASE Restart
  BY <1>1, <1>6 DEF Restart
<1> QED BY <1>2, <1>3, <1>4, <1>5, <1>6
        DEF Next, Miss, Detach, Execute, WriteFails, vars, observer

LEMMA OrderInvariant == Spec => [](TypeInv /\ PartsInv /\ AirInv /\ BufferInv)
<1>1. Init => AirInv /\ BufferInv
  <2> SUFFICES ASSUME Init PROVE AirInv /\ BufferInv
    OBVIOUS
  <2>1. AirInv
    BY DEF Init, AirInv
  <2>2. Len(<<>>) = 0 /\ 1..0 = {}
    OBVIOUS
  <2> QED BY <2>1, <2>2
          DEF Init, BufferInv, HoldsOpen, HoldsCurrent, HoldsOverOpen, ValuesApart
<1> QED BY <1>1, AirStep, BufferStep, PartsInvariant, PTL DEF Spec

\* However commands and their parts are missed, interleaved and restarted over, a
\* value that is no command of the app is made of parts of one that lost a part or
\* had no short end, if bleak knows the MTU (the handler in PassiveObserver).
THEOREM ValuesWhole == Spec => []WholeUnlessMissed
<1>1. Init => WholeUnlessMissed
  BY DEF Init, WholeUnlessMissed
<1> QED BY <1>1, WholeStep, OrderInvariant, PTL DEF Spec

\* A command of any number of parts that was received whole is handed over whole
\* if the one before it was closed, whatever the other characteristics do (the
\* buffer of each handler).
THEOREM CompleteHanded == Spec => []CompleteCommandsAreHanded
<1>1. Init => CompleteCommandsAreHanded
  BY DEF Init, CompleteCommandsAreHanded
<1> QED BY <1>1, CompleteStep, OrderInvariant, PTL DEF Spec
====
