--------------------------- MODULE RequestsProofs ---------------------------
(***************************************************************************)
(* Proofs about Requests: the orders of the rfs tool for command lines of  *)
(* any length, and the numbers of a client's messages of any width.        *)
(***************************************************************************)
EXTENDS Requests, TLAPS

(***************************************************************************)
(* The client.  Age(i) is how many messages ago i was given, if it was.    *)
(***************************************************************************)
Age(i) == IF i <= f_message_id THEN f_message_id - i
                               ELSE f_message_id + (Width - 1) - i

ClientInv ==
    /\ ClientTypeOK
    /\ used[0] = 0
    /\ \A i \in MessageIds \ {0} : used[i] # 0 => used[i] <= sends - Age(i)

ClientStep ==
    \A i \in MessageIds :
        used'[i] # used[i] =>
            /\ i # 0
            /\ used[i] # 0 => used'[i] - used[i] >= Width - 1

\* What set_message_id() gives: the next number, 1 after the last.
LEMMA NextNumber ==
    ASSUME ClientInv, NEW request, Send(request)
    PROVE  /\ f_message_id' \in MessageIds \ {0}
           /\ \/ f_message_id' = f_message_id + 1
              \/ f_message_id = Width - 1 /\ f_message_id' = 1
  BY WidthAssumption
     DEF ClientInv, ClientTypeOK, MessageIds, Send, MessageId, Increment

LEMMA SendInv ==
    ASSUME ClientInv, NEW request, Send(request)
    PROVE  ClientInv' /\ ClientStep
<1>0. PICK n : n = f_message_id'
  OBVIOUS
<1>1. /\ n \in MessageIds \ {0} /\ f_message_id' = n
      /\ n = f_message_id + 1 \/ (f_message_id = Width - 1 /\ n = 1)
  BY <1>0, NextNumber
<1>2. /\ used \in [MessageIds -> Nat] /\ sends \in Nat
      /\ f_message_id \in MessageIds /\ Width \in Nat /\ Width >= 2
  BY WidthAssumption DEF ClientInv, ClientTypeOK
<1>3. sends' = sends + 1 /\ used' = [used EXCEPT ![n] = sends + 1]
  BY <1>0 DEF Send
<1>4. /\ used' \in [MessageIds -> Nat] /\ used'[n] = sends + 1
      /\ \A i \in MessageIds \ {n} : used'[i] = used[i]
  BY <1>1, <1>2, <1>3
<1>5. ASSUME NEW i \in MessageIds \ {0}, i # n, used[i] # 0
      PROVE  used[i] <= sends + 1 - Age(i)'
  <2>1. used[i] <= sends - Age(i) /\ used[i] \in Nat
    BY <1>2, <1>5 DEF ClientInv
  <2>2. Age(i)' <= Age(i) + 1
    BY <1>1, <1>2, <1>5 DEF Age, MessageIds
  <2>3. Age(i) \in Int /\ Age(i)' \in Int
    BY <1>1, <1>2, <1>5 DEF Age, MessageIds
  <2> QED
    BY <2>1, <2>2, <2>3, <1>2
<1>6. ASSUME used[n] # 0
      PROVE  sends + 1 - used[n] >= Width - 1
  <2>1. used[n] <= sends - Age(n) /\ used[n] \in Nat
    BY <1>1, <1>2, <1>6 DEF ClientInv
  <2>2. Age(n) = Width - 2
    BY <1>1, <1>2 DEF Age, MessageIds
  <2> QED
    BY <2>1, <2>2, <1>2
<1>7. ClientStep
  BY <1>1, <1>2, <1>4, <1>6 DEF ClientStep
<1>8. ClientTypeOK' /\ used'[0] = 0
  <2>1. 0 \in MessageIds
    BY <1>2 DEF MessageIds
  <2> QED
    BY <2>1, <1>1, <1>2, <1>3, <1>4 DEF ClientTypeOK, ClientInv, MessageIds
<1>9. ASSUME NEW i \in MessageIds \ {0}, used'[i] # 0
      PROVE  used'[i] <= sends' - Age(i)'
  <2>1. CASE i = n
    <3>1. Age(i)' = 0
      BY <2>1, <1>1, <1>2 DEF Age, MessageIds
    <3> QED
      BY <3>1, <2>1, <1>2, <1>3, <1>4
  <2>2. CASE i # n
    <3>1. used'[i] = used[i] /\ used[i] # 0
      BY <2>2, <1>4, <1>9
    <3>2. used[i] <= sends + 1 - Age(i)'
      BY <2>2, <3>1, <1>5
    <3>3. sends' = sends + 1 /\ sends \in Nat
      BY <1>2, <1>3
    <3>4. Age(i)' \in Int
      BY <1>1, <1>2 DEF Age, MessageIds
    <3> QED
      BY <3>1, <3>2, <3>3, <3>4
  <2> QED
    BY <2>1, <2>2
<1> QED
  BY <1>7, <1>8, <1>9 DEF ClientInv, MessageIds

LEMMA ClientInitInv == ClientInit => ClientInv
  BY WidthAssumption DEF ClientInit, ClientInv, ClientTypeOK, MessageIds

LEMMA ClientKept ==
    ASSUME ClientInv, UNCHANGED client_vars
    PROVE  ClientInv' /\ ClientStep
  BY DEF ClientInv, ClientStep, ClientTypeOK, MessageIds, Age, client_vars

LEMMA ClientNextInv ==
    ASSUME ClientInv, [RequestsNext]_<< vars, client_vars >>
    PROVE  ClientInv' /\ ClientStep
<1>1. CASE ClientNext
  BY <1>1, SendInv DEF ClientNext
<1>2. CASE UNCHANGED client_vars
  BY <1>2, ClientKept
<1> QED
  BY <1>1, <1>2 DEF RequestsNext

\* client::set_message_id(): for a counter of any width, no message has the
\* number 0, and a number comes back only after all the others.
THEOREM NumbersAreApart == RequestsSpec => NumbersLast
<1>1. RequestsInit => ClientInv
  BY ClientInitInv DEF RequestsInit
<1>2. ClientInv /\ [RequestsNext]_<< vars, client_vars >>
          => ClientInv' /\ [ClientStep]_client_vars
  BY ClientNextInv
<1>3. [ClientStep]_client_vars
          <=> [\A i \in MessageIds :
                  used'[i] # used[i] =>
                      /\ i # 0
                      /\ used[i] # 0 => used'[i] - used[i] >= Width - 1]_client_vars
  BY DEF ClientStep
<1> QED
  BY <1>1, <1>2, <1>3, PTL DEF RequestsSpec, NumbersLast

-----------------------------------------------------------------------------
(***************************************************************************)
(* The orders.  WordPair(j) is what the turn of the loop for word j sends. *)
(***************************************************************************)
SourceAt(j) == CASE mode[1] = "0" -> None
                 [] mode[1] = "1" -> 2
                 [] mode[1] = "*" -> j
DestinationAt(j) == CASE mode[2] = "0" -> None
                      [] mode[2] = "1" -> max
                      [] mode[2] = "*" -> j
WordPair(j) == << SourceAt(j), DestinationAt(j) >>

\* What of the order is set before the loop, or never.
OrderReady ==
    /\ mode[1] = "0" => order.f_source = None
    /\ mode = << "1", "*" >> => order.f_source = 2
    /\ mode[2] = "0" => order.f_destination = None
    /\ mode = << "*", "1" >> => order.f_destination = max

\* The words up to next were sent, one message each.
SentSoFar ==
    /\ TakesWords(mode, max)
    /\ next \in First(mode)..(Last(mode, max) + 1)
    /\ Len(sent) = next - First(mode)
    /\ \A k \in DOMAIN sent : Pair(k) = WordPair(First(mode) + k - 1)

Progress ==
    \/ phase = "library" /\ exit = Running
    \/ phase = "start" /\ exit = Running /\ sent = << >> /\ order = NewOrder
    \/ phase = "exited" /\ exit = 1 /\ sent = << >>
    \/ phase = "sending" /\ exit = Running /\ SentSoFar /\ OrderReady
    \/ /\ phase = "exited" /\ exit \in {0, 1} /\ SentSoFar
       /\ exit = 0 <=> next = Last(mode, max) + 1

FlagsKept == \A k \in DOMAIN sent :
                 /\ sent[k].meant \subseteq Flags
                 /\ sent[k].flags = {FlagName(f) : f \in sent[k].meant}

OrdersInv == TypeOK /\ Progress /\ FlagsKept

LEMMA ModeCases ==
    ASSUME NEW m \in Modes
    PROVE  m \in {<< "0", "0" >>, << "1", "0" >>, << "0", "1" >>, << "1", "1" >>,
                  << "1", "*" >>, << "*", "1" >>, << "*", "0" >>, << "0", "*" >>}
  BY DEF Modes

\* The loops of run(): one turn for each pair that was asked for.
LEMMA WordsArePairs ==
    ASSUME mode \in Modes, max \in Nat, TakesWords(mode, max)
    PROVE  /\ First(mode) \in Nat \ {0} /\ Last(mode, max) \in Nat
           /\ First(mode) <= Last(mode, max)
           /\ Sources \X Destinations
                  = {WordPair(j) : j \in First(mode)..Last(mode, max)}
           /\ \A i, j \in First(mode)..Last(mode, max) :
                  WordPair(i) = WordPair(j) => i = j
<1>1. CASE mode = << "0", "0" >>
  BY <1>1 DEF TakesWords, First, Last, Sources, Destinations, WordPair, SourceAt,
              DestinationAt, None
<1>2. CASE mode = << "1", "0" >>
  BY <1>2 DEF TakesWords, First, Last, Sources, Destinations, WordPair, SourceAt,
              DestinationAt, None
<1>3. CASE mode = << "0", "1" >>
  BY <1>3 DEF TakesWords, First, Last, Sources, Destinations, WordPair, SourceAt,
              DestinationAt, None
<1>4. CASE mode = << "1", "1" >>
  BY <1>4 DEF TakesWords, First, Last, Sources, Destinations, WordPair, SourceAt,
              DestinationAt, None
<1>5. CASE mode = << "1", "*" >>
  <2>1. /\ Sources = {2} /\ Destinations = 3..max
        /\ First(mode) = 3 /\ Last(mode, max) = max /\ max >= 3
        /\ \A j : WordPair(j) = << 2, j >>
    BY <1>5 DEF TakesWords, First, Last, Sources, Destinations, WordPair,
                SourceAt, DestinationAt
  <2>2. Sources \X Destinations = {WordPair(j) : j \in First(mode)..Last(mode, max)}
    BY <2>1
  <2> QED
    BY <2>1, <2>2
<1>6. CASE mode = << "*", "1" >>
  <2>1. /\ Sources = 2..(max - 1) /\ Destinations = {max}
        /\ First(mode) = 2 /\ Last(mode, max) = max - 1 /\ max >= 3
        /\ \A j : WordPair(j) = << j, max >>
    BY <1>6 DEF TakesWords, First, Last, Sources, Destinations, WordPair,
                SourceAt, DestinationAt
  <2>2. Sources \X Destinations = {WordPair(j) : j \in First(mode)..Last(mode, max)}
    BY <2>1
  <2> QED
    BY <2>1, <2>2
<1>7. CASE mode = << "*", "0" >>
  <2>1. /\ Sources = 2..max /\ Destinations = {None}
        /\ First(mode) = 2 /\ Last(mode, max) = max /\ max >= 2
        /\ \A j : WordPair(j) = << j, None >>
    BY <1>7 DEF TakesWords, First, Last, Sources, Destinations, WordPair,
                SourceAt, DestinationAt
  <2>2. Sources \X Destinations = {WordPair(j) : j \in First(mode)..Last(mode, max)}
    BY <2>1
  <2> QED
    BY <2>1, <2>2
<1>8. CASE mode = << "0", "*" >>
  <2>1. /\ Sources = {None} /\ Destinations = 2..max
        /\ First(mode) = 2 /\ Last(mode, max) = max /\ max >= 2
        /\ \A j : WordPair(j) = << None, j >>
    BY <1>8 DEF TakesWords, First, Last, Sources, Destinations, WordPair,
                SourceAt, DestinationAt
  <2>2. Sources \X Destinations = {WordPair(j) : j \in First(mode)..Last(mode, max)}
    BY <2>1
  <2> QED
    BY <2>1, <2>2
<1> QED
  BY <1>1, <1>2, <1>3, <1>4, <1>5, <1>6, <1>7, <1>8, ModeCases

\* One turn of a loop of run() sets the source or the destination, and finds
\* the other as it has to be.
LEMMA WordIsSet ==
    ASSUME mode \in Modes, max \in Nat, order \in Order, OrderReady,
           TakesWords(mode, max), next \in First(mode)..Last(mode, max),
           NEW o, o = SetWord(order, mode, next)
    PROVE  /\ o \in Order
           /\ o.f_flags = order.f_flags
           /\ o.f_source = SourceAt(next)
           /\ o.f_destination = DestinationAt(next)
           /\ {o.f_source, o.f_destination} \subseteq 0..max
<1>1. CASE mode = << "0", "0" >>
  BY <1>1 DEF SetWord, OrderReady, SourceAt, DestinationAt, TakesWords, First,
              Last, Order, None
<1>2. CASE mode = << "1", "0" >>
  BY <1>2 DEF SetWord, OrderReady, SourceAt, DestinationAt, TakesWords, First,
              Last, Order, None
<1>3. CASE mode = << "0", "1" >>
  BY <1>3 DEF SetWord, OrderReady, SourceAt, DestinationAt, TakesWords, First,
              Last, Order, None
<1>4. CASE mode = << "1", "1" >>
  <2>1. max = 3 /\ SourceAt(next) = 2 /\ DestinationAt(next) = 3
    BY <1>4 DEF TakesWords, SourceAt, DestinationAt
  <2>2. o = [order EXCEPT !.f_source = 2, !.f_destination = 3]
    BY <1>4 DEF SetWord
  <2>3. o.f_source = 2 /\ o.f_destination = 3 /\ o.f_flags = order.f_flags
    BY <2>2 DEF Order
  <2>4. o \in Order
    <3>1. o = [f_source |-> 2, f_destination |-> 3, f_flags |-> order.f_flags]
      BY <2>2 DEF Order
    <3>2. order.f_flags \in SUBSET Flags
      BY DEF Order
    <3> QED
      BY <3>1, <3>2 DEF Order
  <2>5. {o.f_source, o.f_destination} \subseteq 0..max
    BY <2>1, <2>3
  <2> QED
    BY <2>1, <2>3, <2>4, <2>5
<1>5. CASE mode = << "1", "*" >>
  BY <1>5 DEF SetWord, OrderReady, SourceAt, DestinationAt, TakesWords, First,
              Last, Order, None
<1>6. CASE mode = << "*", "1" >>
  BY <1>6 DEF SetWord, OrderReady, SourceAt, DestinationAt, TakesWords, First,
              Last, Order, None
<1>7. CASE mode = << "*", "0" >>
  BY <1>7 DEF SetWord, OrderReady, SourceAt, DestinationAt, TakesWords, First,
              Last, Order, None
<1>8. CASE mode = << "0", "*" >>
  BY <1>8 DEF SetWord, OrderReady, SourceAt, DestinationAt, TakesWords, First,
              Last, Order, None
<1> QED
  BY <1>1, <1>2, <1>3, <1>4, <1>5, <1>6, <1>7, <1>8, ModeCases

LEMMA ReadyAgain ==
    ASSUME mode \in Modes, order.f_source = SourceAt(next),
           order.f_destination = DestinationAt(next)
    PROVE  OrderReady
  BY DEF OrderReady, SourceAt, DestinationAt, Modes, None

-----------------------------------------------------------------------------
LEMMA OrdersInitInv == Init => OrdersInv
<1> SUFFICES ASSUME Init PROVE OrdersInv
  OBVIOUS
<1>1. order \in Order /\ sent \in Seq(Message) /\ sent = << >>
  BY DEF Init, NewOrder, Order, None
<1>2. mode \in Modes /\ max \in 0..MaxWords /\ max \in Nat
  BY WordsAssumption DEF Init, Modes
<1>3. TypeOK
  BY <1>1, <1>2 DEF TypeOK, Init, NewOrder, None, Running
<1>4. Progress
  BY DEF Init, Progress, Running
<1>5. FlagsKept
  BY <1>1 DEF FlagsKept
<1> QED
  BY <1>3, <1>4, <1>5 DEF OrdersInv

LEMMA RunModeIsMode ==
    ASSUME TypeOK, ~ UnknownCommand
    PROVE  RunMode \in Modes
<1>1. CASE command = "other"
  BY <1>1 DEF UnknownCommand, RunMode
<1>2. CASE command \in Commands
  <2>1. CommandMode(command) \in Modes
    BY <1>2 DEF CommandMode, Commands, Modes
  <2>2. "other" \notin Commands
    BY DEF Commands
  <2> QED
    BY <1>2, <2>1, <2>2 DEF RunMode
<1> QED
  BY <1>1, <1>2 DEF TypeOK

LEMMA FlaggedType ==
    /\ FlaggedOrder \in Order
    /\ FlaggedOrder.f_source = None /\ FlaggedOrder.f_destination = None
<1> DEFINE forced == IF "force" \in options THEN AddFlag(NewOrder, "OVERWRITE")
                                            ELSE NewOrder
<1>1. NewOrder \in Order /\ NewOrder.f_source = None /\ NewOrder.f_destination = None
  BY DEF NewOrder, Order, None
<1>2. ASSUME NEW o \in Order, NEW f \in Flags
      PROVE  /\ AddFlag(o, f) \in Order
             /\ AddFlag(o, f).f_source = o.f_source
             /\ AddFlag(o, f).f_destination = o.f_destination
  BY DEF AddFlag, Order
<1>3. /\ forced \in Order
      /\ forced.f_source = None /\ forced.f_destination = None
  BY <1>1, <1>2 DEF Flags
<1>4. FlaggedOrder = IF "recursive" \in options THEN AddFlag(forced, "RECURSIVE")
                                                ELSE forced
  BY DEF FlaggedOrder
<1> HIDE DEF forced
<1> QED
  BY <1>2, <1>3, <1>4 DEF Flags

LEMMA FixedReady ==
    ASSUME NEW m \in Modes, NEW n \in Nat, TakesWords(m, n),
           NEW o, o = Fixed(m, n)
    PROVE  /\ o \in Order
           /\ {o.f_source, o.f_destination} \subseteq 0..n
           /\ m[1] = "0" => o.f_source = None
           /\ m = << "1", "*" >> => o.f_source = 2
           /\ m[2] = "0" => o.f_destination = None
           /\ m = << "*", "1" >> => o.f_destination = n
<1>1. CASE m = << "1", "*" >>
  <2>1. o = [FlaggedOrder EXCEPT !.f_source = 2] /\ n >= 3
    BY <1>1 DEF Fixed, TakesWords
  <2> QED
    BY <1>1, <2>1, FlaggedType DEF Order, None
<1>2. CASE m = << "*", "1" >>
  <2>1. o = [FlaggedOrder EXCEPT !.f_destination = n] /\ n >= 3
    BY <1>2 DEF Fixed, TakesWords
  <2> QED
    BY <1>2, <2>1, FlaggedType DEF Order, None
<1>3. CASE m # << "1", "*" >> /\ m # << "*", "1" >>
  <2>1. o = FlaggedOrder
    BY <1>3 DEF Fixed
  <2> QED
    BY <1>3, <2>1, FlaggedType DEF None
<1> QED
  BY <1>1, <1>2, <1>3

LEMMA FirstToLast ==
    ASSUME NEW m \in Modes, NEW n \in Nat, TakesWords(m, n)
    PROVE  /\ First(m) \in Nat \ {0} /\ Last(m, n) \in Nat
           /\ First(m) <= Last(m, n)
<1>1. CASE m = << "0", "0" >>
  BY <1>1 DEF TakesWords, First, Last
<1>2. CASE m = << "1", "0" >>
  BY <1>2 DEF TakesWords, First, Last
<1>3. CASE m = << "0", "1" >>
  BY <1>3 DEF TakesWords, First, Last
<1>4. CASE m = << "1", "1" >>
  BY <1>4 DEF TakesWords, First, Last
<1>5. CASE m = << "1", "*" >>
  BY <1>5 DEF TakesWords, First, Last
<1>6. CASE m = << "*", "1" >>
  BY <1>6 DEF TakesWords, First, Last
<1>7. CASE m = << "*", "0" >>
  BY <1>7 DEF TakesWords, First, Last
<1>8. CASE m = << "0", "*" >>
  BY <1>8 DEF TakesWords, First, Last
<1> QED
  BY <1>1, <1>2, <1>3, <1>4, <1>5, <1>6, <1>7, <1>8, ModeCases

LEMMA RunInv ==
    ASSUME OrdersInv, Run
    PROVE  OrdersInv'
<1>1. TypeOK /\ exit = Running /\ sent = << >> /\ max \in Nat
  BY WordsAssumption DEF OrdersInv, Progress, Run, TypeOK, SentSoFar
<1>2. sent' = << >> /\ UNCHANGED input
  BY <1>1 DEF Run
<1>3. FlagsKept'
  BY <1>2 DEF FlagsKept
<1>4. CASE max = 0 \/ UnknownCommand
  BY <1>1, <1>2, <1>3, <1>4 DEF Run, Exit, OrdersInv, Progress, TypeOK, input
<1>5. CASE max # 0 /\ ~ UnknownCommand /\ ~ TakesWords(mode', max)
  <2>1. mode' \in Modes
    BY <1>1, <1>5, RunModeIsMode DEF Run
  <2> QED
    BY <1>1, <1>2, <1>3, <1>5, <2>1 DEF Run, Exit, OrdersInv, Progress, TypeOK, input
<1>6. CASE max # 0 /\ ~ UnknownCommand /\ TakesWords(mode', max)
  <2>1. /\ mode' \in Modes /\ order' = Fixed(mode', max) /\ next' = First(mode')
        /\ phase' = "sending" /\ exit' = Running
    BY <1>1, <1>6, RunModeIsMode DEF Run, Exit
  <2>2. /\ order' \in Order
        /\ {order'.f_source, order'.f_destination} \subseteq 0..max
        /\ OrderReady'
    BY <1>1, <1>2, <1>6, <2>1, FixedReady DEF OrderReady, input
  <2>3. First(mode') \in Nat \ {0} /\ Last(mode', max) \in Nat
        /\ First(mode') <= Last(mode', max)
    BY <1>1, <1>6, <2>1, FirstToLast
  <2>4. SentSoFar'
    BY <1>2, <1>6, <2>1, <2>3 DEF SentSoFar, input
  <2>5. TypeOK'
    BY <1>1, <1>2, <2>1, <2>2, <2>3 DEF TypeOK, input
  <2> QED
    BY <1>3, <2>1, <2>2, <2>4, <2>5 DEF OrdersInv, Progress
<1> QED
  BY <1>4, <1>5, <1>6

\* The loops of run() have something to do, or have come to their end.
LEMMA Sending ==
    ASSUME OrdersInv, phase = "sending"
    PROVE  /\ exit = Running /\ SentSoFar /\ OrderReady
           /\ mode \in Modes /\ max \in Nat /\ order \in Order
           /\ next \in Nat /\ sent \in Seq(Message)
           /\ First(mode) \in Nat \ {0} /\ Last(mode, max) \in Nat
           /\ First(mode) <= Last(mode, max)
<1>1. exit = Running /\ SentSoFar /\ OrderReady
  BY DEF OrdersInv, Progress
<1>2. mode \in Modes /\ max \in Nat
  BY WordsAssumption DEF OrdersInv, TypeOK
<1>3. TakesWords(mode, max)
  BY <1>1 DEF SentSoFar
<1> QED
  BY <1>1, <1>2, <1>3, FirstToLast DEF OrdersInv, TypeOK

LEMMA MessageType ==
    ASSUME NEW o \in Order
    PROVE  /\ OrderMessage(o) \in Message
           /\ OrderMessage(o).meant \subseteq Flags
           /\ OrderMessage(o).flags = {FlagName(f) : f \in OrderMessage(o).meant}
           /\ OrderMessage(o).source = o.f_source
           /\ OrderMessage(o).destination = o.f_destination
<1>1. /\ o.f_source \in Nat /\ o.f_destination \in Nat
      /\ o.f_flags \in SUBSET Flags
  BY DEF Order
<1>2. {FlagName(f) : f \in o.f_flags} \in SUBSET FlagNames
  BY <1>1 DEF FlagNames
<1> QED
  BY <1>1, <1>2 DEF OrderMessage, Message, FlagsAsString

LEMMA FlagsAppended ==
    ASSUME FlagsKept, sent \in Seq(Message), NEW o \in Order,
           sent' = Append(sent, OrderMessage(o))
    PROVE  FlagsKept'
<1>1. /\ DOMAIN sent' = 1..(Len(sent) + 1) /\ Len(sent) \in Nat
      /\ DOMAIN sent = 1..Len(sent)
      /\ \A k \in 1..Len(sent) : sent'[k] = sent[k]
      /\ sent'[Len(sent) + 1] = OrderMessage(o)
  <2>1. OrderMessage(o) \in Message
    BY MessageType
  <2> QED
    BY <2>1
<1>2. ASSUME NEW k \in DOMAIN sent'
      PROVE  /\ sent'[k].meant \subseteq Flags
             /\ sent'[k].flags = {FlagName(f) : f \in sent'[k].meant}
  <2>1. CASE k \in DOMAIN sent
    BY <2>1, <1>1 DEF FlagsKept
  <2>2. CASE k = Len(sent) + 1
    BY <2>2, <1>1, MessageType
  <2> QED
    BY <2>1, <2>2, <1>1, <1>2
<1> QED
  BY <1>2 DEF FlagsKept

LEMMA SendOrderInv ==
    ASSUME OrdersInv, SendOrder
    PROVE  OrdersInv'
<1>1. /\ exit = Running /\ SentSoFar /\ OrderReady
      /\ mode \in Modes /\ max \in Nat /\ order \in Order
      /\ next \in Nat /\ sent \in Seq(Message)
      /\ First(mode) \in Nat \ {0} /\ Last(mode, max) \in Nat
  BY Sending DEF SendOrder
<1>2. /\ order' = SetWord(order, mode, next)
      /\ sent' = Append(sent, OrderMessage(order'))
      /\ next' = next + 1 /\ next <= Last(mode, max)
      /\ UNCHANGED << phase, input, mode, exit >> /\ phase = "sending"
  BY DEF SendOrder
<1>3. /\ order' \in Order
      /\ order'.f_source = SourceAt(next) /\ order'.f_destination = DestinationAt(next)
      /\ {order'.f_source, order'.f_destination} \subseteq 0..max
  BY <1>1, <1>2, WordIsSet DEF SentSoFar
<1>4. max' = max /\ mode' = mode
  BY <1>2 DEF input
<1>5. OrderReady'
  BY <1>1, <1>3, <1>4 DEF OrderReady, SourceAt, DestinationAt, Modes, None
<1>6. /\ DOMAIN sent' = 1..(Len(sent) + 1) /\ Len(sent) \in Nat
      /\ DOMAIN sent = 1..Len(sent) /\ Len(sent') = Len(sent) + 1
      /\ \A k \in 1..Len(sent) : sent'[k] = sent[k]
      /\ sent'[Len(sent) + 1] = OrderMessage(order')
      /\ sent' \in Seq(Message)
  <2>1. OrderMessage(order') \in Message
    BY <1>3, MessageType
  <2> QED
    BY <2>1, <1>1, <1>2
<1>7. SentSoFar'
  <2>1. Len(sent) = next - First(mode)
    BY <1>1 DEF SentSoFar
  <2>2. ASSUME NEW k \in DOMAIN sent'
        PROVE  Pair(k)' = WordPair(First(mode) + k - 1)'
    <3>1. WordPair(First(mode) + k - 1)' = WordPair(First(mode) + k - 1)
      BY <1>4 DEF WordPair, SourceAt, DestinationAt
    <3>2. CASE k \in DOMAIN sent
      <4>1. Pair(k) = WordPair(First(mode) + k - 1)
        BY <3>2, <1>1 DEF SentSoFar
      <4>2. Pair(k)' = Pair(k)
        BY <3>2, <1>6 DEF Pair
      <4> QED
        BY <3>1, <4>1, <4>2
    <3>3. CASE k = Len(sent) + 1
      <4>1. First(mode) + k - 1 = next
        BY <3>3, <2>1, <1>1, <1>6
      <4>2. Pair(k)' = WordPair(next)
        BY <3>3, <1>3, <1>6, MessageType DEF Pair, WordPair
      <4> QED
        BY <3>1, <4>1, <4>2
    <3> QED
      BY <2>2, <3>2, <3>3, <1>6
  <2> QED
    BY <2>1, <2>2, <1>1, <1>2, <1>4, <1>6 DEF SentSoFar
<1>8. FlagsKept'
  BY <1>1, <1>2, <1>3, FlagsAppended DEF OrdersInv
<1>9. TypeOK'
  BY <1>1, <1>2, <1>3, <1>4, <1>6 DEF OrdersInv, TypeOK, input
<1> QED
  BY <1>1, <1>2, <1>5, <1>7, <1>8, <1>9 DEF OrdersInv, Progress

LEMMA SendThrowsInv ==
    ASSUME OrdersInv, SendThrows
    PROVE  OrdersInv'
<1>1. /\ exit = Running /\ SentSoFar /\ OrderReady
      /\ mode \in Modes /\ max \in Nat /\ order \in Order
      /\ next \in Nat /\ Last(mode, max) \in Nat
  BY Sending DEF SendThrows
<1>2. /\ order' = SetWord(order, mode, next) /\ next <= Last(mode, max)
      /\ phase' = "exited" /\ exit' = 1
      /\ UNCHANGED << input, mode, next, sent >>
  BY DEF SendThrows, Exit
<1>3. /\ order' \in Order
      /\ {order'.f_source, order'.f_destination} \subseteq 0..max
  BY <1>1, <1>2, WordIsSet DEF SentSoFar
<1>4. SentSoFar' /\ FlagsKept'
  BY <1>1, <1>2
     DEF OrdersInv, SentSoFar, FlagsKept, WordPair, SourceAt, DestinationAt, Pair,
         input
<1>5. TypeOK'
  BY <1>2, <1>3 DEF OrdersInv, TypeOK, input
<1>6. ~ (next' = Last(mode, max)' + 1)
  BY <1>1, <1>2 DEF input
<1> QED
  BY <1>2, <1>4, <1>5, <1>6 DEF OrdersInv, Progress

LEMMA AllSentInv ==
    ASSUME OrdersInv, AllSent
    PROVE  OrdersInv'
<1>1. /\ SentSoFar /\ next \in Nat /\ Last(mode, max) \in Nat
  BY Sending DEF AllSent
<1>2. /\ next > Last(mode, max) /\ phase' = "exited" /\ exit' = 0
      /\ UNCHANGED << input, mode, order, next, sent >>
  BY DEF AllSent, Exit
<1>3. SentSoFar' /\ FlagsKept'
  BY <1>1, <1>2
     DEF OrdersInv, SentSoFar, FlagsKept, WordPair, SourceAt, DestinationAt, Pair,
         input
<1>4. TypeOK'
  BY <1>2 DEF OrdersInv, TypeOK, input
<1>5. next' = Last(mode, max)' + 1
  <2>1. next <= Last(mode, max) + 1
    BY <1>1 DEF SentSoFar
  <2> QED
    BY <1>1, <1>2, <2>1 DEF input
<1> QED
  BY <1>2, <1>3, <1>4, <1>5 DEF OrdersInv, Progress

LEMMA LibraryInv ==
    ASSUME OrdersInv, LibraryStep
    PROVE  OrdersInv'
<1>1. /\ phase = "library" /\ UNCHANGED << phase, input, mode, next, exit >>
      /\ order \in Order /\ sent \in Seq(Message) /\ exit = Running
  BY DEF OrdersInv, TypeOK, LibraryStep, Progress, Running
<1>2. /\ order' \in Order
      /\ order'.f_source = order.f_source
      /\ order'.f_destination = order.f_destination
  <2>1. CASE order' = order
    BY <2>1, <1>1
  <2>2. CASE \E F \in SUBSET Flags : order' = [order EXCEPT !.f_flags = F]
    BY <2>2, <1>1 DEF Order
  <2>3. ASSUME NEW f \in Flags
        PROVE  /\ AddFlag(order, f) = [order EXCEPT !.f_flags = order.f_flags \cup {f}]
               /\ RemoveFlag(order, f) = [order EXCEPT !.f_flags = order.f_flags \ {f}]
               /\ order.f_flags \cup {f} \in SUBSET Flags
               /\ order.f_flags \ {f} \in SUBSET Flags
    BY <1>1 DEF AddFlag, RemoveFlag, Order
  <2>4. ASSUME NEW names
        PROVE  \E F \in SUBSET Flags :
                   AddFlags(order, names) = [order EXCEPT !.f_flags = F]
    <3> DEFINE F == order.f_flags \cup {f \in Flags : FlagName(f) \in names}
    <3>1. AddFlags(order, names) = [order EXCEPT !.f_flags = F]
      BY <1>1 DEF AddFlags, Order
    <3>2. F \in SUBSET Flags
      BY <1>1 DEF Order
    <3> QED
      BY <3>1, <3>2
  <2>5. \/ order' = order
        \/ \E f \in Flags : order' \in {AddFlag(order, f), RemoveFlag(order, f)}
        \/ \E names \in SUBSET (FlagNames \cup {"later"}) :
               order' = AddFlags(order, names)
    BY DEF LibraryStep
  <2>6. CASE \E f \in Flags : order' \in {AddFlag(order, f), RemoveFlag(order, f)}
    BY <2>2, <2>3, <2>6
  <2>7. CASE \E names \in SUBSET (FlagNames \cup {"later"}) :
                 order' = AddFlags(order, names)
    BY <2>2, <2>4, <2>7
  <2> QED
    BY <2>1, <2>5, <2>6, <2>7
<1>3. FlagsKept' /\ sent' \in Seq(Message)
  <2>1. CASE sent' = Append(sent, OrderMessage(order))
    <3>1. OrderMessage(order) \in Message
      BY <1>1, MessageType
    <3>2. FlagsKept'
      BY <2>1, <1>1, FlagsAppended DEF OrdersInv
    <3> QED
      BY <3>1, <3>2, <2>1, <1>1
  <2>2. CASE sent' = sent
    BY <2>2, <1>1 DEF OrdersInv, FlagsKept
  <2> QED
    BY <2>1, <2>2 DEF LibraryStep
<1>4. TypeOK'
  BY <1>1, <1>2, <1>3 DEF OrdersInv, TypeOK, input
<1> QED
  BY <1>1, <1>3, <1>4 DEF OrdersInv, Progress

LEMMA OrdersKept ==
    ASSUME OrdersInv, UNCHANGED vars
    PROVE  OrdersInv'
<1>1. TypeOK'
  BY DEF OrdersInv, TypeOK, vars
<1>2. Progress'
  BY DEF OrdersInv, Progress, SentSoFar, OrderReady, Pair, WordPair, SourceAt,
         DestinationAt, vars
<1>3. FlagsKept'
  BY DEF OrdersInv, FlagsKept, vars
<1> QED
  BY <1>1, <1>2, <1>3 DEF OrdersInv

LEMMA OrdersNextInv ==
    ASSUME OrdersInv, [RequestsNext]_<< vars, client_vars >>
    PROVE  OrdersInv'
<1>1. CASE Next
  BY <1>1, RunInv, SendOrderInv, SendThrowsInv, AllSentInv, LibraryInv DEF Next
<1>2. CASE UNCHANGED vars
  BY <1>2, OrdersKept
<1> QED
  BY <1>1, <1>2 DEF RequestsNext

\* What the invariant says of the pairs sent.
LEMMA PairsAreWords ==
    ASSUME TypeOK, SentSoFar
    PROVE  /\ PairsSent \subseteq Sources \X Destinations
           /\ \A j, k \in DOMAIN sent : Pair(j) = Pair(k) => j = k
           /\ PairsSent = Sources \X Destinations
                  <=> next = Last(mode, max) + 1
<1>1. /\ mode \in Modes /\ max \in Nat /\ TakesWords(mode, max)
      /\ next \in First(mode)..(Last(mode, max) + 1)
      /\ Len(sent) = next - First(mode)
      /\ sent \in Seq(Message)
  BY WordsAssumption DEF TypeOK, SentSoFar
<1>2. /\ First(mode) \in Nat \ {0} /\ Last(mode, max) \in Nat
      /\ Sources \X Destinations
             = {WordPair(j) : j \in First(mode)..Last(mode, max)}
      /\ \A i, j \in First(mode)..Last(mode, max) : WordPair(i) = WordPair(j) => i = j
  BY <1>1, WordsArePairs
<1> DEFINE word(k) == First(mode) + k - 1
<1>3. ASSUME NEW k \in DOMAIN sent
      PROVE  /\ Pair(k) = WordPair(word(k))
             /\ word(k) \in First(mode)..Last(mode, max) /\ word(k) < next
  BY <1>1, <1>2 DEF SentSoFar
<1>4. PairsSent \subseteq Sources \X Destinations
  BY <1>2, <1>3 DEF PairsSent
<1>5. ASSUME NEW j \in DOMAIN sent, NEW k \in DOMAIN sent, Pair(j) = Pair(k)
      PROVE  j = k
  <2>1. word(j) = word(k)
    BY <1>2, <1>3, <1>5
  <2> QED
    BY <2>1, <1>1, <1>2
<1>6. ASSUME next = Last(mode, max) + 1
      PROVE  Sources \X Destinations \subseteq PairsSent
  <2> SUFFICES ASSUME NEW j \in First(mode)..Last(mode, max)
               PROVE  WordPair(j) \in PairsSent
    BY <1>2
  <2>1. /\ j - First(mode) + 1 \in DOMAIN sent
        /\ word(j - First(mode) + 1) = j
    BY <1>1, <1>2, <1>6
  <2>2. Pair(j - First(mode) + 1) = WordPair(j)
    BY <2>1, <1>3
  <2> QED
    BY <2>1, <2>2 DEF PairsSent
<1>7. ASSUME next # Last(mode, max) + 1
      PROVE  WordPair(next) \in (Sources \X Destinations) \ PairsSent
  <2>1. next \in First(mode)..Last(mode, max)
    BY <1>1, <1>2, <1>7
  <2>2. ASSUME NEW k \in DOMAIN sent
        PROVE  Pair(k) # WordPair(next)
    <3>1. Pair(k) = WordPair(word(k)) /\ word(k) \in First(mode)..Last(mode, max)
          /\ word(k) < next
      BY <1>3
    <3>2. word(k) # next
      BY <3>1, <2>1, <1>2
    <3> HIDE DEF word
    <3> QED
      BY <3>1, <3>2, <2>1, <1>2
  <2> QED
    BY <2>1, <2>2, <1>2 DEF PairsSent
<1> QED
  BY <1>4, <1>5, <1>6, <1>7

LEMMA OrdersSafe ==
    ASSUME OrdersInv
    PROVE  OnlyWhatWasAsked /\ ExitTells /\ FlagsSurvive
<1>1. OnlyWhatWasAsked
  <2>1. CASE sent = << >>
    BY <2>1 DEF OnlyWhatWasAsked, PairsSent
  <2>2. CASE SentSoFar
    BY <2>2, PairsAreWords DEF OrdersInv, OnlyWhatWasAsked
  <2>3. CASE phase = "library"
    BY <2>3 DEF OnlyWhatWasAsked
  <2> QED
    BY <2>1, <2>2, <2>3 DEF OrdersInv, Progress
<1>2. ExitTells
  <2>1. CASE exit = Running
    BY <2>1 DEF ExitTells, Running
  <2>2. CASE exit = 1 /\ sent = << >>
    BY <2>2 DEF ExitTells
  <2>3. CASE exit \in {0, 1} /\ SentSoFar /\ (exit = 0 <=> next = Last(mode, max) + 1)
    BY <2>3, PairsAreWords DEF OrdersInv, ExitTells
  <2> QED
    BY <2>1, <2>2, <2>3 DEF OrdersInv, Progress
<1>3. FlagsSurvive
  <2> SUFFICES ASSUME NEW k \in DOMAIN sent
               PROVE  AddFlags(NewOrder, sent[k].flags).f_flags = sent[k].meant
    BY DEF FlagsSurvive
  <2>1. /\ sent[k].meant \subseteq Flags
        /\ sent[k].flags = {FlagName(f) : f \in sent[k].meant}
    BY DEF OrdersInv, FlagsKept
  <2>2. AddFlags(NewOrder, sent[k].flags).f_flags
            = {f \in Flags : FlagName(f) \in sent[k].flags}
    BY DEF AddFlags, NewOrder
  <2>3. \A f, g \in Flags : FlagName(f) = FlagName(g) => f = g
    BY DEF FlagName, Flags
  <2>4. ASSUME NEW f \in Flags
        PROVE  FlagName(f) \in sent[k].flags <=> f \in sent[k].meant
    BY <2>1, <2>3
  <2> QED
    BY <2>1, <2>2, <2>4
<1> QED
  BY <1>1, <1>2, <1>3

\* run() of the rfs tool and the orders of a program of the library: words of
\* the command line are taken where they are, flags and modes are known ones.
THEOREM OrdersTypeCorrect == RequestsSpec => []TypeOK
<1>1. RequestsInit => OrdersInv
  BY OrdersInitInv DEF RequestsInit
<1>2. OrdersInv /\ [RequestsNext]_<< vars, client_vars >> => OrdersInv'
  BY OrdersNextInv
<1>3. OrdersInv => TypeOK
  BY DEF OrdersInv
<1> QED
  BY <1>1, <1>2, <1>3, PTL DEF RequestsSpec

\* run(): for a command line of any length and any mode, every message is for
\* a source and a destination that were named, each pair once, although all
\* of them are one order that is changed from message to message.
THEOREM OrdersAsAsked == RequestsSpec => []OnlyWhatWasAsked
<1>1. RequestsInit => OrdersInv
  BY OrdersInitInv DEF RequestsInit
<1>2. OrdersInv /\ [RequestsNext]_<< vars, client_vars >> => OrdersInv'
  BY OrdersNextInv
<1>3. OrdersInv => OnlyWhatWasAsked
  BY OrdersSafe
<1> QED
  BY <1>1, <1>2, <1>3, PTL DEF RequestsSpec

\* run() and main(): 0 is returned only when every pair was sent, 1 only when
\* one was not.
THEOREM ExitCodeTells == RequestsSpec => []ExitTells
<1>1. RequestsInit => OrdersInv
  BY OrdersInitInv DEF RequestsInit
<1>2. OrdersInv /\ [RequestsNext]_<< vars, client_vars >> => OrdersInv'
  BY OrdersNextInv
<1>3. OrdersInv => ExitTells
  BY OrdersSafe
<1> QED
  BY <1>1, <1>2, <1>3, PTL DEF RequestsSpec

\* order::flags_as_string() and add_flags(): what is read back is what was set.
THEOREM FlagsReadBack == RequestsSpec => []FlagsSurvive
<1>1. RequestsInit => OrdersInv
  BY OrdersInitInv DEF RequestsInit
<1>2. OrdersInv /\ [RequestsNext]_<< vars, client_vars >> => OrdersInv'
  BY OrdersNextInv
<1>3. OrdersInv => FlagsSurvive
  BY OrdersSafe
<1> QED
  BY <1>1, <1>2, <1>3, PTL DEF RequestsSpec

=============================================================================
