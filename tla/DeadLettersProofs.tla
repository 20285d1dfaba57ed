-------------------------- MODULE DeadLettersProofs --------------------------
(***************************************************************************)
(* For any queues, topics, bindings and commands, and any number of        *)
(* messages, no rejected message is lost, and none comes to a service it   *)
(* was not for.                                                            *)
(***************************************************************************)
EXTENDS DeadLetters, SequenceTheorems, FiniteSetTheorems, TLAPS

\* The queues of the exchange, their dead queues and missing_routing_key are apart.
LEMMA QueuesApart ==
    /\ Missing \in AllQueues /\ Queues \subseteq AllQueues
    /\ \A q \in Queues : Dead[q] \in AllQueues /\ Dead[q] \notin Queues /\ Dead[q] # Missing
    /\ \A q, r \in Queues : Dead[q] = Dead[r] => q = r
    /\ Missing \notin Queues
    /\ \A q \in AllQueues : q # "operator" /\ q # "gone"
BY BrokerAssumption DEF AllQueues

\* There are finitely many queues.
LEMMA FinitelyManyQueues == IsFiniteSet(AllQueues)
<1> DEFINE dead == {Dead[q] : q \in Queues}
           f == [q \in Queues |-> Dead[q]]
<1>1. IsFiniteSet(Queues)
  BY BrokerAssumption
<1>2. f \in Surjection(Queues, dead)
  BY DEF Surjection
<1>3. IsFiniteSet(dead)
  BY <1>1, <1>2, FS_Surjection
<1>4. IsFiniteSet(Queues \cup dead)
  BY <1>1, <1>3, FS_Union
<1>5. IsFiniteSet({Missing})
  BY FS_Singleton
<1>6. IsFiniteSet((Queues \cup dead) \cup {Missing})
  BY <1>4, <1>5, FS_Union
<1> QED
  BY <1>6 DEF AllQueues

\* Where the exchanges route a message: a queue bound to its key, and
\* missing_routing_key if there is none.
LEMMA Routes ==
    ASSUME NEW key
    PROVE  /\ FlowRoutes(key) \subseteq AllQueues /\ DeadRoutes(key) \subseteq AllQueues
           /\ \A q \in Queues : q \in BoundTo(key) <=> key \in Bindings[q]
           /\ \A q \in Queues : q \in FlowRoutes(key) => q \in BoundTo(key)
           /\ Missing \in FlowRoutes(key) <=> BoundTo(key) = {}
           /\ FlowRoutes(key) \subseteq Queues \cup {Missing}
           /\ \A q \in BoundTo(key) : Dead[q] \in DeadRoutes(key)
           /\ BoundTo(key) = {} => DeadRoutes(key) = {Missing}
           /\ Missing \in DeadRoutes(key) => BoundTo(key) = {}
           /\ \A q \in Queues : q \notin DeadRoutes(key)
           /\ \A q \in Queues : Dead[q] \in DeadRoutes(key) => q \in BoundTo(key)
<1>1. BoundTo(key) \subseteq Queues
  BY DEF BoundTo
<1>2. \A q \in Queues : q \in BoundTo(key) <=> key \in Bindings[q]
  BY DEF BoundTo
<1>3. /\ FlowRoutes(key) \subseteq Queues \cup {Missing}
      /\ Missing \in FlowRoutes(key) <=> BoundTo(key) = {}
      /\ \A q \in Queues : q \in FlowRoutes(key) => q \in BoundTo(key)
  BY <1>1, QueuesApart DEF FlowRoutes, OrMissing
<1>4. FlowRoutes(key) \subseteq AllQueues
  BY <1>3, QueuesApart
<1>5. /\ \A q \in BoundTo(key) : Dead[q] \in DeadRoutes(key)
      /\ BoundTo(key) = {} => DeadRoutes(key) = {Missing}
      /\ \A q \in DeadRoutes(key) :
            (q = Missing /\ BoundTo(key) = {}) \/ \E r \in BoundTo(key) : q = Dead[r]
  <2>1. CASE BoundTo(key) = {}
    BY <2>1 DEF DeadRoutes, OrMissing
  <2>2. CASE BoundTo(key) # {}
    <3>1. DeadRoutes(key) = {Dead[q] : q \in BoundTo(key)}
      BY <2>2 DEF DeadRoutes, OrMissing
    <3> QED
      BY <3>1, <2>2
  <2> QED
    BY <2>1, <2>2
<1>6. DeadRoutes(key) \subseteq AllQueues /\ \A q \in Queues : q \notin DeadRoutes(key)
  BY <1>1, <1>5, QueuesApart
<1>7. /\ Missing \in DeadRoutes(key) => BoundTo(key) = {}
      /\ \A q \in Queues : Dead[q] \in DeadRoutes(key) => q \in BoundTo(key)
  BY <1>1, <1>5, QueuesApart
<1> QED
  BY <1>2, <1>3, <1>4, <1>5, <1>6, <1>7

\* What routing a message to queues does: the copies there were are as they were, the
\* new ones are copies of the message, one in each of the queues.
LEMMA Extended ==
    ASSUME NEW c \in Seq(Copy), NEW m \in Messages, NEW key \in Topics \cup Queues,
           NEW queues \in SUBSET AllQueues, NEW new \in CopiesFor(m, key, queues)
    PROVE  /\ c \o new \in Seq(Copy)
           /\ \A i \in DOMAIN c : i \in DOMAIN (c \o new) /\ (c \o new)[i] = c[i]
           /\ \A i \in DOMAIN (c \o new) : i \notin DOMAIN c =>
                 /\ (c \o new)[i].msg = m /\ (c \o new)[i].key = key
                 /\ (c \o new)[i].at \in queues
           /\ \A q \in queues : \E i \in DOMAIN (c \o new) :
                 (c \o new)[i].msg = m /\ (c \o new)[i].at = q
<1> DEFINE n == Cardinality(queues)
<1>1. n \in Nat
  BY FinitelyManyQueues, FS_Subset, FS_CardinalityType
<1>2. /\ new \in [1 .. n -> [msg : {m}, key : {key}, at : queues]]
      /\ queues = {new[i].at : i \in DOMAIN new}
  BY DEF CopiesFor
<1> HIDE DEF n
<1>3. new \in Seq(Copy) /\ Len(new) = n
  <2>1. [msg : {m}, key : {key}, at : queues] \subseteq Copy
    BY DEF Copy
  <2>2. new \in [1 .. n -> Copy]
    BY <1>2, <2>1
  <2> QED
    BY <1>1, <2>2
<1>4. /\ c \o new \in Seq(Copy) /\ Len(c \o new) = Len(c) + n
      /\ \A i \in 1 .. Len(c) + n :
            (c \o new)[i] = IF i <= Len(c) THEN c[i] ELSE new[i - Len(c)]
  BY <1>3, ConcatProperties
<1>5. Len(c) \in Nat /\ DOMAIN c = 1 .. Len(c) /\ DOMAIN (c \o new) = 1 .. Len(c) + n
  BY <1>4
<1>6. ASSUME NEW i \in DOMAIN (c \o new), i \notin DOMAIN c
      PROVE  /\ (c \o new)[i].msg = m /\ (c \o new)[i].key = key
             /\ (c \o new)[i].at \in queues
  <2>1. i - Len(c) \in 1 .. n /\ (c \o new)[i] = new[i - Len(c)]
    BY <1>1, <1>4, <1>5, <1>6
  <2> QED
    BY <2>1, <1>2
<1>7. ASSUME NEW q \in queues
      PROVE  \E i \in DOMAIN (c \o new) : (c \o new)[i].msg = m /\ (c \o new)[i].at = q
  <2>1. PICK k \in 1 .. n : new[k].at = q
    BY <1>2
  <2>2. Len(c) + k \in 1 .. Len(c) + n /\ (c \o new)[Len(c) + k] = new[k]
    BY <1>1, <1>4, <1>5
  <2> QED
    BY <2>1, <2>2, <1>2, <1>5
<1> QED
  BY <1>1, <1>4, <1>5, <1>6, <1>7

\* The copies d are the copies there are, but for where some of them are.
OnlyMoved(d, some, place) ==
    /\ d \in Seq(Copy) /\ DOMAIN d = DOMAIN copies
    /\ \A k \in DOMAIN copies :
          /\ d[k].msg = copies[k].msg /\ d[k].key = copies[k].key
          /\ d[k].at = IF k \in some THEN place ELSE copies[k].at

\* A copy that is moved is what it was.
LEMMA MovedOnly ==
    ASSUME TypeOK, NEW some, NEW place \in AllQueues \cup {"operator", "gone"}
    PROVE  OnlyMoved(Moved(some, place), some, place)
<1> DEFINE d == Moved(some, place)
           At(r, k) == IF k \in some THEN place ELSE r.at
           f(r, k) == [r EXCEPT !.at = At(r, k)]
<1>1. /\ copies \in Seq(Copy) /\ DOMAIN copies = 1 .. Len(copies) /\ Len(copies) \in Nat
      /\ \A k \in DOMAIN copies : copies[k] \in Copy
  BY DEF TypeOK
<1>2. \A r \in Copy, k \in DOMAIN copies : At(r, k) \in AllQueues \cup {"operator", "gone"}
  BY DEF Copy
<1>3. d = [k \in DOMAIN copies |-> f(copies[k], k)]
  BY Zenon DEF Moved
<1> HIDE DEF At, d
<1>4. \A r \in Copy, k \in DOMAIN copies :
          /\ f(r, k) \in Copy
          /\ f(r, k).msg = r.msg /\ f(r, k).key = r.key /\ f(r, k).at = At(r, k)
  BY <1>2, Zenon DEF Copy
<1> HIDE DEF f
<1>5. d \in [1 .. Len(copies) -> Copy]
  BY <1>1, <1>3, <1>4
<1>6. d \in Seq(Copy)
  BY <1>1, <1>5
<1>7. \A k \in DOMAIN copies : /\ d[k].msg = copies[k].msg /\ d[k].key = copies[k].key
                               /\ d[k].at = At(copies[k], k)
  BY <1>1, <1>3, <1>4
<1>8. OnlyMoved(d, some, place)
  BY <1>1, <1>3, <1>6, <1>7 DEF OnlyMoved, At
<1> QED
  BY <1>8 DEF d

\* Every copy is of a message.
LEMMA CopiesTyped ==
    ASSUME TypeOK
    PROVE  \A i \in DOMAIN copies : copies[i].msg \in Messages
<1>1. \A i \in DOMAIN copies : copies[i] \in Copy
  BY DEF TypeOK
<1>2. \A r \in Copy : r.msg \in Messages
  BY DEF Copy
<1> QED
  BY <1>1, <1>2

\* Nothing was published.
LEMMA InitIInv == Init => IInv
BY DEF Init, IInv, TypeOK, NothingLost, RightQueue, MissingOnlyRevived, KeysKnown,
       TakenOnce, Owed, NoCommand, Command

\* The new copies are for the queues that are bound to the topic.
LEMMA PublishIInv ==
    ASSUME IInv, NEW m \in Messages, Publish(m)
    PROVE  IInv'
<1> DEFINE key == topic[m]
           queues == FlowRoutes(key)
<1>1. PICK new \in CopiesFor(m, key, queues) : copies' = copies \o new
  BY DEF Publish
<1>2. copies \in Seq(Copy) /\ key \in Topics /\ queues \in SUBSET AllQueues
  BY Routes DEF IInv, TypeOK
<1> HIDE DEF key, queues
<1>3. /\ copies' \in Seq(Copy)
      /\ \A i \in DOMAIN copies : i \in DOMAIN copies' /\ copies'[i] = copies[i]
      /\ \A i \in DOMAIN copies' : i \notin DOMAIN copies =>
            copies'[i].msg = m /\ copies'[i].key = key /\ copies'[i].at \in queues
      /\ \A q \in queues : \E i \in DOMAIN copies' : copies'[i].msg = m /\ copies'[i].at = q
  BY <1>1, <1>2, Extended
<1>4. UNCHANGED <<topic, command, handled, discarded, commands>>
      /\ published' = published \cup {m}
  BY DEF Publish
<1>5. TypeOK'
  BY <1>3, <1>4 DEF IInv, TypeOK
<1>6. NothingLost'
  <2> SUFFICES ASSUME NEW o \in Owed', o \notin handled, o[1] \notin discarded
               PROVE  \E i \in DOMAIN copies' : copies'[i].msg = o[1] /\ Keeps(i, o[2])'
    BY <1>4 DEF NothingLost
  <2>1. CASE o \in Owed
    <3>1. PICK i \in DOMAIN copies : copies[i].msg = o[1] /\ Keeps(i, o[2])
      BY <2>1 DEF IInv, NothingLost
    <3> QED
      BY <3>1, <1>3, <1>4 DEF Keeps
  <2>2. CASE o \notin Owed
    <3>1. o[1] = m /\ o[2] \in queues
      BY <2>2, <1>4 DEF Owed, queues, key
    <3>2. o[2] \in Waits(o[2])
      BY DEF Waits
    <3> QED
      BY <3>1, <3>2, <1>3 DEF Keeps
  <2> QED
    BY <2>1, <2>2
<1>7. RightQueue'
  <2> SUFFICES ASSUME NEW i \in DOMAIN copies', NEW q \in Queues, copies'[i].at \in {q, Dead[q]}
               PROVE  topic[copies'[i].msg] \in Bindings[q]
    BY <1>4 DEF RightQueue
  <2>1. CASE i \in DOMAIN copies
    BY <2>1, <1>3 DEF IInv, RightQueue
  <2>2. CASE i \notin DOMAIN copies
    BY <2>2, <1>3, Routes, QueuesApart DEF queues, key
  <2> QED
    BY <2>1, <2>2
<1>8. MissingOnlyRevived'
  <2> SUFFICES ASSUME NEW i \in DOMAIN copies', copies'[i].at = Missing
               PROVE  BoundTo(topic[copies'[i].msg]) = {} \/ copies'[i].key \in Queues
    BY <1>4 DEF MissingOnlyRevived, BoundTo
  <2>1. CASE i \in DOMAIN copies
    BY <2>1, <1>3 DEF IInv, MissingOnlyRevived
  <2>2. CASE i \notin DOMAIN copies
    BY <2>2, <1>3, Routes DEF queues, key
  <2> QED
    BY <2>1, <2>2
<1>9. KeysKnown'
  BY <1>3, <1>4 DEF IInv, KeysKnown, key
<1>10. TakenOnce'
  <2>1. \A i \in DOMAIN copies' : i \notin DOMAIN copies => copies'[i].at # "operator"
    BY <1>2, <1>3, QueuesApart
  <2>2. \A g \in command.got : g[1] \in DOMAIN copies
    BY DEF IInv, TypeOK
  <2> QED
    BY <2>1, <2>2, <1>3, <1>4 DEF IInv, TakenOnce
<1> QED
  BY <1>5, <1>6, <1>7, <1>8, <1>9, <1>10 DEF IInv

\* The copy is in the queue whose service acknowledges it.
LEMMA HandleIInv ==
    ASSUME IInv, NEW i \in DOMAIN copies, Handle(i)
    PROVE  IInv'
<1>1. OnlyMoved(copies', {i}, "gone")
  BY MovedOnly DEF IInv, Handle
<1> USE DEF OnlyMoved
<1>2. /\ copies[i].at \in Queues /\ copies[i].msg \in Messages
      /\ handled' = handled \cup {<<copies[i].msg, copies[i].at>>}
      /\ UNCHANGED <<topic, published, command, discarded, commands>>
  <2>1. copies[i] \in Copy
    BY DEF IInv, TypeOK
  <2> QED
    BY <2>1 DEF Handle, InService, Copy
<1>3. copies[i].at # "operator" /\ \A q \in Queues : "gone" \notin {q, Dead[q], Missing}
  BY <1>2, QueuesApart
<1>4. TypeOK'
  BY <1>1, <1>2 DEF IInv, TypeOK
<1>5. NothingLost'
  <2> SUFFICES ASSUME NEW o \in Owed, o \notin handled', o[1] \notin discarded
               PROVE  \E k \in DOMAIN copies' : copies'[k].msg = o[1] /\ Keeps(k, o[2])'
    BY <1>2 DEF NothingLost, Owed
  <2>1. PICK k \in DOMAIN copies : copies[k].msg = o[1] /\ Keeps(k, o[2])
    BY <1>2 DEF IInv, NothingLost
  <2>2. k # i
    <3> SUFFICES ASSUME k = i PROVE FALSE
      OBVIOUS
    <3>1. copies[i].at = o[2]
      BY <2>1, <1>2, <1>3, QueuesApart DEF Keeps, Waits, Owed
    <3>2. o = <<o[1], o[2]>>
      BY DEF Owed
    <3> QED
      BY <3>1, <3>2, <2>1, <1>2
  <2> QED
    BY <2>1, <2>2, <1>1, <1>2 DEF Keeps
<1>6. RightQueue' /\ MissingOnlyRevived' /\ KeysKnown'
  <2>2. copies'[i].at # Missing /\ copies'[i].at \notin Queues
    BY <1>1, QueuesApart
  <2>3. RightQueue'
    BY <1>1, <1>2, <1>3 DEF IInv, RightQueue
  <2>4. MissingOnlyRevived'
    BY <1>1, <1>2, <2>2 DEF IInv, MissingOnlyRevived, BoundTo
  <2>5. KeysKnown'
    BY <1>1, <1>2, <2>2 DEF IInv, KeysKnown
  <2> QED
    BY <2>3, <2>4, <2>5
<1>7. TakenOnce'
  <2>1. \A g \in command.got : g[1] \in DOMAIN copies
    BY DEF IInv, TypeOK
  <2>2. ~command.requeue => \A g \in command.got : g[1] # i
    BY <1>3 DEF IInv, TakenOnce
  <2> QED
    BY <2>1, <2>2, <1>1, <1>2 DEF IInv, TakenOnce
<1> QED
  BY <1>4, <1>5, <1>6, <1>7 DEF IInv

\* The dead queue that takes a rejected copy is that of a queue bound to the topic;
\* a copy that was revived goes to missing_routing_key.
LEMMA RejectIInv ==
    ASSUME IInv, NEW i \in DOMAIN copies, Reject(i)
    PROVE  IInv'
<1> DEFINE m == copies[i].msg
           key == copies[i].key
           c == Moved({i}, "gone")
           queues == DeadRoutes(key)
<1>1. PICK new \in CopiesFor(m, key, queues) : copies' = c \o new
  BY DEF Reject
<1>2. /\ copies[i].at \in Queues /\ m \in Messages /\ key \in Topics \cup Queues
      /\ key \in {topic[m], copies[i].at} /\ topic[m] \in Topics
      /\ UNCHANGED <<topic, published, command, handled, discarded, commands>>
  <2>1. copies[i] \in Copy
    BY DEF IInv, TypeOK
  <2>2. m \in Messages /\ key \in Topics \cup Queues
    BY <2>1 DEF Copy
  <2>3. copies[i].at \in Queues /\ key \in {topic[m], copies[i].at}
    BY DEF IInv, KeysKnown, Reject, InService
  <2> QED
    BY <2>2, <2>3 DEF Reject, IInv, TypeOK
<1>3. OnlyMoved(c, {i}, "gone")
  BY MovedOnly DEF IInv
<1>4. queues \in SUBSET AllQueues
  BY Routes
<1> HIDE DEF c, queues
<1>5. /\ copies' \in Seq(Copy)
      /\ \A k \in DOMAIN c : k \in DOMAIN copies' /\ copies'[k] = c[k]
      /\ \A k \in DOMAIN copies' : k \notin DOMAIN c =>
            copies'[k].msg = m /\ copies'[k].key = key /\ copies'[k].at \in queues
      /\ \A q \in queues : \E k \in DOMAIN copies' : copies'[k].msg = m /\ copies'[k].at = q
  <2> HIDE DEF m, key
  <2>1. c \in Seq(Copy)
    BY <1>3 DEF OnlyMoved
  <2>2. m \in Messages /\ key \in Topics \cup Queues
    BY <1>2
  <2>3. new \in CopiesFor(m, key, queues)
    OBVIOUS
  <2> HIDE DEF c
  <2>4. c \o new \in Seq(Copy)
    BY <1>4, <2>1, <2>2, <2>3, Extended
  <2>5. \A k \in DOMAIN c : k \in DOMAIN (c \o new) /\ (c \o new)[k] = c[k]
    BY <1>4, <2>1, <2>2, <2>3, Extended
  <2>6. \A k \in DOMAIN (c \o new) : k \notin DOMAIN c =>
              /\ (c \o new)[k].msg = m /\ (c \o new)[k].key = key
              /\ (c \o new)[k].at \in queues
    BY <1>4, <2>1, <2>2, <2>3, Extended
  <2>7. \A q \in queues : \E k \in DOMAIN (c \o new) :
              (c \o new)[k].msg = m /\ (c \o new)[k].at = q
    BY <1>4, <2>1, <2>2, <2>3, Extended
  <2> QED
    BY <1>1, <2>4, <2>5, <2>6, <2>7, Zenon
<1>6. /\ \A k \in DOMAIN copies : /\ k \in DOMAIN copies'
                                  /\ copies'[k].msg = copies[k].msg
                                  /\ copies'[k].key = copies[k].key
                                  /\ k # i => copies'[k].at = copies[k].at
      /\ copies'[i].at = "gone"
      /\ \A k \in DOMAIN copies' : k \notin DOMAIN copies =>
            copies'[k].msg = m /\ copies'[k].key = key /\ copies'[k].at \in queues
  BY <1>3, <1>5 DEF OnlyMoved
\* The queues that get the message.
<1>7. /\ \A q \in Queues : q \notin queues
      /\ \A q \in Queues : Dead[q] \in queues => topic[m] \in Bindings[q]
      /\ Missing \in queues => BoundTo(topic[m]) = {} \/ key \in Queues
      /\ \A q \in Queues : topic[m] \in Bindings[q] => Dead[q] \in queues \/ Missing \in queues
      /\ BoundTo(topic[m]) = {} => Missing \in queues
  <2>1. \A q \in Queues : q \notin queues
    BY Routes DEF queues
  <2>2. CASE key = topic[m]
    BY <2>1, <2>2, <1>2, Routes DEF queues
  <2>3. CASE key = copies[i].at
    <3>1. BoundTo(key) = {}
      BY <2>3, <1>2, BrokerAssumption DEF BoundTo
    <3>2. queues = {Missing}
      BY <3>1, Routes DEF queues
    <3> QED
      BY <2>1, <3>2, <2>3, <1>2, QueuesApart
  <2> QED
    BY <2>2, <2>3, <1>2
<1>8. copies[i].at # "operator" /\ \A q \in Queues : "gone" \notin {q, Dead[q], Missing}
  BY <1>2, QueuesApart
<1> HIDE DEF m, key
<1>9. TypeOK'
  BY <1>5, <1>6, <1>2 DEF IInv, TypeOK
<1>10. NothingLost'
  <2> SUFFICES ASSUME NEW o \in Owed, o \notin handled, o[1] \notin discarded
               PROVE  \E k \in DOMAIN copies' : copies'[k].msg = o[1] /\ Keeps(k, o[2])'
    BY <1>2 DEF NothingLost, Owed
  <2>1. PICK k \in DOMAIN copies : copies[k].msg = o[1] /\ Keeps(k, o[2])
    BY DEF IInv, NothingLost
  <2>2. CASE k # i
    BY <2>1, <2>2, <1>2, <1>6 DEF Keeps
  <2>3. CASE k = i
    <3>1. o[2] = copies[i].at /\ o[1] = m
      BY <2>1, <2>3, <1>2, <1>8, QueuesApart DEF Keeps, Waits, Owed, m
    <3>2. topic[m] \in Bindings[o[2]]
      BY <3>1, <1>2, Routes DEF Owed
    <3>3. PICK q \in queues : q \in Waits(o[2])
      BY <3>1, <3>2, <1>2, <1>7, QueuesApart DEF Waits
    <3>4. PICK l \in DOMAIN copies' : copies'[l].msg = m /\ copies'[l].at = q
      BY <1>5
    <3> QED
      BY <3>1, <3>3, <3>4 DEF Keeps
  <2> QED
    BY <2>2, <2>3
<1>11. RightQueue'
  <2> SUFFICES ASSUME NEW k \in DOMAIN copies', NEW q \in Queues, copies'[k].at \in {q, Dead[q]}
               PROVE  topic[copies'[k].msg] \in Bindings[q]
    BY <1>2 DEF RightQueue
  <2>1. CASE k \in DOMAIN copies
    BY <2>1, <1>6, <1>8 DEF IInv, RightQueue
  <2>2. CASE k \notin DOMAIN copies
    BY <2>2, <1>6, <1>7
  <2> QED
    BY <2>1, <2>2
<1>12. MissingOnlyRevived'
  <2> SUFFICES ASSUME NEW k \in DOMAIN copies', copies'[k].at = Missing
               PROVE  BoundTo(topic[copies'[k].msg]) = {} \/ copies'[k].key \in Queues
    BY <1>2 DEF MissingOnlyRevived, BoundTo
  <2>1. CASE k \in DOMAIN copies
    BY <2>1, <1>2, <1>6, <1>8 DEF IInv, MissingOnlyRevived
  <2>2. CASE k \notin DOMAIN copies
    BY <2>2, <1>6, <1>7
  <2> QED
    BY <2>1, <2>2
<1>13. KeysKnown'
  <2> SUFFICES ASSUME NEW k \in DOMAIN copies', copies'[k].at \in Queues
               PROVE  copies'[k].key \in {topic[copies'[k].msg], copies'[k].at}
    BY <1>2 DEF KeysKnown
  <2>1. k \in DOMAIN copies /\ k # i
    BY <1>6, <1>7, QueuesApart
  <2> QED
    BY <2>1, <1>6 DEF IInv, KeysKnown
<1>14. TakenOnce'
  <2>1. \A g \in command.got : g[1] \in DOMAIN copies
    BY DEF IInv, TypeOK
  <2>2. ~command.requeue => \A g \in command.got : g[1] # i
    BY <1>8 DEF IInv, TakenOnce
  <2>3. \A k \in DOMAIN copies' : copies'[k].at = "operator" =>
            k \in DOMAIN copies /\ copies[k].at = "operator"
    BY <1>4, <1>6, QueuesApart
  <2> QED
    BY <2>1, <2>2, <2>3, <1>2, <1>6 DEF IInv, TakenOnce
<1> QED
  BY <1>9, <1>10, <1>11, <1>12, <1>13, <1>14 DEF IInv

\* A new command has taken nothing yet.
LEMMA RunIInv ==
    ASSUME IInv, NEW name \in {"revive", "kill"}, NEW requeue \in BOOLEAN,
           NEW matching \in SUBSET AllQueues, Run(name, requeue, matching)
    PROVE  IInv'
<1>1. command = NoCommand
  BY DEF IInv, TakenOnce, Run
<1>2. PICK n \in Counts :
          command' = [name |-> name, requeue |-> requeue, remaining |-> n,
                      todo |-> matching, got |-> {}]
  BY DEF Run
<1>3. UNCHANGED <<topic, published, copies, handled, discarded>> /\ commands' = commands + 1
  BY DEF Run
<1>4. \A k \in DOMAIN copies : copies[k].at # "operator"
  BY <1>1 DEF IInv, TakenOnce, NoCommand
<1>5. TypeOK'
  BY <1>2, <1>3, BrokerAssumption DEF IInv, TypeOK, Command
<1>6. NothingLost'
  BY <1>1, <1>2, <1>3, <1>4 DEF IInv, NothingLost, Keeps, Owed, NoCommand
<1>7. RightQueue' /\ MissingOnlyRevived' /\ KeysKnown'
  BY <1>3 DEF IInv, RightQueue, MissingOnlyRevived, KeysKnown, BoundTo
<1>8. TakenOnce'
  BY <1>2, <1>3, <1>4 DEF TakenOnce
<1> QED
  BY <1>5, <1>6, <1>7, <1>8 DEF IInv

\* What a command takes of a queue it has, or the queue has it again.
LEMMA GetIInv ==
    ASSUME IInv, NEW q \in AllQueues, Get(q)
    PROVE  IInv'
<1> DEFINE there == {i \in DOMAIN copies : copies[i].at = q}
<1>1. PICK some \in SUBSET there :
          LET left == command.remaining - Cardinality(some) IN
          /\ copies' = IF command.requeue THEN copies ELSE Moved(some, "operator")
          /\ command' = [command EXCEPT
                !.remaining = left,
                !.todo = IF left < 1 THEN {} ELSE @ \ {q},
                !.got = @ \cup (some \X {q})]
  BY DEF Get
<1>2. q \in command.todo /\ UNCHANGED <<topic, published, handled, discarded, commands>>
  BY DEF Get
<1>3. copies \in Seq(Copy) /\ command \in Command /\ command.name # "none"
  BY <1>2 DEF IInv, TypeOK, TakenOnce, NoCommand
<1>4. Cardinality(some) \in Nat
  <2>1. some \in SUBSET (1 .. Len(copies)) /\ Len(copies) \in Nat
    BY <1>3
  <2>2. IsFiniteSet(1 .. Len(copies))
    BY <2>1, FS_Interval
  <2> QED
    BY <2>1, <2>2, FS_Subset, FS_CardinalityType
<1>5. /\ command' \in Command
      /\ command'.name = command.name /\ command'.requeue = command.requeue
      /\ command'.got = command.got \cup (some \X {q})
  <2>1. some \subseteq Nat
    BY <1>3
  <2>2. command.remaining - Cardinality(some) \in Int
    BY <1>3, <1>4 DEF Command
  <2> QED
    BY <1>1, <1>3, <2>1, <2>2 DEF Command
<1>6. /\ copies' \in Seq(Copy) /\ DOMAIN copies' = DOMAIN copies
      /\ \A k \in DOMAIN copies :
            /\ copies'[k].msg = copies[k].msg /\ copies'[k].key = copies[k].key
            /\ copies'[k].at = IF ~command.requeue /\ k \in some
                               THEN "operator" ELSE copies[k].at
  <2>1. CASE command.requeue
    BY <2>1, <1>1, <1>3
  <2>2. CASE ~command.requeue
    <3>1. OnlyMoved(copies', some, "operator")
      BY <2>2, <1>1, MovedOnly DEF IInv
    <3> QED
      BY <2>2, <3>1 DEF OnlyMoved
  <2> QED
    BY <2>1, <2>2
<1>7. \A k \in some : k \in DOMAIN copies /\ copies[k].at = q
  OBVIOUS
<1>8. q # "operator" /\ \A r \in Queues : "operator" \notin {r, Dead[r], Missing}
  BY QueuesApart
<1>9. TypeOK'
  <2>1. \A g \in command'.got : g[1] \in DOMAIN copies'
    BY <1>5, <1>6, <1>7 DEF IInv, TypeOK
  <2> QED
    BY <2>1, <1>2, <1>5, <1>6 DEF IInv, TypeOK
<1>10. NothingLost'
  <2> SUFFICES ASSUME NEW o \in Owed, o \notin handled, o[1] \notin discarded
               PROVE  \E k \in DOMAIN copies' : copies'[k].msg = o[1] /\ Keeps(k, o[2])'
    BY <1>2 DEF NothingLost, Owed
  <2>1. PICK k \in DOMAIN copies : copies[k].msg = o[1] /\ Keeps(k, o[2])
    BY DEF IInv, NothingLost
  <2>2. CASE copies[k].at = "operator"
    <3>1. PICK w \in Waits(o[2]) : <<k, w>> \in command.got
      BY <2>1, <2>2, <1>8, QueuesApart DEF Keeps, Waits, Owed
    <3>2. copies'[k].at = "operator" /\ <<k, w>> \in command'.got
      BY <3>1, <2>2, <1>5, <1>6
    <3> QED
      BY <3>1, <3>2, <2>1, <1>6 DEF Keeps
  <2>3. CASE copies[k].at # "operator"
    <3>1. copies[k].at \in Waits(o[2])
      BY <2>1, <2>3 DEF Keeps
    <3>2. CASE ~command.requeue /\ k \in some
      <4>1. copies'[k].at = "operator" /\ q \in Waits(o[2]) /\ <<k, q>> \in command'.got
        BY <3>1, <3>2, <1>5, <1>6, <1>7
      <4> QED
        BY <4>1, <2>1, <1>6 DEF Keeps
    <3>3. CASE ~(~command.requeue /\ k \in some)
      BY <3>1, <3>3, <2>1, <1>6 DEF Keeps
    <3> QED
      BY <3>2, <3>3
  <2> QED
    BY <2>2, <2>3
<1>11. RightQueue'
  BY <1>2, <1>6, <1>8 DEF IInv, RightQueue
<1>12. MissingOnlyRevived'
  BY <1>2, <1>6, QueuesApart DEF IInv, MissingOnlyRevived, BoundTo
<1>13. KeysKnown'
  BY <1>2, <1>6, <1>8 DEF IInv, KeysKnown
<1>14. TakenOnce'
  <2>1. \A k \in DOMAIN copies' : copies'[k].at = "operator" => ~command'.requeue
    BY <1>5, <1>6 DEF IInv, TakenOnce
  <2>2. ASSUME ~command.requeue, NEW g \in command'.got
        PROVE  /\ copies'[g[1]].at = "operator"
               /\ \A h \in command'.got : h[1] = g[1] => h = g
    <3>1. \A h \in command.got : h[1] \in DOMAIN copies /\ copies[h[1]].at = "operator"
      BY <2>2 DEF IInv, TypeOK, TakenOnce
    <3>2. \A h \in some \X {q} : h[1] \in some /\ h = <<h[1], q>>
      OBVIOUS
    <3>3. \A h \in command.got : h[1] \notin some
      BY <3>1, <1>7, <1>8
    <3>4. CASE g \in command.got
      BY <3>1, <3>2, <3>3, <3>4, <2>2, <1>5, <1>6 DEF IInv, TakenOnce
    <3>5. CASE g \in some \X {q}
      BY <3>2, <3>3, <3>5, <2>2, <1>5, <1>6
    <3> QED
      BY <3>4, <3>5, <1>5
  <2>3. ASSUME NEW g \in command'.got, NEW r \in Queues, g[2] \in {r, Dead[r]}
        PROVE  topic'[copies'[g[1]].msg] \in Bindings[r]
    <3>1. CASE g \in command.got
      <4>1. g[1] \in DOMAIN copies
        BY <3>1 DEF IInv, TypeOK
      <4> QED
        BY <3>1, <4>1, <2>3, <1>2, <1>6 DEF IInv, TakenOnce
    <3>2. CASE g \in some \X {q}
      <4>1. g[1] \in DOMAIN copies /\ copies[g[1]].at = g[2]
        BY <3>2, <1>7
      <4> QED
        BY <4>1, <2>3, <1>2, <1>6 DEF IInv, RightQueue
    <3> QED
      BY <3>1, <3>2, <1>5
  <2> QED
    BY <2>1, <2>2, <2>3, <1>3, <1>5 DEF TakenOnce
<1> QED
  BY <1>9, <1>10, <1>11, <1>12, <1>13, <1>14 DEF IInv

\* What a revive took from a dead queue is in its queue again.
LEMMA PublishAgainIInv ==
    ASSUME IInv, NEW i \in DOMAIN copies, NEW q \in Queues, PublishAgain(i, q)
    PROVE  IInv'
<1> DEFINE entry == <<i, Dead[q]>>
           c == Moved({i} \cap Taken, "gone")
           copy == [msg |-> copies[i].msg, key |-> q, at |-> q]
<1>1. /\ entry \in command.got /\ command.name = "revive"
      /\ command' = [command EXCEPT !.got = @ \ {entry}]
      /\ copies' = Append(c, copy)
      /\ UNCHANGED <<topic, published, handled, discarded, commands>>
  BY DEF PublishAgain
<1>2. copies \in Seq(Copy) /\ command \in Command /\ copies[i].msg \in Messages
  BY CopiesTyped DEF IInv, TypeOK
<1>3. /\ command' \in Command
      /\ command'.name = "revive" /\ command'.requeue = command.requeue
      /\ command'.got = command.got \ {entry}
  BY <1>1, <1>2 DEF Command
<1>4. OnlyMoved(c, {i} \cap Taken, "gone")
  BY MovedOnly DEF IInv
<1>5. copy \in Copy
  BY <1>2, QueuesApart DEF Copy
<1>6. DOMAIN copies = 1 .. Len(copies) /\ Len(copies) \in Nat
  BY <1>2
<1> DEFINE last == Len(copies) + 1
<1>7. /\ copies' \in Seq(Copy) /\ DOMAIN copies' = DOMAIN copies \cup {last}
      /\ last \notin DOMAIN copies /\ copies'[last] = copy
      /\ \A k \in DOMAIN copies : copies'[k] = c[k]
  <2>1. c \in Seq(Copy) /\ Len(c) = Len(copies)
    BY <1>4, <1>6 DEF OnlyMoved
  <2> HIDE DEF c, copy
  <2>2. /\ Append(c, copy) \in Seq(Copy) /\ Len(Append(c, copy)) = Len(copies) + 1
        /\ \A k \in 1 .. Len(copies) : Append(c, copy)[k] = c[k]
        /\ Append(c, copy)[Len(copies) + 1] = copy
    BY <2>1, <1>5, AppendProperties
  <2>3. DOMAIN Append(c, copy) = 1 .. Len(copies) + 1
    BY <2>2
  <2> QED
    BY <1>1, <1>6, <2>2, <2>3
<1>8. /\ copies'[last].msg = copies[i].msg /\ copies'[last].key = q /\ copies'[last].at = q
      /\ \A k \in DOMAIN copies :
            /\ k \in DOMAIN copies'
            /\ copies'[k].msg = copies[k].msg /\ copies'[k].key = copies[k].key
            /\ copies'[k].at = IF k = i /\ copies[i].at = "operator"
                               THEN "gone" ELSE copies[k].at
  BY <1>4, <1>7 DEF OnlyMoved, Taken
<1> HIDE DEF last, c, copy
<1>9. /\ topic[copies[i].msg] \in Bindings[q]
      /\ copies[i].at = "operator" => ~command.requeue
      /\ ~command.requeue => \A h \in command.got : h[1] = i => h = entry
  BY <1>1 DEF IInv, TakenOnce
<1>10. q # "operator" /\ q # Missing /\ \A r \in Queues : q # Dead[r] /\ "gone" \notin {r, Dead[r], Missing}
  BY QueuesApart
<1>11. TypeOK'
  BY <1>1, <1>3, <1>7 DEF IInv, TypeOK
<1>12. NothingLost'
  <2> SUFFICES ASSUME NEW o \in Owed, o \notin handled, o[1] \notin discarded
               PROVE  \E k \in DOMAIN copies' : copies'[k].msg = o[1] /\ Keeps(k, o[2])'
    BY <1>1 DEF NothingLost, Owed
  <2>1. PICK k \in DOMAIN copies : copies[k].msg = o[1] /\ Keeps(k, o[2])
    BY DEF IInv, NothingLost
  <2>2. CASE copies[k].at \in Waits(o[2])
    <3>1. copies'[k].at = copies[k].at
      BY <2>2, <1>8, QueuesApart DEF Waits, Owed
    <3> QED
      BY <2>1, <2>2, <3>1, <1>8 DEF Keeps
  <2>3. CASE copies[k].at = "operator"
    <3>1. PICK w \in Waits(o[2]) : <<k, w>> \in command.got
      BY <2>1, <2>3, QueuesApart DEF Keeps, Waits, Owed
    <3>2. CASE k # i
      <4>1. copies'[k].at = "operator" /\ <<k, w>> \in command'.got
        BY <3>1, <3>2, <2>3, <1>3, <1>8
      <4> QED
        BY <4>1, <3>1, <2>1, <1>8 DEF Keeps
    <3>3. CASE k = i
      <4>1. w = Dead[q]
        BY <3>1, <3>3, <2>3, <1>9
      <4>2. o[2] = q
        BY <4>1, <3>1, QueuesApart DEF Waits, Owed
      <4> QED
        BY <4>2, <3>3, <2>1, <1>7, <1>8 DEF Keeps, Waits
    <3> QED
      BY <3>2, <3>3
  <2> QED
    BY <2>1, <2>2, <2>3 DEF Keeps
<1>13. RightQueue'
  BY <1>1, <1>7, <1>8, <1>9, <1>10 DEF IInv, RightQueue
<1>14. MissingOnlyRevived' /\ KeysKnown'
  <2>1. MissingOnlyRevived'
    BY <1>1, <1>7, <1>8, <1>10 DEF IInv, MissingOnlyRevived, BoundTo
  <2>2. KeysKnown'
    BY <1>1, <1>7, <1>8, <1>10 DEF IInv, KeysKnown
  <2> QED
    BY <2>1, <2>2
<1>15. TakenOnce'
  <2>1. \A k \in DOMAIN copies' : copies'[k].at = "operator" =>
            k \in DOMAIN copies /\ copies[k].at = "operator"
    BY <1>7, <1>8, <1>10
  <2>2. \A g \in command'.got : g \in command.got /\ g # entry /\ g[1] \in DOMAIN copies
    BY <1>3 DEF IInv, TypeOK
  <2>3. ~command.requeue => \A g \in command'.got : g[1] # i
    BY <2>2, <1>9
  <2>4. ~command.requeue => \A g \in command'.got :
            /\ copies'[g[1]].at = "operator"
            /\ \A h \in command'.got : h[1] = g[1] => h = g
    BY <2>2, <2>3, <1>8 DEF IInv, TakenOnce
  <2>5. \A g \in command'.got, r \in Queues :
            g[2] \in {r, Dead[r]} => topic'[copies'[g[1]].msg] \in Bindings[r]
    BY <2>2, <1>1, <1>8 DEF IInv, TakenOnce
  <2> QED
    BY <2>1, <2>4, <2>5, <1>3 DEF IInv, TakenOnce
<1> QED
  BY <1>11, <1>12, <1>13, <1>14, <1>15 DEF IInv

\* What a command still has when it ends is discarded.
LEMMA ExitIInv ==
    ASSUME IInv, Exit
    PROVE  IInv'
<1>1. OnlyMoved(copies', Taken, "gone")
  BY MovedOnly DEF IInv, Exit
<1>2. /\ command' = NoCommand
      /\ discarded' = discarded \cup {copies[i].msg : i \in Taken}
      /\ UNCHANGED <<topic, published, handled, commands>>
  BY DEF Exit
<1>3. \A i \in DOMAIN copies : copies[i].at = "operator" <=> i \in Taken
  BY DEF Taken
<1>4. /\ "gone" # "operator"
      /\ "gone" # Missing /\ \A q \in Queues : "gone" # q /\ "gone" # Dead[q]
  BY QueuesApart
<1> USE DEF OnlyMoved
<1>5. TypeOK'
  <2>1. \A i \in Taken : copies[i].msg \in Messages
    BY CopiesTyped DEF IInv, Taken
  <2>2. command' \in Command /\ command'.got = {}
    BY <1>2 DEF NoCommand, Command
  <2> QED
    BY <2>1, <2>2, <1>1, <1>2 DEF IInv, TypeOK
<1>6. NothingLost'
  <2> SUFFICES ASSUME NEW o \in Owed, o \notin handled, o[1] \notin discarded'
               PROVE  \E k \in DOMAIN copies' : copies'[k].msg = o[1] /\ Keeps(k, o[2])'
    BY <1>2 DEF NothingLost, Owed
  <2>1. PICK k \in DOMAIN copies : copies[k].msg = o[1] /\ Keeps(k, o[2])
    BY <1>2 DEF IInv, NothingLost
  <2>2. k \notin Taken
    BY <2>1, <1>2
  <2> QED
    BY <2>1, <2>2, <1>1, <1>3 DEF Keeps
<1>7. RightQueue'
  BY <1>1, <1>2, <1>4 DEF IInv, RightQueue
<1>8. MissingOnlyRevived'
  BY <1>1, <1>2, <1>4 DEF IInv, MissingOnlyRevived, BoundTo
<1>9. KeysKnown'
  BY <1>1, <1>2, <1>4 DEF IInv, KeysKnown
<1>10. TakenOnce'
  <2>1. \A k \in DOMAIN copies' : copies'[k].at # "operator"
    BY <1>1, <1>3, <1>4
  <2>2. command' = NoCommand /\ command'.got = {} /\ command'.requeue
    BY <1>2 DEF NoCommand
  <2> QED
    BY <2>1, <2>2 DEF TakenOnce
<1> QED
  BY <1>5, <1>6, <1>7, <1>8, <1>9, <1>10 DEF IInv

\* Every step of clients, services, operators and the broker preserves the invariant.
LEMMA StepIInv == IInv /\ [Next]_vars => IInv'
<1> SUFFICES ASSUME IInv, [Next]_vars PROVE IInv'
  OBVIOUS
<1>1. ASSUME NEW m \in Messages, Publish(m) PROVE IInv'
  BY <1>1, PublishIInv
<1>2. ASSUME NEW i \in DOMAIN copies, Handle(i) PROVE IInv'
  BY <1>2, HandleIInv
<1>3. ASSUME NEW i \in DOMAIN copies, Reject(i) PROVE IInv'
  BY <1>3, RejectIInv
<1>4. ASSUME NEW p \in Patterns, Revive(p) PROVE IInv'
  <2>1. p \cap {Dead[q] : q \in Queues} \in SUBSET AllQueues
    BY QueuesApart
  <2>2. PICK requeue \in BOOLEAN : Run("revive", requeue, p \cap {Dead[q] : q \in Queues})
    BY <1>4 DEF Revive
  <2> QED
    BY <2>1, <2>2, RunIInv
<1>5. ASSUME NEW p \in Patterns, Kill(p) PROVE IInv'
  <2>1. p \in SUBSET AllQueues
    BY BrokerAssumption
  <2> QED
    BY <1>5, <2>1, RunIInv DEF Kill
<1>6. ASSUME NEW q \in AllQueues, Get(q) PROVE IInv'
  BY <1>6, GetIInv
<1>7. ASSUME NEW i \in DOMAIN copies, NEW q \in Queues, PublishAgain(i, q) PROVE IInv'
  BY <1>7, PublishAgainIInv
<1>8. CASE Exit
  BY <1>8, ExitIInv
<1>9. CASE UNCHANGED vars
  <2>1. UNCHANGED <<topic, published, copies, command, handled, discarded, commands>>
    BY <1>9 DEF vars
  <2>2. TypeOK' /\ NothingLost'
    BY <2>1 DEF IInv, TypeOK, NothingLost, Owed, Keeps
  <2>3. RightQueue' /\ MissingOnlyRevived' /\ KeysKnown' /\ TakenOnce'
    BY <2>1 DEF IInv, RightQueue, MissingOnlyRevived, KeysKnown, TakenOnce, BoundTo
  <2> QED
    BY <2>2, <2>3 DEF IInv
<1> QED
  BY <1>1, <1>2, <1>3, <1>4, <1>5, <1>6, <1>7, <1>8, <1>9 DEF Next

\* The inductive invariant holds in every reachable state.
THEOREM Invariance == Spec => []IInv
<1> QED
  BY InitIInv, StepIInv, PTL DEF Spec

\* Every variable has its type.
THEOREM TypeCorrect == Spec => []TypeOK
<1>1. IInv => TypeOK
  BY DEF IInv
<1> QED
  BY <1>1, Invariance, PTL

\* No message that a service has still to handle is lost, whatever is rejected,
\* revived or killed, and wherever a command dies.
THEOREM NothingIsLost == Spec => []NothingLost
<1>1. IInv => NothingLost
  BY DEF IInv
<1> QED
  BY <1>1, Invariance, PTL

\* A service only ever gets the messages its queue is bound for.
THEOREM RightQueueAlways == Spec => []RightQueue
<1>1. IInv => RightQueue
  BY DEF IInv
<1> QED
  BY <1>1, Invariance, PTL

\* What is in missing_routing_key was for nobody, or was revived before.
THEOREM MissingOnlyRevivedAlways == Spec => []MissingOnlyRevived
<1>1. IInv => MissingOnlyRevived
  BY DEF IInv
<1> QED
  BY <1>1, Invariance, PTL
=============================================================================
