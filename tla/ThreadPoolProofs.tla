-------------------------- MODULE ThreadPoolProofs --------------------------
(***************************************************************************)
(* Theorems about ThreadPool, for any number of workers, clients, items    *)
(* and any use of the pool.                                                *)
(***************************************************************************)
EXTENDS ThreadPool, TLAPS, FiniteSetTheorems

-----------------------------------------------------------------------------
(* Queues.                                                                  *)
LEMMA TailOf ==
    ASSUME NEW S, NEW s \in Seq(S), s # <<>>
    PROVE  /\ Tail(s) \in Seq(S) /\ Head(s) \in S
           /\ 1 \in DOMAIN s /\ Head(s) = s[1]
           /\ \A k \in DOMAIN Tail(s) : k + 1 \in DOMAIN s /\ Tail(s)[k] = s[k + 1]
  OBVIOUS

LEMMA AppendOf ==
    ASSUME NEW S, NEW s \in Seq(S), NEW e \in S
    PROVE  /\ Append(s, e) \in Seq(S)
           /\ \A k \in DOMAIN Append(s, e) :
                \/ k \in DOMAIN s /\ Append(s, e)[k] = s[k]
                \/ k = Len(s) + 1 /\ Append(s, e)[k] = e
  OBVIOUS

LEMMA Modulo ==
    ASSUME NEW m \in Nat
    PROVE  m % thread_num_ \in Workers
BY PoolAssumption, SMT DEF Workers

\* What the current use of the pool gives.
LEMMA UseTypes ==
    ASSUME TypeOK
    PROVE  /\ enable_work_steal_ \in BOOLEAN
           /\ Pin \in [Items -> Workers \union {-1}]
           /\ Child \in [Items -> Items \union {NullFn}]
           /\ \A i \in Items : WorkItem(i) \in [fn : Items, can_steal : BOOLEAN]
BY ItemsAssumption DEF TypeOK, enable_work_steal_, Pin, Child, WorkItem

-----------------------------------------------------------------------------
(* Types, and what each place says of the thread that is there.             *)
PlacesInv ==
    /\ \A t \in Threads :
        /\ pc[t] \in {"try_push", "push", "pushing", "notify", "acquire", "run"}
             => fn[t] \in Items
        /\ pc[t] = "stealing" => n[t] < 2 * thread_num_
    /\ pc[Destroyer] \in {"stop_lock", "stopping", "notify_all"} => n[Destroyer] < thread_num_

TypeInv == TypeOK /\ PlacesInv

LEMMA TypeInit == Init => TypeInv
<1> SUFFICES ASSUME Init PROVE TypeInv
  OBVIOUS
<1>1. thread_num_ \in Nat /\ 0 \in Workers
  BY PoolAssumption DEF Workers
<1>2. /\ use.program \in [Clients -> Seq(Items \union {NullFn})]
      /\ use.max_spurious \in Nat
  BY ItemsAssumption DEF Init
<1>3. at \in [Threads -> Workers] /\ n \in [Threads -> 0 .. 2 * thread_num_]
  BY <1>1 DEF Init
<1>4. /\ queue \in [Workers -> Seq([fn : Items, can_steal : BOOLEAN])]
      /\ pushed \in [Workers -> Seq(Items)]
      /\ ran \in Seq(Workers \X Items)
  BY DEF Init
<1>5. pc \in [Threads -> {"ready", "alive", "steal", "pop"}]
  BY DEF Init
<1>s. spurious \in 0 .. use.max_spurious
  BY <1>2 DEF Init
<1>q. /\ mutex \in [Workers -> Threads \union {Free}]
      /\ qstop \in [Workers -> BOOLEAN]
      /\ fn \in [Threads -> Items \union {NullFn}]
  BY DEF Init
<1>c. pc \in [Threads -> ClientPlaces \union SchedulePlaces \union WorkerPlaces \union DestroyPlaces]
  BY <1>5 DEF ClientPlaces, WorkerPlaces, DestroyPlaces
<1>6. TypeOK
  BY <1>2, <1>3, <1>4, <1>c, <1>s, <1>q DEF Init, TypeOK
<1>7. Destroyer \in Threads
  BY DEF Threads
<1>8. PlacesInv
  BY <1>5, <1>7 DEF PlacesInv
<1> QED
  BY <1>6, <1>8 DEF TypeInv

LEMMA TypeStep == TypeInv /\ [Next]_vars => TypeInv'
<1>0. SUFFICES ASSUME TypeInv, [Next]_vars PROVE TypeInv'
  OBVIOUS
<1>t. TypeOK /\ PlacesInv
  BY <1>0 DEF TypeInv
<1>d. /\ Clients \subseteq Threads /\ Workers \subseteq Threads /\ Destroyer \in Threads
      /\ Destroyer \notin Clients \union Workers
      /\ thread_num_ \in Nat \ {0} /\ 0 \in Workers
  BY ThreadsAssumption, PoolAssumption DEF Threads, Workers
<1> DEFINE Places == ClientPlaces \union SchedulePlaces \union WorkerPlaces \union DestroyPlaces
<1>r. ASSUME NEW t PROVE ReturnPlace(t) \in {"steal", "pop", "ready"}
  BY DEF ReturnPlace, LoopTop
<1> DEFINE Counts == 0 .. 2 * thread_num_
<1>n. /\ 0 \in Counts
      /\ \A m \in Counts : m # 2 * thread_num_ => m + 1 \in Counts /\ m < 2 * thread_num_
      /\ \A m \in Counts : m < thread_num_ => m \in Workers /\ m + 1 \in Counts
      /\ \A m \in Counts : m % thread_num_ \in Workers
      /\ \A m \in Counts, w \in Workers : (w + m) % thread_num_ \in Workers
  BY <1>d DEF Workers
<1>a. ASSUME NEW t PROVE AcceptedPlace(t) \in {"acquire", "steal", "pop", "ready"}
  BY <1>r DEF AcceptedPlace
<1>p. {"acquire", "steal", "pop", "ready", "done", "check", "try_push", "push", "pushing",
       "notify", "stealing", "popping", "waiting", "run", "exited", "stop_lock", "stopping",
       "notify_all", "join", "gone"} \subseteq Places
  BY DEF ClientPlaces, SchedulePlaces, WorkerPlaces, DestroyPlaces
<1>f. /\ fn \in [Threads -> Items \union {NullFn}] /\ pc \in [Threads -> Places]
      /\ n \in [Threads -> Counts] /\ at \in [Threads -> Workers]
      /\ mutex \in [Workers -> Threads \union {Free}]
      /\ queue \in [Workers -> Seq([fn : Items, can_steal : BOOLEAN])]
  BY <1>t DEF TypeOK
<1>tp. pc \in [Threads -> Places]
  BY <1>f
<1>tn. n \in [Threads -> Counts]
  BY <1>f
<1>ta. at \in [Threads -> Workers]
  BY <1>f
<1>tm. mutex \in [Workers -> Threads \union {Free}]
  BY <1>f
<1>tq. /\ queue \in [Workers -> Seq([fn : Items, can_steal : BOOLEAN])]
       /\ fn \in [Threads -> Items \union {NullFn}]
  BY <1>f
<1>n0. 0 \in Counts
  BY <1>n
<1>n1. \A m \in Counts : m # 2 * thread_num_ => m + 1 \in Counts
  BY <1>n
<1>m. ASSUME NEW m \in Counts PROVE m % thread_num_ \in Workers
  BY <1>n
<1>k. ASSUME NEW w,
             NEW p \in {"ready", "try_push", "push", "pushing", "steal", "stealing", "pop",
                        "waiting", "run", "exited", "stop_lock", "stopping", "notify_all",
                        "gone"},
             pc' = [pc EXCEPT ![w] = p]
      PROVE  pc' \in [Threads -> Places]
  BY <1>tp, <1>p, <1>k
<1> USE DEF Goto, At, queues, history
<1> HIDE DEF Places, Counts
<1>1. ASSUME NEW c \in Clients, CallSchedule(c) PROVE TypeInv'
  <2>1. pc' \in [Threads -> Places]
    BY <1>1, <1>d, <1>f, <1>p DEF CallSchedule
  <2>2. /\ todo' \in [Clients -> Seq(Items \union {NullFn})]
        /\ fn' \in [Threads -> Items \union {NullFn}]
    <3>1. todo \in [Clients -> Seq(Items \union {NullFn})]
      BY <1>t DEF TypeOK
    <3>2. CASE todo[c] = <<>>
      BY <1>1, <1>f, <3>1, <3>2 DEF CallSchedule
    <3>3. CASE todo[c] # <<>>
      <4>1. /\ Head(todo[c]) \in Items \union {NullFn}
            /\ Tail(todo[c]) \in Seq(Items \union {NullFn})
        <5> DEFINE Fns == Items \union {NullFn}
        <5>1. todo[c] \in Seq(Fns)
          BY <3>1
        <5> HIDE DEF Fns
        <5>2. Head(todo[c]) \in Fns /\ Tail(todo[c]) \in Seq(Fns)
          BY <5>1, <3>3, TailOf
        <5> QED
          BY <5>2 DEF Fns
      <4>2. /\ fn' = [fn EXCEPT ![c] = Head(todo[c])]
            /\ todo' = [todo EXCEPT ![c] = Tail(@)]
        BY <1>1, <3>3 DEF CallSchedule
      <4> QED
        BY <1>d, <1>f, <3>1, <4>1, <4>2
    <3> QED
      BY <3>2, <3>3
  <2>3. TypeOK'
    BY <1>1, <1>d, <1>t, <1>f, <2>1, <2>2 DEF CallSchedule, TypeOK, Places, Counts
  <2>4. PlacesInv'
    BY <1>1, <1>d, <1>t, <1>f DEF CallSchedule, PlacesInv
  <2> QED
    BY <2>3, <2>4 DEF TypeInv
<1>2. ASSUME NEW t \in Threads \ {Destroyer}, ScheduleById(t) PROVE TypeInv'
  <2>0. PICK p \in {"steal", "pop", "ready", "try_push", "push"} :
             /\ pc' = [pc EXCEPT ![t] = p]
             /\ p \in {"try_push", "push"} => fn[t] # NullFn
    BY <1>2, <1>r, Zenon DEF ScheduleById
  <2>1. pc' \in [Threads -> Places]
    BY <1>k, <2>0
  <2>2. n' \in [Threads -> Counts]
    BY <1>2, <1>d, <1>f, <1>n DEF ScheduleById
  <2>3. at' \in [Threads -> Workers]
    <3>1. PICK q \in Workers : at' = at \/ at' = [at EXCEPT ![t] = q]
      <4>1. fn[t] = NullFn \/ stop_ \/ Pin[fn[t]] \in Workers \union {-1}
        BY <1>d, <1>t, <1>f, UseTypes
      <4>2. \/ at' = at
            \/ \E q \in Workers : at' = [at EXCEPT ![t] = q]
            \/ Pin[fn[t]] \in Workers /\ at' = [at EXCEPT ![t] = Pin[fn[t]]]
        BY <1>2, <4>1, Zenon DEF ScheduleById
      <4> QED
        BY <1>d, <4>2, Zenon
    <3> QED
      BY <1>d, <1>f, <3>1
  <2>4. TypeOK'
    BY <1>2, <1>d, <1>t, <1>f, <2>1, <2>2, <2>3 DEF ScheduleById, TypeOK, Places, Counts
  <2>5. fn' = fn
    BY <1>2 DEF ScheduleById
  <2>6. /\ pc'[t] \notin {"notify", "acquire", "run", "stealing", "pushing"}
        /\ pc'[t] \in {"push", "try_push"} => fn[t] \in Items
    BY <1>d, <1>f, <2>0
  <2>7. \A u \in Threads \ {t} : pc'[u] = pc[u] /\ n'[u] = n[u]
    BY <1>2, <1>d, <1>f DEF ScheduleById
  <2>8. PlacesInv'
    BY <1>d, <1>t, <1>f, <2>5, <2>6, <2>7 DEF PlacesInv
  <2> QED
    BY <2>4, <2>8 DEF TypeInv
<1>3. ASSUME NEW t \in Threads \ {Destroyer}, TryPush(t) PROVE TypeInv'
  <2>0. \/ /\ \E q \in Workers : at' = [at EXCEPT ![t] = q]
           /\ pc' = [pc EXCEPT ![t] = "push"] /\ mutex' = mutex /\ n' = n
        \/ /\ mutex' = [mutex EXCEPT ![n[t] % thread_num_] = t]
           /\ at' = [at EXCEPT ![t] = n[t] % thread_num_]
           /\ pc' = [pc EXCEPT ![t] = "pushing"] /\ n' = n
        \/ /\ n[t] # 2 * thread_num_ /\ n' = [n EXCEPT ![t] = n[t] + 1]
           /\ mutex' = mutex /\ at' = at /\ pc' = pc
    BY <1>3, Zenon DEF TryPush, Lock
  <2>1. pc' \in [Threads -> Places] /\ n' \in [Threads -> Counts]
    <3>1. pc' \in [Threads -> Places]
      BY <1>tp, <1>k, <2>0
    <3>2. t \in Threads /\ (n' = n \/ (n[t] # 2 * thread_num_ /\ n' = [n EXCEPT ![t] = n[t] + 1]))
      BY <2>0
    <3>3. n' \in [Threads -> Counts]
      BY <1>tn, <1>n1, <3>2
    <3> QED
      BY <3>1, <3>3
  <2>2. n[t] % thread_num_ \in Workers
    BY <1>tn, <1>m
  <2>3. at' \in [Threads -> Workers] /\ mutex' \in [Workers -> Threads \union {Free}]
    <3>1. \/ at' = at /\ mutex' = mutex
          \/ \E q \in Workers : at' = [at EXCEPT ![t] = q] /\ mutex' = mutex
          \/ \E q \in Workers : at' = [at EXCEPT ![t] = q] /\ mutex' = [mutex EXCEPT ![q] = t]
      BY <2>0, <2>2, Zenon
    <3> QED
      BY <1>ta, <1>tm, <3>1
  <2>4. TypeOK'
    BY <1>3, <1>d, <1>t, <1>f, <2>1, <2>3 DEF TryPush, TypeOK, Places, Counts
  <2>5. fn' = fn /\ fn[t] \in Items
    BY <1>3, <1>t DEF TryPush, PlacesInv
  <2>6. /\ pc'[t] \in {"push", "pushing", "try_push"}
        /\ \A u \in Threads \ {t} : pc'[u] = pc[u] /\ n'[u] = n[u]
    <3>1. pc[t] = "try_push"
      BY <1>3 DEF TryPush
    <3> QED
      BY <1>tp, <1>tn, <2>0, <3>1
  <2>7. PlacesInv'
    BY <1>d, <1>t, <2>5, <2>6 DEF PlacesInv
  <2> QED
    BY <2>4, <2>7 DEF TypeInv
<1>4. ASSUME NEW t \in Threads \ {Destroyer}, PushLock(t) PROVE TypeInv'
  <2>1. pc' \in [Threads -> Places] /\ mutex' \in [Workers -> Threads \union {Free}]
    BY <1>4, <1>d, <1>f, <1>p DEF PushLock, Lock
  <2>2. TypeOK'
    BY <1>4, <1>d, <1>t, <1>f, <2>1 DEF PushLock, TypeOK, Places, Counts
  <2>3. PlacesInv'
    BY <1>4, <1>d, <1>t, <1>f DEF PushLock, PlacesInv
  <2> QED
    BY <2>2, <2>3 DEF TypeInv
<1>5. ASSUME NEW t \in Threads \ {Destroyer}, Push(t) PROVE TypeInv'
  <2>1. pc' \in [Threads -> Places] /\ mutex' \in [Workers -> Threads \union {Free}]
    BY <1>5, <1>d, <1>f, <1>p DEF Push, Unlock
  <2>2. fn[t] \in Items /\ WorkItem(fn[t]) \in [fn : Items, can_steal : BOOLEAN]
    BY <1>5, <1>d, <1>t, <1>f, UseTypes DEF Push, PlacesInv
  <2>3. queue' \in [Workers -> Seq([fn : Items, can_steal : BOOLEAN])]
    BY <1>5, <1>d, <1>f, <2>2, AppendOf DEF Push
  <2>4. pushed' \in [Workers -> Seq(Items)]
    BY <1>5, <1>d, <1>t, <1>f, <2>2, AppendOf DEF Push, TypeOK
  <2>5. TypeOK'
    BY <1>5, <1>d, <1>t, <1>f, <2>1, <2>3, <2>4 DEF Push, TypeOK, Places, Counts
  <2>6. PlacesInv'
    BY <1>5, <1>d, <1>t, <1>f DEF Push, PlacesInv
  <2> QED
    BY <2>5, <2>6 DEF TypeInv
<1>6. ASSUME NEW t \in Threads \ {Destroyer}, NotifyOne(t) PROVE TypeInv'
  <2>1. pc' \in [Threads -> Places] /\ n' \in [Threads -> Counts]
    <3>1. pc' \in [Threads -> Places]
      BY <1>6, <1>d, <1>f, <1>p, <1>a DEF NotifyOne
    <3>2. n' = [n EXCEPT ![t] = 0]
      BY <1>6 DEF NotifyOne
    <3> QED
      BY <1>f, <1>n, <3>1, <3>2
  <2>2. fn[t] \in Items
    BY <1>6, <1>d, <1>t, <1>f DEF NotifyOne, PlacesInv
  <2>3. TypeOK'
    BY <1>6, <1>d, <1>t, <1>f, <2>1, <2>2 DEF NotifyOne, TypeOK, Places, Counts
  <2>4. /\ pc'[t] \in {"acquire", "steal", "pop", "ready"}
        /\ \A u \in Threads \ {t} : n'[u] = n[u] /\ pc'[u] \in {pc[u], "pop"}
    BY <1>6, <1>d, <1>f, <1>a DEF NotifyOne
  <2>5. PlacesInv'
    BY <1>6, <1>d, <1>t, <1>f, <2>2, <2>4 DEF NotifyOne, PlacesInv
  <2> QED
    BY <2>3, <2>5 DEF TypeInv
<1>7. ASSUME NEW t \in Threads \ {Destroyer}, SyncReturn(t) PROVE TypeInv'
  <2>1. pc' \in [Threads -> Places] /\ pc'[t] \in {"steal", "pop", "ready"}
    BY <1>7, <1>d, <1>f, <1>p, <1>r DEF SyncReturn
  <2>2. TypeOK'
    BY <1>7, <1>d, <1>t, <1>f, <2>1 DEF SyncReturn, TypeOK, Places, Counts
  <2>3. PlacesInv'
    BY <1>7, <1>d, <1>t, <1>f, <2>1 DEF SyncReturn, PlacesInv
  <2> QED
    BY <2>2, <2>3 DEF TypeInv
<1>8. ASSUME NEW w \in Workers, TrySteal(w) PROVE TypeInv'
  <2>0. \/ /\ pc' = [pc EXCEPT ![w] = "pop"] /\ mutex' = mutex /\ n' = n /\ at' = at
        \/ /\ mutex' = [mutex EXCEPT ![(w + n[w]) % thread_num_] = w]
           /\ at' = [at EXCEPT ![w] = (w + n[w]) % thread_num_]
           /\ n[w] # 2 * thread_num_
           /\ pc' = [pc EXCEPT ![w] = "stealing"] /\ n' = n
        \/ /\ n[w] # 2 * thread_num_ /\ n' = [n EXCEPT ![w] = n[w] + 1]
           /\ mutex' = mutex /\ at' = at /\ pc' = pc
    BY <1>8, Zenon DEF TrySteal, Lock
  <2>1. pc' \in [Threads -> Places] /\ n' \in [Threads -> Counts]
    <3>1. pc' \in [Threads -> Places]
      BY <1>tp, <1>k, <2>0
    <3>2. w \in Threads /\ (n' = n \/ (n[w] # 2 * thread_num_ /\ n' = [n EXCEPT ![w] = n[w] + 1]))
      BY <1>d, <2>0
    <3>3. n' \in [Threads -> Counts]
      BY <1>tn, <1>n1, <3>2
    <3> QED
      BY <3>1, <3>3
  <2>2. w \in Threads /\ (w + n[w]) % thread_num_ \in Workers
    BY <1>d, <1>tn, <1>n
  <2>3. at' \in [Threads -> Workers] /\ mutex' \in [Workers -> Threads \union {Free}]
    <3>1. \/ at' = at /\ mutex' = mutex
          \/ \E q \in Workers : at' = [at EXCEPT ![w] = q] /\ mutex' = [mutex EXCEPT ![q] = w]
      BY <2>0, <2>2, Zenon
    <3> QED
      BY <1>ta, <1>tm, <2>2, <3>1
  <2>4. TypeOK'
    BY <1>8, <1>d, <1>t, <1>f, <2>1, <2>3 DEF TrySteal, TypeOK, Places, Counts
  <2>5. fn' = fn /\ pc[w] = "steal"
    BY <1>8 DEF TrySteal
  <2>6. PlacesInv'
    BY <1>d, <1>t, <1>f, <1>n, <2>0, <2>5 DEF PlacesInv
  <2> QED
    BY <2>4, <2>6 DEF TypeInv
<1>9. ASSUME NEW w \in Workers, TryPopIf(w) PROVE TypeInv'
  <2>0. /\ \/ /\ queue[at[w]] # <<>>
              /\ fn' = [fn EXCEPT ![w] = Head(queue[at[w]]).fn]
              /\ queue' = [queue EXCEPT ![at[w]] = Tail(@)]
              /\ pc' = [pc EXCEPT ![w] = "run"] /\ n' = n
           \/ /\ fn' = fn /\ queue' = queue
              /\ pc' = [pc EXCEPT ![w] = "steal"] /\ n' = [n EXCEPT ![w] = @ + 1]
        /\ mutex' = [mutex EXCEPT ![at[w]] = Free]
    BY <1>9, Zenon DEF TryPopIf, Take, Unlock
  <2>q. w \in Threads /\ at[w] \in Workers /\ n[w] \in Counts /\ n[w] # 2 * thread_num_
    BY <1>9, <1>d, <1>t, <1>f DEF TryPopIf, PlacesInv, Counts
  <2>1. pc' \in [Threads -> Places] /\ mutex' \in [Workers -> Threads \union {Free}]
    <3>1. pc' \in [Threads -> Places]
      BY <1>k, <2>0
    <3> QED
      BY <1>tm, <2>0, <2>q, <3>1
  <2>2. n' \in [Threads -> Counts]
    BY <1>f, <1>n, <2>0, <2>q
  <2>3. queue[at[w]] # <<>> => /\ Head(queue[at[w]]) \in [fn : Items, can_steal : BOOLEAN]
                               /\ Tail(queue[at[w]]) \in Seq([fn : Items, can_steal : BOOLEAN])
    BY <1>f, <2>q, TailOf
  <2>4. /\ queue' \in [Workers -> Seq([fn : Items, can_steal : BOOLEAN])]
        /\ fn' \in [Threads -> Items \union {NullFn}]
        /\ pc'[w] = "run" => fn'[w] \in Items
    <3>1. CASE fn' = fn /\ queue' = queue /\ pc' = [pc EXCEPT ![w] = "steal"]
      BY <1>tp, <1>tq, <2>q, <3>1
    <3>2. CASE /\ queue[at[w]] # <<>>
               /\ fn' = [fn EXCEPT ![w] = Head(queue[at[w]]).fn]
               /\ queue' = [queue EXCEPT ![at[w]] = Tail(@)]
      <4>1. Head(queue[at[w]]).fn \in Items
        BY <2>3, <3>2
      <4>2. fn' \in [Threads -> Items \union {NullFn}] /\ fn'[w] \in Items
        BY <1>tq, <2>q, <3>2, <4>1
      <4>3. queue' \in [Workers -> Seq([fn : Items, can_steal : BOOLEAN])]
        BY <1>tq, <2>q, <2>3, <3>2
      <4> QED
        BY <4>2, <4>3
    <3> QED
      BY <2>0, <3>1, <3>2
  <2>5. TypeOK'
    BY <1>9, <1>d, <1>t, <1>f, <2>1, <2>2, <2>4 DEF TryPopIf, TypeOK, Places, Counts
  <2>6. /\ pc'[w] \in {"run", "steal"}
        /\ \A u \in Threads \ {w} : pc'[u] = pc[u] /\ fn'[u] = fn[u] /\ n'[u] = n[u]
    BY <1>9, <1>d, <1>f DEF TryPopIf, Take
  <2>7. PlacesInv'
    BY <1>d, <1>t, <1>f, <2>4, <2>6 DEF PlacesInv
  <2> QED
    BY <2>5, <2>7 DEF TypeInv
<1>10. ASSUME NEW w \in Workers, PopLock(w) PROVE TypeInv'
  <2>1. pc' \in [Threads -> Places] /\ mutex' \in [Workers -> Threads \union {Free}]
    BY <1>10, <1>d, <1>f, <1>p DEF PopLock, Lock
  <2>2. TypeOK'
    BY <1>10, <1>d, <1>t, <1>f, <2>1 DEF PopLock, TypeOK, Places, Counts
  <2>3. PlacesInv'
    BY <1>10, <1>d, <1>t, <1>f DEF PopLock, PlacesInv
  <2> QED
    BY <2>2, <2>3 DEF TypeInv
<1>11. ASSUME NEW w \in Workers, Pop(w) PROVE TypeInv'
  <2>0. /\ \/ /\ queue[w] # <<>>
              /\ fn' = [fn EXCEPT ![w] = Head(queue[w]).fn]
              /\ queue' = [queue EXCEPT ![w] = Tail(@)]
              /\ pc' = [pc EXCEPT ![w] = "run"]
           \/ /\ fn' = fn /\ queue' = queue
              /\ \E p \in {"exited", "waiting"} : pc' = [pc EXCEPT ![w] = p]
        /\ mutex' = [mutex EXCEPT ![w] = Free]
    BY <1>11, Zenon DEF Pop, Take, Unlock
  <2>1. pc' \in [Threads -> Places] /\ mutex' \in [Workers -> Threads \union {Free}]
    <3>1. pc' \in [Threads -> Places]
      BY <1>k, <2>0
    <3> QED
      BY <1>tm, <2>0, <3>1
  <2>2. queue[w] # <<>> => /\ Head(queue[w]) \in [fn : Items, can_steal : BOOLEAN]
                           /\ Tail(queue[w]) \in Seq([fn : Items, can_steal : BOOLEAN])
    BY <1>f, TailOf
  <2>3. /\ queue' \in [Workers -> Seq([fn : Items, can_steal : BOOLEAN])]
        /\ fn' \in [Threads -> Items \union {NullFn}]
        /\ pc'[w] = "run" => fn'[w] \in Items
    <3>1. CASE fn' = fn /\ queue' = queue /\ \E p \in {"exited", "waiting"} : pc' = [pc EXCEPT ![w] = p]
      BY <1>d, <1>tp, <1>tq, <3>1
    <3>2. CASE /\ queue[w] # <<>>
               /\ fn' = [fn EXCEPT ![w] = Head(queue[w]).fn]
               /\ queue' = [queue EXCEPT ![w] = Tail(@)]
      <4>1. Head(queue[w]).fn \in Items
        BY <2>2, <3>2
      <4>2. fn' \in [Threads -> Items \union {NullFn}] /\ fn'[w] \in Items
        BY <1>d, <1>tq, <3>2, <4>1
      <4>3. queue' \in [Workers -> Seq([fn : Items, can_steal : BOOLEAN])]
        BY <1>tq, <2>2, <3>2
      <4> QED
        BY <4>2, <4>3
    <3> QED
      BY <2>0, <3>1, <3>2
  <2>4. TypeOK'
    BY <1>11, <1>d, <1>t, <1>f, <2>1, <2>3 DEF Pop, TypeOK, Places, Counts
  <2>5. /\ pc'[w] \in {"run", "exited", "waiting"} /\ n' = n
        /\ \A u \in Threads \ {w} : pc'[u] = pc[u] /\ fn'[u] = fn[u]
    BY <1>11, <1>d, <1>f DEF Pop, Take
  <2>6. PlacesInv'
    BY <1>d, <1>t, <1>f, <2>3, <2>5 DEF PlacesInv
  <2> QED
    BY <2>4, <2>6 DEF TypeInv
<1>12. ASSUME NEW w \in Workers, SpuriousWakeup(w) PROVE TypeInv'
  <2>1. pc' \in [Threads -> Places]
    BY <1>12, <1>d, <1>f, <1>p DEF SpuriousWakeup
  <2>2. use.max_spurious \in Nat /\ spurious \in 0 .. use.max_spurious
    BY <1>d, <1>t, <1>f, ItemsAssumption DEF TypeOK
  <2>3. spurious' \in 0 .. use'.max_spurious
    BY <1>12, <2>2 DEF SpuriousWakeup
  <2>4. TypeOK'
    BY <1>12, <1>d, <1>t, <1>f, <2>1, <2>3 DEF SpuriousWakeup, TypeOK, Places, Counts
  <2>5. PlacesInv'
    BY <1>12, <1>d, <1>t, <1>f DEF SpuriousWakeup, PlacesInv
  <2> QED
    BY <2>4, <2>5 DEF TypeInv
<1>13. ASSUME NEW w \in Workers, RunItem(w) PROVE TypeInv'
  <2>1. fn[w] \in Items /\ <<w, fn[w]>> \in Workers \X Items
    BY <1>13, <1>d, <1>t, <1>f DEF RunItem, PlacesInv
  <2>2. ran' \in Seq(Workers \X Items)
    BY <1>13, <1>d, <1>t, <1>f, <2>1, AppendOf DEF RunItem, TypeOK
  <2>3. /\ fn' \in [Threads -> Items \union {NullFn}]
        /\ n' \in [Threads -> Counts]
    <3>1. Child[fn[w]] \in Items \union {NullFn}
      BY <1>t, <2>1, UseTypes
    <3>2. fn' = [fn EXCEPT ![w] = Child[fn[w]]] /\ n' = [n EXCEPT ![w] = 0]
      BY <1>13 DEF RunItem
    <3> QED
      BY <1>f, <1>n, <3>1, <3>2
  <2>4. pc' \in [Threads -> Places] /\ pc'[w] \in {"steal", "pop", "check"}
    BY <1>13, <1>d, <1>f, <1>p DEF RunItem, LoopTop
  <2>5. TypeOK'
    BY <1>13, <1>d, <1>t, <1>f, <2>2, <2>3, <2>4 DEF RunItem, TypeOK, Places, Counts
  <2>6. \A u \in Threads \ {w} : pc'[u] = pc[u] /\ fn'[u] = fn[u] /\ n'[u] = n[u]
    BY <1>13, <1>d, <1>f DEF RunItem
  <2>7. PlacesInv'
    BY <1>d, <1>t, <1>f, <2>4, <2>6 DEF PlacesInv
  <2> QED
    BY <2>5, <2>7 DEF TypeInv
<1>14. ASSUME DestroyerStep PROVE TypeInv'
  <2>1. CASE BeginDestroy \/ Join
    <3>0. /\ \/ /\ pc' = [pc EXCEPT ![Destroyer] = "stop_lock"]
                /\ n' = [n EXCEPT ![Destroyer] = 0]
             \/ /\ pc' = [pc EXCEPT ![Destroyer] = "gone"] /\ n' = n
          /\ fn' = fn
      BY <2>1, Zenon DEF BeginDestroy, Join
    <3>1. pc' \in [Threads -> Places] /\ n' \in [Threads -> Counts]
      <4>1. pc' \in [Threads -> Places]
        BY <1>k, <3>0
      <4> QED
        BY <1>tn, <1>n0, <3>0, <4>1
    <3>2. TypeOK'
      BY <2>1, <1>t, <3>1 DEF BeginDestroy, Join, TypeOK, Places, Counts
    <3>3. PlacesInv'
      BY <1>d, <1>t, <1>f, <3>0 DEF PlacesInv
    <3> QED
      BY <3>2, <3>3 DEF TypeInv
  <2>2. CASE StopLock \/ Stop
    <3>1. n[Destroyer] \in Workers
      BY <2>2, <1>d, <1>t, <1>f, <1>n DEF StopLock, Stop, PlacesInv
    <3>2. /\ pc' \in [Threads -> Places] /\ mutex' \in [Workers -> Threads \union {Free}]
          /\ qstop' \in [Workers -> BOOLEAN]
      <4>1. /\ \E p \in {"stopping", "notify_all"} : pc' = [pc EXCEPT ![Destroyer] = p]
            /\ \E m \in {Destroyer, Free} : mutex' = [mutex EXCEPT ![n[Destroyer]] = m]
            /\ qstop' = qstop \/ qstop' = [qstop EXCEPT ![n[Destroyer]] = TRUE]
        BY <2>2, Zenon DEF StopLock, Stop, Lock, Unlock
      <4>2. qstop \in [Workers -> BOOLEAN]
        BY <1>t DEF TypeOK
      <4>3. pc' \in [Threads -> Places]
        BY <1>k, <4>1
      <4>4. mutex' \in [Workers -> Threads \union {Free}]
        BY <1>d, <1>tm, <3>1, <4>1
      <4>5. qstop' \in [Workers -> BOOLEAN]
        BY <4>1, <4>2
      <4> QED
        BY <4>3, <4>4, <4>5
    <3>3. TypeOK'
      BY <2>2, <1>d, <1>t, <1>f, <3>2 DEF StopLock, Stop, TypeOK, Places, Counts
    <3>4. PlacesInv'
      BY <2>2, <1>d, <1>t, <1>f DEF StopLock, Stop, PlacesInv
    <3> QED
      BY <3>3, <3>4 DEF TypeInv
  <2>3. CASE NotifyAll
    <3>1. n[Destroyer] < thread_num_
      BY <2>3, <1>d, <1>t, <1>f DEF NotifyAll, PlacesInv
    <3>2. pc' \in [Threads -> Places] /\ n' \in [Threads -> Counts]
      <4>1. n[Destroyer] + 1 \in Counts
        BY <1>d, <1>f, <1>n, <3>1
      <4>2. n' = [n EXCEPT ![Destroyer] = n[Destroyer] + 1]
        BY <2>3 DEF NotifyAll
      <4>3. pc' \in [Threads -> Places]
        BY <2>3, <1>d, <1>f, <1>p DEF NotifyAll
      <4> QED
        BY <1>d, <1>f, <4>1, <4>2, <4>3
    <3>3. TypeOK'
      BY <2>3, <1>d, <1>t, <1>f, <3>2 DEF NotifyAll, TypeOK, Places, Counts
    <3>4. /\ pc'[Destroyer] = "stop_lock" => n'[Destroyer] < thread_num_
          /\ pc'[Destroyer] \in {"join", "stop_lock"}
          /\ \A u \in Threads \ {Destroyer} : pc'[u] \in {pc[u], "pop"} /\ n'[u] = n[u]
      <4>1. n' = [n EXCEPT ![Destroyer] = @ + 1]
        BY <2>3 DEF NotifyAll
      <4>2. \A u \in Threads \ {Destroyer} : pc'[u] \in {pc[u], "pop"}
        BY <2>3 DEF NotifyAll
      <4>3. pc'[Destroyer] = IF n[Destroyer] + 1 = thread_num_ THEN "join" ELSE "stop_lock"
        BY <2>3, <1>d DEF NotifyAll
      <4>4. n[Destroyer] \in Nat
        BY <1>d, <1>tn DEF Counts
      <4> QED
        BY <1>d, <1>tn, <3>1, <4>1, <4>2, <4>3, <4>4
    <3>5. PlacesInv'
      BY <2>3, <1>d, <1>t, <1>f, <3>4 DEF NotifyAll, PlacesInv
    <3> QED
      BY <3>3, <3>5 DEF TypeInv
  <2> QED
    BY <1>14, <2>1, <2>2, <2>3 DEF DestroyerStep
<1>15. CASE UNCHANGED vars
  <2>1. TypeOK'
    BY <1>15, <1>t DEF vars, TypeOK
  <2>2. PlacesInv'
    BY <1>15, <1>t DEF vars, PlacesInv
  <2> QED
    BY <2>1, <2>2 DEF TypeInv
<1> QED
  <2>1. \A t \in Clients \union Workers : t \in Threads \ {Destroyer}
    BY <1>d
  <2>2. [Next]_vars
    BY <1>0
  <2> QED
    BY <2>1, <2>2, <1>1, <1>2, <1>3, <1>4, <1>5, <1>6, <1>7, <1>8, <1>9, <1>10, <1>11, <1>12,
       <1>13, <1>14, <1>15, Zenon
       DEF Next, ScheduleStep, WorkerStep, Terminated

\* Every reachable state of the pool has the types of TypeOK: in particular at[t],
\* which comes from rand() % thread_num_, from an index that goes twice round and
\* from the id of ScheduleById, is always one of the queues (thread_pool.hpp).
THEOREM TypesHold == Spec => []TypeOK
<1>1. TypeInv => TypeOK
  BY DEF TypeInv
<1> QED
  BY TypeInit, TypeStep, <1>1, PTL DEF Spec

-----------------------------------------------------------------------------
(* An item that was scheduled with an id stays with that worker from its     *)
(* push to its run.                                                          *)
AtHome(i, w) == Pin[i] = -1 \/ Pin[i] = w

ThreadAtHome(t) ==
    /\ pc[t] = "try_push" => Pin[fn[t]] = -1
    /\ pc[t] \in {"push", "pushing"} => AtHome(fn[t], at[t])
    /\ pc[t] = "run" => AtHome(fn[t], t)

\* TryPopIf looks at can_steal, not at the pin: the two have to agree.
QueueAtHome(q) ==
    \A k \in DOMAIN queue[q] :
        /\ AtHome(queue[q][k].fn, q)
        /\ queue[q][k].can_steal => Pin[queue[q][k].fn] = -1

PinInv ==
    /\ \A t \in Threads : ThreadAtHome(t)
    /\ \A q \in Workers : QueueAtHome(q)
    /\ PinnedRunsAtHome

LEMMA PinInit == Init => PinInv
<1> SUFFICES ASSUME Init PROVE PinInv
  OBVIOUS
<1>1. \A t \in Threads : ThreadAtHome(t)
  BY DEF Init, ThreadAtHome
<1>2. \A q \in Workers : QueueAtHome(q)
  BY DEF Init, QueueAtHome
<1>3. PinnedRunsAtHome
  BY DEF Init, PinnedRunsAtHome
<1> QED
  BY <1>1, <1>2, <1>3 DEF PinInv

\* The use of the pool is chosen once.
LEMMA UseFixed == [Next]_vars => use' = use
<1> SUFFICES ASSUME [Next]_vars PROVE use' = use
  OBVIOUS
<1>1. ASSUME NEW t, CallSchedule(t) \/ ScheduleStep(t) PROVE use' = use
  BY <1>1, Zenon DEF CallSchedule, ScheduleStep, ScheduleById, TryPush, PushLock, Push, NotifyOne,
     SyncReturn
<1>2. ASSUME NEW w, WorkerStep(w) \/ SpuriousWakeup(w) PROVE use' = use
  BY <1>2, Zenon DEF WorkerStep, TrySteal, TryPopIf, PopLock, Pop, RunItem, SpuriousWakeup
<1>3. ASSUME DestroyerStep PROVE use' = use
  BY <1>3, Zenon DEF DestroyerStep, BeginDestroy, StopLock, Stop, NotifyAll, Join
<1>4. CASE UNCHANGED vars
  BY <1>4 DEF vars
<1> QED
  BY <1>1, <1>2, <1>3, <1>4, Zenon DEF Next, Terminated

\* A step of thread t that leaves the other threads where they were, or wakes one.
LEMMA OthersAtHome ==
    ASSUME NEW t \in Threads, PinInv, use' = use, ThreadAtHome(t)',
           \A u \in Threads \ {t} :
             fn'[u] = fn[u] /\ at'[u] = at[u] /\ pc'[u] \in {pc[u], "pop"}
    PROVE  \A u \in Threads : ThreadAtHome(u)'
<1> SUFFICES ASSUME NEW u \in Threads \ {t} PROVE ThreadAtHome(u)'
  OBVIOUS
<1>1. ThreadAtHome(u)
  BY DEF PinInv
<1> QED
  BY <1>1 DEF ThreadAtHome, AtHome, Pin

\* A step that pushes nothing, takes nothing and begins no closure.
LEMMA QueuesAtHome ==
    ASSUME PinInv, use' = use, queue' = queue, ran' = ran
    PROVE  (\A q \in Workers : QueueAtHome(q)') /\ PinnedRunsAtHome'
BY DEF PinInv, QueueAtHome, PinnedRunsAtHome, AtHome, Pin

LEMMA PinStep == TypeInv /\ PinInv /\ [Next]_vars => PinInv'
<1>0. SUFFICES ASSUME TypeInv, PinInv, [Next]_vars PROVE PinInv'
  OBVIOUS
<1>u. use' = use
  BY <1>0, UseFixed
<1>d. /\ Clients \subseteq Threads /\ Workers \subseteq Threads /\ Destroyer \in Threads
      /\ Destroyer \notin Clients \union Workers
      /\ -1 \notin Workers
  BY ThreadsAssumption DEF Threads, Workers
<1>f. /\ fn \in [Threads -> Items \union {NullFn}] /\ at \in [Threads -> Workers]
      /\ queue \in [Workers -> Seq([fn : Items, can_steal : BOOLEAN])]
      /\ ran \in Seq(Workers \X Items)
      /\ DOMAIN pc = Threads /\ DOMAIN n = Threads
  BY <1>0 DEF TypeInv, TypeOK
<1>h. /\ \A t \in Threads : ThreadAtHome(t)
      /\ \A q \in Workers : QueueAtHome(q)
  BY <1>0 DEF PinInv
<1>i. \A t \in Threads : pc[t] \in {"pushing", "run"} => fn[t] \in Items
  BY <1>0 DEF TypeInv, PlacesInv
<1>p. Pin \in [Items -> Workers \union {-1}]
  BY <1>0, UseTypes DEF TypeInv
<1>r. ASSUME NEW t PROVE ReturnPlace(t) \in {"steal", "pop", "ready"}
  BY DEF ReturnPlace, LoopTop
<1>a. ASSUME NEW t PROVE AcceptedPlace(t) \in {"acquire", "steal", "pop", "ready"}
  BY <1>r DEF AcceptedPlace
<1> USE DEF Goto, At, queues, history
<1>1. ASSUME NEW t \in Clients, CallSchedule(t) PROVE PinInv'
  <2>1. queue' = queue /\ ran' = ran
    BY <1>1, Zenon DEF CallSchedule
  <2>2. ThreadAtHome(t)'
    BY <1>1, <1>d, <1>u, <1>f, <1>h DEF CallSchedule, ThreadAtHome, AtHome, Pin
  <2>3. \A u \in Threads \ {t} :
          fn'[u] = fn[u] /\ at'[u] = at[u] /\ pc'[u] \in {pc[u], "pop"}
    BY <1>1, <1>d, <1>f DEF CallSchedule
  <2> QED
    BY <1>d, <1>0, <1>u, <2>1, <2>2, <2>3, OthersAtHome, QueuesAtHome DEF PinInv
<1>2. ASSUME NEW t \in Threads \ {Destroyer}, ScheduleById(t) PROVE PinInv'
  <2>1. queue' = queue /\ ran' = ran /\ fn' = fn
    BY <1>2, Zenon DEF ScheduleById
  <2>2. \/ \E p \in {"steal", "pop", "ready"} : pc' = [pc EXCEPT ![t] = p]
        \/ Pin[fn[t]] = -1 /\ \E p \in {"try_push", "push"} : pc' = [pc EXCEPT ![t] = p]
        \/ pc' = [pc EXCEPT ![t] = "push"] /\ at' = [at EXCEPT ![t] = Pin[fn[t]]]
    BY <1>2, <1>r, Zenon DEF ScheduleById
  <2>3. ThreadAtHome(t)'
    BY <1>u, <1>f, <2>1, <2>2 DEF ThreadAtHome, AtHome, Pin
  <2>4. \A u \in Threads \ {t} :
          fn'[u] = fn[u] /\ at'[u] = at[u] /\ pc'[u] \in {pc[u], "pop"}
    BY <1>2, <1>d, <1>f DEF ScheduleById
  <2> QED
    BY <1>0, <1>u, <2>1, <2>3, <2>4, OthersAtHome, QueuesAtHome DEF PinInv
<1>3. ASSUME NEW t \in Threads \ {Destroyer}, TryPush(t) PROVE PinInv'
  <2>1. queue' = queue /\ ran' = ran
    BY <1>3, Zenon DEF TryPush
  <2>2. ThreadAtHome(t)'
    BY <1>3, <1>d, <1>u, <1>f, <1>h DEF TryPush, ThreadAtHome, AtHome, Pin
  <2>3. \A u \in Threads \ {t} :
          fn'[u] = fn[u] /\ at'[u] = at[u] /\ pc'[u] \in {pc[u], "pop"}
    BY <1>3, <1>d, <1>f DEF TryPush
  <2> QED
    BY <1>d, <1>0, <1>u, <2>1, <2>2, <2>3, OthersAtHome, QueuesAtHome DEF PinInv
<1>4. ASSUME NEW t \in Threads \ {Destroyer}, PushLock(t) PROVE PinInv'
  <2>1. queue' = queue /\ ran' = ran
    BY <1>4, Zenon DEF PushLock
  <2>2. ThreadAtHome(t)'
    BY <1>4, <1>d, <1>u, <1>f, <1>h DEF PushLock, ThreadAtHome, AtHome, Pin
  <2>3. \A u \in Threads \ {t} :
          fn'[u] = fn[u] /\ at'[u] = at[u] /\ pc'[u] \in {pc[u], "pop"}
    BY <1>4, <1>d, <1>f DEF PushLock
  <2> QED
    BY <1>d, <1>0, <1>u, <2>1, <2>2, <2>3, OthersAtHome, QueuesAtHome DEF PinInv
<1>5. ASSUME NEW t \in Threads \ {Destroyer}, Push(t) PROVE PinInv'
  <2>1. /\ fn[t] \in Items /\ at[t] \in Workers /\ AtHome(fn[t], at[t])
        /\ fn' = fn /\ at' = at /\ ran' = ran /\ pc' = [pc EXCEPT ![t] = "notify"]
        /\ queue' = [queue EXCEPT ![at[t]] = Append(@, WorkItem(fn[t]))]
    BY <1>5, <1>f, <1>h, <1>i DEF Push, ThreadAtHome
  <2>2. WorkItem(fn[t]) \in [fn : Items, can_steal : BOOLEAN]
    BY <1>0, <2>1, UseTypes DEF TypeInv
  <2>3. ASSUME NEW q \in Workers PROVE QueueAtHome(q)'
    <3>1. CASE q = at[t]
      <4>1. queue'[q] = Append(queue[q], WorkItem(fn[t]))
        BY <1>f, <2>1, <3>1
      <4>2. ASSUME NEW k \in DOMAIN queue'[q]
            PROVE  \/ k \in DOMAIN queue[q] /\ queue'[q][k] = queue[q][k]
                   \/ queue'[q][k] = WorkItem(fn[t])
        BY <1>f, <2>2, <4>1, AppendOf
      <4>3. AtHome(WorkItem(fn[t]).fn, q) /\ (WorkItem(fn[t]).can_steal => Pin[fn[t]] = -1)
        BY <2>1, <3>1 DEF WorkItem
      <4> QED
        BY <1>h, <1>u, <4>2, <4>3 DEF QueueAtHome, AtHome, Pin, WorkItem
    <3>2. CASE q # at[t]
      BY <1>f, <1>h, <1>u, <2>1, <3>2 DEF QueueAtHome, AtHome, Pin
    <3> QED
      BY <3>1, <3>2
  <2>4. ThreadAtHome(t)'
    BY <1>f, <2>1 DEF ThreadAtHome
  <2>5. \A u \in Threads \ {t} :
          fn'[u] = fn[u] /\ at'[u] = at[u] /\ pc'[u] \in {pc[u], "pop"}
    BY <1>f, <2>1
  <2>6. PinnedRunsAtHome'
    BY <1>0, <1>u, <2>1 DEF PinInv, PinnedRunsAtHome, Pin
  <2> QED
    BY <1>0, <1>u, <2>3, <2>4, <2>5, <2>6, OthersAtHome DEF PinInv
<1>6. ASSUME NEW t \in Threads \ {Destroyer}, NotifyOne(t) PROVE PinInv'
  <2>1. queue' = queue /\ ran' = ran
    BY <1>6, Zenon DEF NotifyOne
  <2>2. ThreadAtHome(t)'
    BY <1>6, <1>a, <1>u, <1>f DEF NotifyOne, ThreadAtHome, AtHome, Pin
  <2>3. \A u \in Threads \ {t} :
          fn'[u] = fn[u] /\ at'[u] = at[u] /\ pc'[u] \in {pc[u], "pop"}
    BY <1>6, <1>d, <1>f DEF NotifyOne
  <2> QED
    BY <1>d, <1>0, <1>u, <2>1, <2>2, <2>3, OthersAtHome, QueuesAtHome DEF PinInv
<1>7. ASSUME NEW t \in Threads \ {Destroyer}, SyncReturn(t) PROVE PinInv'
  <2>1. queue' = queue /\ ran' = ran
    BY <1>7, Zenon DEF SyncReturn
  <2>2. ThreadAtHome(t)'
    BY <1>7, <1>r, <1>u, <1>f DEF SyncReturn, ThreadAtHome, AtHome, Pin
  <2>3. \A u \in Threads \ {t} :
          fn'[u] = fn[u] /\ at'[u] = at[u] /\ pc'[u] \in {pc[u], "pop"}
    BY <1>7, <1>d, <1>f DEF SyncReturn
  <2> QED
    BY <1>d, <1>0, <1>u, <2>1, <2>2, <2>3, OthersAtHome, QueuesAtHome DEF PinInv
<1>8. ASSUME NEW w \in Workers, TrySteal(w) PROVE PinInv'
  <2>1. queue' = queue /\ ran' = ran
    BY <1>8, Zenon DEF TrySteal
  <2>2. ThreadAtHome(w)'
    BY <1>8, <1>d, <1>u, <1>f, <1>h DEF TrySteal, ThreadAtHome, AtHome, Pin
  <2>3. \A u \in Threads \ {w} :
          fn'[u] = fn[u] /\ at'[u] = at[u] /\ pc'[u] \in {pc[u], "pop"}
    BY <1>8, <1>d, <1>f DEF TrySteal
  <2> QED
    BY <1>d, <1>0, <1>u, <2>1, <2>2, <2>3, OthersAtHome, QueuesAtHome DEF PinInv
<1>9. ASSUME NEW w \in Workers, NEW q \in Workers, queue[q] # <<>>, Take(w, q),
             q = w \/ Head(queue[q]).can_steal, at' = at, ran' = ran
      PROVE  PinInv'
  <2>1. /\ Head(queue[q]) = queue[q][1] /\ 1 \in DOMAIN queue[q]
        /\ \A k \in DOMAIN Tail(queue[q]) :
             k + 1 \in DOMAIN queue[q] /\ Tail(queue[q])[k] = queue[q][k + 1]
    BY <1>9, <1>f, TailOf
  <2>2. /\ fn' = [fn EXCEPT ![w] = queue[q][1].fn] /\ pc' = [pc EXCEPT ![w] = "run"]
        /\ queue' = [queue EXCEPT ![q] = Tail(@)]
    BY <1>9, <2>1 DEF Take
  <2>3. AtHome(queue[q][1].fn, w)
    BY <1>9, <1>h, <2>1 DEF QueueAtHome, AtHome
  <2>4. ThreadAtHome(w)'
    BY <1>d, <1>u, <1>f, <2>2, <2>3 DEF ThreadAtHome, AtHome, Pin
  <2>5. ASSUME NEW x \in Workers PROVE QueueAtHome(x)'
    <3>1. CASE x = q
      <4>1. queue'[x] = Tail(queue[q])
        BY <1>f, <2>2, <3>1
      <4> QED
        BY <1>h, <1>u, <2>1, <3>1, <4>1 DEF QueueAtHome, AtHome, Pin
    <3>2. CASE x # q
      BY <1>f, <1>h, <1>u, <2>2, <3>2 DEF QueueAtHome, AtHome, Pin
    <3> QED
      BY <3>1, <3>2
  <2>6. \A u \in Threads \ {w} :
          fn'[u] = fn[u] /\ at'[u] = at[u] /\ pc'[u] \in {pc[u], "pop"}
    BY <1>9, <1>f, <2>2
  <2>7. PinnedRunsAtHome'
    BY <1>0, <1>9, <1>u DEF PinInv, PinnedRunsAtHome, Pin
  <2> QED
    BY <1>0, <1>d, <1>u, <2>4, <2>5, <2>6, <2>7, OthersAtHome DEF PinInv
<1>10. ASSUME NEW w \in Workers, fn' = fn, at' = at, queue' = queue, ran' = ran,
              NEW p \in {"steal", "popping", "pop", "exited", "waiting"}, pc' = [pc EXCEPT ![w] = p]
       PROVE  PinInv'
  <2>1. ThreadAtHome(w)'
    BY <1>10, <1>d, <1>f DEF ThreadAtHome
  <2>2. \A u \in Threads \ {w} :
          fn'[u] = fn[u] /\ at'[u] = at[u] /\ pc'[u] \in {pc[u], "pop"}
    BY <1>10, <1>f
  <2> QED
    BY <1>0, <1>10, <1>d, <1>u, <2>1, <2>2, OthersAtHome, QueuesAtHome DEF PinInv
<1>11. ASSUME NEW w \in Workers, TryPopIf(w) PROVE PinInv'
  <2>1. at' = at /\ ran' = ran /\ at[w] \in Workers
    BY <1>11, <1>d, <1>f DEF TryPopIf
  <2>2. \/ /\ queue[at[w]] # <<>> /\ Head(queue[at[w]]).can_steal /\ Take(w, at[w])
        \/ /\ fn' = fn /\ queue' = queue /\ pc' = [pc EXCEPT ![w] = "steal"]
    BY <1>11, Zenon DEF TryPopIf
  <2> QED
    BY <1>9, <1>10, <2>1, <2>2
<1>12. ASSUME NEW w \in Workers, PopLock(w) PROVE PinInv'
  BY <1>10, <1>12 DEF PopLock
<1>13. ASSUME NEW w \in Workers, Pop(w) PROVE PinInv'
  <2>1. at' = at /\ ran' = ran
    BY <1>13 DEF Pop
  <2>2. \/ /\ queue[w] # <<>> /\ Take(w, w)
        \/ /\ fn' = fn /\ queue' = queue
           /\ \E p \in {"exited", "waiting"} : pc' = [pc EXCEPT ![w] = p]
    BY <1>13, Zenon DEF Pop
  <2> QED
    BY <1>9, <1>10, <2>1, <2>2
<1>14. ASSUME NEW w \in Workers, SpuriousWakeup(w) PROVE PinInv'
  BY <1>10, <1>14 DEF SpuriousWakeup
<1>15. ASSUME NEW w \in Workers, RunItem(w) PROVE PinInv'
  <2>1. /\ queue' = queue /\ at' = at /\ ran' = Append(ran, <<w, fn[w]>>)
        /\ \E p \in {"steal", "pop", "check"} : pc' = [pc EXCEPT ![w] = p]
        /\ \E i : fn' = [fn EXCEPT ![w] = i]
    BY <1>15, Zenon DEF RunItem, LoopTop
  <2>2. fn[w] \in Items /\ AtHome(fn[w], w)
    BY <1>15, <1>d, <1>h, <1>i DEF RunItem, ThreadAtHome
  <2>3. <<w, fn[w]>> \in Workers \X Items
    BY <2>2
  <2>4. PinnedRunsAtHome'
    <3>1. ASSUME NEW k \in DOMAIN ran'
          PROVE  \/ k \in DOMAIN ran /\ ran'[k] = ran[k]
                 \/ ran'[k] = <<w, fn[w]>>
      BY <1>f, <2>1, <2>3, AppendOf
    <3>2. \A k \in DOMAIN ran : Pin[ran[k][2]] # -1 => ran[k][1] = Pin[ran[k][2]]
      BY <1>0 DEF PinInv, PinnedRunsAtHome
    <3> QED
      BY <1>u, <2>2, <3>1, <3>2 DEF PinnedRunsAtHome, AtHome, Pin
  <2>5. ThreadAtHome(w)'
    BY <1>d, <1>f, <2>1 DEF ThreadAtHome
  <2>6. \A u \in Threads \ {w} :
          fn'[u] = fn[u] /\ at'[u] = at[u] /\ pc'[u] \in {pc[u], "pop"}
    BY <1>f, <2>1
  <2>7. \A q \in Workers : QueueAtHome(q)'
    BY <1>h, <1>u, <2>1 DEF QueueAtHome, AtHome, Pin
  <2> QED
    BY <1>0, <1>d, <1>u, <2>4, <2>5, <2>6, <2>7, OthersAtHome DEF PinInv
<1>16. ASSUME DestroyerStep PROVE PinInv'
  <2>1. queue' = queue /\ ran' = ran /\ fn' = fn /\ at' = at
    BY <1>16, Zenon DEF DestroyerStep, BeginDestroy, StopLock, Stop, NotifyAll, Join
  <2>2. \A u \in Threads \ {Destroyer} : pc'[u] \in {pc[u], "pop"}
    BY <1>16, <1>f DEF DestroyerStep, BeginDestroy, StopLock, Stop, NotifyAll, Join
  <2>3. pc'[Destroyer] \in {"stop_lock", "stopping", "notify_all", "join", "gone"}
    BY <1>16, <1>d, <1>f DEF DestroyerStep, BeginDestroy, StopLock, Stop, NotifyAll, Join
  <2>4. ThreadAtHome(Destroyer)'
    BY <2>3 DEF ThreadAtHome
  <2> QED
    BY <1>0, <1>d, <1>u, <2>1, <2>2, <2>4, OthersAtHome, QueuesAtHome DEF PinInv
<1>17. CASE UNCHANGED vars
  BY <1>17, <1>0 DEF vars, PinInv, ThreadAtHome, QueueAtHome, AtHome, Pin, PinnedRunsAtHome
<1> QED
  <2>1. \A t \in Clients \union Workers : t \in Threads \ {Destroyer}
    BY <1>d
  <2> QED
    BY <1>0, <2>1, <1>1, <1>2, <1>3, <1>4, <1>5, <1>6, <1>7, <1>8, <1>11, <1>12, <1>13, <1>14,
       <1>15, <1>16, <1>17, Zenon
       DEF Next, ScheduleStep, WorkerStep, Terminated

\* ScheduleById(f, id) runs f on worker id and nowhere else, whatever the other
\* workers steal: Checkin (Executor) relies on it to come back to the thread a
\* coroutine was checked out on.
THEOREM PinnedItemsStay == Spec => []PinnedRunsAtHome
<1>1. PinInv => PinnedRunsAtHome
  BY DEF PinInv
<1> QED
  BY TypeInit, TypeStep, PinInit, PinStep, <1>1, PTL DEF Spec
-----------------------------------------------------------------------------
(* Where an item is: still to be scheduled, in the hands of a thread, queued, *)
(* or begun.                                                                 *)
InTodo(i)   == \E x \in Clients : \E k \in DOMAIN todo[x] : todo[x][k] = i
Flying      == {"check", "try_push", "push", "pushing", "run"}
InFlight(i) == \E t \in Threads : pc[t] \in Flying /\ fn[t] = i
InQueue(i)  == \E q \in Workers : \E k \in DOMAIN queue[q] : queue[q][k].fn = i
Held(i)     == \E w \in Workers : pc[w] = "run" /\ fn[w] = i
HasBegun(i) == \E k \in DOMAIN ran : ran[k][2] = i
Copied(i)   == InQueue(i) \/ Held(i) \/ HasBegun(i)

\* Every closure is handed in once: by one client, or by one other closure.
EachScheduledOnce ==
    \A u \in Usages :
        /\ \A x, y \in Clients : \A k \in DOMAIN u.program[x], l \in DOMAIN u.program[y] :
              u.program[x][k] = u.program[y][l] /\ u.program[x][k] \in Items => x = y /\ k = l
        /\ \A p, r \in Items : u.child[p] = u.child[r] /\ u.child[p] \in Items => p = r
        /\ \A p \in Items, x \in Clients : \A k \in DOMAIN u.program[x] :
              u.child[p] \in Items => u.program[x][k] # u.child[p]

\* No item is at two places.
OnePlace ==
    /\ \A x, y \in Clients : \A k \in DOMAIN todo[x], l \in DOMAIN todo[y] :
          todo[x][k] = todo[y][l] /\ todo[x][k] \in Items => x = y /\ k = l
    /\ \A t, u \in Threads :
          {pc[t], pc[u]} \subseteq Flying /\ fn[t] = fn[u] /\ fn[t] \in Items => t = u
    /\ \A q, r \in Workers : \A k \in DOMAIN queue[q], l \in DOMAIN queue[r] :
          queue[q][k].fn = queue[r][l].fn => q = r /\ k = l
    /\ \A k, l \in DOMAIN ran : ran[k][2] = ran[l][2] => k = l

OneStage ==
    \A i \in Items :
        /\ InTodo(i) => ~InFlight(i) /\ ~InQueue(i) /\ ~HasBegun(i)
        /\ InFlight(i) => ~InQueue(i) /\ ~HasBegun(i)
        /\ InQueue(i) => ~HasBegun(i)

\* What a closure schedules does not exist before the closure has begun.
ChildAfterParent ==
    \A p \in Items : Child[p] \in Items =>
        /\ ~InTodo(Child[p])
        /\ InFlight(Child[p]) \/ InQueue(Child[p]) \/ HasBegun(Child[p]) => HasBegun(p)

\* What was pushed is not lost.
NothingLost ==
    /\ \A i \in accepted : Copied(i)
    /\ \A t \in Threads : pc[t] = "notify" => Copied(fn[t])

ItemsInv == OnePlace /\ OneStage /\ ChildAfterParent /\ NothingLost

\* pushed[w] is what has begun on w, then what w holds, then what is queued.
PushedOnce ==
    \A w \in Workers :
        /\ \A m \in DOMAIN pushed[w] : Pin[pushed[w][m]] = w /\ Copied(pushed[w][m])
        /\ \A m, l \in DOMAIN pushed[w] : pushed[w][m] = pushed[w][l] => m = l
        /\ \A i \in Items : Pin[i] = w /\ Copied(i) => \E m \in DOMAIN pushed[w] : pushed[w][m] = i

BeforeIn(w, i, j) == \E m \in DOMAIN pushed[w] : pushed[w][m] = j /\ \E l \in 1 .. m - 1 : pushed[w][l] = i

InOrder ==
    \A w \in Workers, i, j \in Items : BeforeIn(w, i, j) =>
        /\ \A k, l \in DOMAIN queue[w] : queue[w][k].fn = i /\ queue[w][l].fn = j => k < l
        /\ pc[w] = "run" /\ fn[w] = j => HasBegun(i)
        /\ \A l \in DOMAIN ran : ran[l][2] = j => \E k \in 1 .. l - 1 : ran[k][2] = i

OrderInv == PushedOnce /\ InOrder
-----------------------------------------------------------------------------
(* The steps, by what they do to the items.                                 *)
OthersStay(t) == \A u \in Threads \ {t} : pc'[u] = pc[u] /\ fn'[u] = fn[u]

\* No item moves, though one may be refused, or its push reported to the scheduler.
Quiet ==
    /\ UNCHANGED <<todo, queue, ran, pushed>>
    /\ \A t \in Threads : pc'[t] \in Flying => pc[t] \in Flying /\ fn'[t] = fn[t]
    /\ \A w \in Workers : (pc'[w] = "run" <=> pc[w] = "run") /\ (pc[w] = "run" => fn'[w] = fn[w])
    /\ \A t \in Threads : pc'[t] = "notify" => pc[t] = "notify" /\ fn'[t] = fn[t]
    /\ \A i \in accepted' : i \in accepted \/ \E t \in Threads : pc[t] = "notify" /\ fn[t] = i

Calling(t) ==
    /\ pc[t] = "ready" /\ pc'[t] = "check" /\ OthersStay(t)
    /\ todo[t] # <<>> /\ fn'[t] = Head(todo[t]) /\ todo' = [todo EXCEPT ![t] = Tail(@)]
    /\ UNCHANGED <<queue, ran, pushed, accepted>>

Pushing(t) ==
    /\ pc[t] = "pushing" /\ pc'[t] = "notify" /\ fn'[t] = fn[t] /\ OthersStay(t)
    /\ queue' = [queue EXCEPT ![at[t]] = Append(@, WorkItem(fn[t]))]
    /\ pushed' = [pushed EXCEPT ![at[t]] = IF Pin[fn[t]] = -1 THEN @ ELSE Append(@, fn[t])]
    /\ UNCHANGED <<todo, ran, accepted>>

Taking(w, q) ==
    /\ pc[w] \in {"stealing", "popping"} /\ pc'[w] = "run" /\ OthersStay(w)
    /\ queue[q] # <<>> /\ (q = w \/ Head(queue[q]).can_steal)
    /\ fn'[w] = Head(queue[q]).fn /\ queue' = [queue EXCEPT ![q] = Tail(@)]
    /\ UNCHANGED <<todo, ran, pushed, accepted>>

Beginning(w) ==
    /\ pc[w] = "run" /\ pc'[w] \in {"steal", "pop", "check"} /\ OthersStay(w)
    /\ (pc'[w] = "check") <=> (Child[fn[w]] # NullFn)
    /\ fn'[w] = Child[fn[w]] /\ ran' = Append(ran, <<w, fn[w]>>)
    /\ UNCHANGED <<todo, queue, pushed, accepted>>

LEMMA Kinds ==
    ASSUME TypeInv, [Next]_vars
    PROVE  \/ Quiet
           \/ \E t \in Clients : Calling(t)
           \/ \E t \in Threads : Pushing(t)
           \/ \E w, q \in Workers : Taking(w, q)
           \/ \E w \in Workers : Beginning(w)
<1>d. /\ Clients \subseteq Threads /\ Workers \subseteq Threads /\ Destroyer \in Threads
      /\ Destroyer \notin Clients \union Workers /\ Clients \intersect Workers = {}
  BY ThreadsAssumption DEF Threads
<1>f. /\ DOMAIN pc = Threads /\ DOMAIN fn = Threads /\ at \in [Threads -> Workers]
  BY DEF TypeInv, TypeOK
<1> USE DEF Goto, At, queues, history
<1>1. ASSUME NEW t \in Clients, CallSchedule(t) PROVE Quiet \/ Calling(t)
  <2>1. CASE todo[t] = <<>>
    <3>1. pc' = [pc EXCEPT ![t] = "done"] /\ UNCHANGED <<todo, fn, queue, ran, pushed, accepted>>
      BY <1>1, <2>1 DEF CallSchedule
    <3>2. pc[t] = "ready"
      BY <1>1 DEF CallSchedule
    <3> QED
      BY <1>d, <1>f, <3>1, <3>2 DEF Quiet, Flying
  <2>2. CASE todo[t] # <<>>
    BY <1>1, <1>d, <1>f, <2>2 DEF CallSchedule, Calling, OthersStay
  <2> QED
    BY <2>1, <2>2
<1>2. ASSUME NEW t \in Threads \ {Destroyer}, ScheduleById(t) \/ TryPush(t) \/ PushLock(t)
      PROVE  Quiet
  <2>1. pc[t] \in {"check", "try_push", "push"}
        /\ UNCHANGED <<todo, queue, ran, pushed, fn, accepted>>
    BY <1>2, Zenon DEF ScheduleById, TryPush, PushLock
  <2>2. pc' = pc \/ \E p \in {"ready", "steal", "pop", "try_push", "push", "pushing"} :
                      pc' = [pc EXCEPT ![t] = p]
    BY <1>2, Zenon DEF ScheduleById, TryPush, PushLock, ReturnPlace, LoopTop
  <2> QED
    BY <1>d, <1>f, <2>1, <2>2 DEF Quiet, Flying
<1>3. ASSUME NEW t \in Threads \ {Destroyer}, Push(t) PROVE Pushing(t)
  <2>1. pc[t] = "pushing" /\ pc' = [pc EXCEPT ![t] = "notify"] /\ fn' = fn
    BY <1>3 DEF Push
  <2>2. /\ queue' = [queue EXCEPT ![at[t]] = Append(@, WorkItem(fn[t]))]
        /\ pushed' = [pushed EXCEPT ![at[t]] = IF Pin[fn[t]] = -1 THEN @ ELSE Append(@, fn[t])]
        /\ UNCHANGED <<todo, ran, accepted>>
    BY <1>3, Zenon DEF Push
  <2>3. pc'[t] = "notify" /\ fn'[t] = fn[t] /\ OthersStay(t)
    BY <1>f, <2>1 DEF OthersStay
  <2> QED
    BY <2>1, <2>2, <2>3, Zenon DEF Pushing
<1>4. ASSUME NEW t \in Threads \ {Destroyer}, NotifyOne(t) PROVE Quiet
  <2>1. pc[t] = "notify" /\ UNCHANGED <<todo, queue, ran, pushed, fn>>
    BY <1>4 DEF NotifyOne
  <2>2. accepted' = accepted \union {fn[t]}
    BY <1>4 DEF NotifyOne
  <2>3. /\ pc'[t] \in {"ready", "steal", "pop", "acquire"}
        /\ \A u \in Threads \ {t} : pc'[u] = pc[u] \/ (pc[u] = "waiting" /\ pc'[u] = "pop")
    <3>1. AcceptedPlace(t) \in {"ready", "steal", "pop", "acquire"}
      BY DEF AcceptedPlace, ReturnPlace, LoopTop
    <3>2. pc' = [u \in Threads |->
                   IF u = t THEN AcceptedPlace(t)
                   ELSE IF u = at[t] /\ pc[u] = "waiting" THEN "pop" ELSE pc[u]]
      BY <1>4 DEF NotifyOne
    <3> QED
      BY <3>1, <3>2
  <2> QED
    BY <1>d, <2>1, <2>2, <2>3 DEF Quiet, Flying
<1>5. ASSUME NEW t \in Threads \ {Destroyer}, SyncReturn(t) PROVE Quiet
  <2>1. pc[t] = "acquire" /\ UNCHANGED <<todo, queue, ran, pushed, fn, accepted>>
    BY <1>5 DEF SyncReturn
  <2>2. \E p \in {"ready", "steal", "pop"} : pc' = [pc EXCEPT ![t] = p]
    BY <1>5, Zenon DEF SyncReturn, ReturnPlace, LoopTop
  <2> QED
    BY <1>d, <1>f, <2>1, <2>2 DEF Quiet, Flying
<1>6. ASSUME NEW w \in Workers, TrySteal(w) \/ PopLock(w) \/ SpuriousWakeup(w) PROVE Quiet
  <2>1. pc[w] \in {"steal", "pop", "waiting"}
        /\ UNCHANGED <<todo, queue, ran, pushed, fn, accepted>>
    BY <1>6, Zenon DEF TrySteal, PopLock, SpuriousWakeup
  <2>2. pc' = pc \/ \E p \in {"pop", "stealing", "popping"} : pc' = [pc EXCEPT ![w] = p]
    BY <1>6, Zenon DEF TrySteal, PopLock, SpuriousWakeup
  <2> QED
    BY <1>d, <1>f, <2>1, <2>2 DEF Quiet, Flying
<1>7. ASSUME NEW w \in Workers, TryPopIf(w) PROVE Quiet \/ Taking(w, at[w])
  <2>1. pc[w] = "stealing" /\ UNCHANGED <<todo, ran, pushed, accepted>>
    BY <1>7 DEF TryPopIf
  <2>2. CASE queue[at[w]] # <<>> /\ Head(queue[at[w]]).can_steal
    <3>1. Take(w, at[w])
      BY <1>7, <2>2, Zenon DEF TryPopIf
    <3> QED
      BY <1>d, <1>f, <2>1, <2>2, <3>1 DEF Take, Taking, OthersStay
  <2>3. CASE ~(queue[at[w]] # <<>> /\ Head(queue[at[w]]).can_steal)
    <3>1. pc' = [pc EXCEPT ![w] = "steal"] /\ UNCHANGED <<fn, queue>>
      BY <1>7, <2>3, Zenon DEF TryPopIf
    <3> QED
      BY <1>d, <1>f, <2>1, <3>1 DEF Quiet, Flying
  <2> QED
    BY <2>2, <2>3
<1>8. ASSUME NEW w \in Workers, Pop(w) PROVE Quiet \/ Taking(w, w)
  <2>1. pc[w] = "popping" /\ UNCHANGED <<todo, ran, pushed, accepted>>
    BY <1>8 DEF Pop
  <2>2. CASE queue[w] # <<>>
    <3>1. Take(w, w)
      BY <1>8, <2>2, Zenon DEF Pop
    <3> QED
      BY <1>d, <1>f, <2>1, <2>2, <3>1 DEF Take, Taking, OthersStay
  <2>3. CASE queue[w] = <<>>
    <3>1. UNCHANGED <<fn, queue>> /\ \E p \in {"exited", "waiting"} : pc' = [pc EXCEPT ![w] = p]
      BY <1>8, <2>3, Zenon DEF Pop
    <3> QED
      BY <1>d, <1>f, <2>1, <3>1 DEF Quiet, Flying
  <2> QED
    BY <2>2, <2>3
<1>9. ASSUME NEW w \in Workers, RunItem(w) PROVE Beginning(w)
  <2>1. /\ pc[w] = "run" /\ ran' = Append(ran, <<w, fn[w]>>)
        /\ fn' = [fn EXCEPT ![w] = Child[fn[w]]]
        /\ UNCHANGED <<todo, queue, pushed, accepted>>
    BY <1>9 DEF RunItem
  <2>2. /\ Child[fn[w]] = NullFn => \E p \in {"steal", "pop"} : pc' = [pc EXCEPT ![w] = p]
        /\ Child[fn[w]] # NullFn => pc' = [pc EXCEPT ![w] = "check"]
    BY <1>9, Zenon DEF RunItem, LoopTop
  <2>3. /\ pc'[w] \in {"steal", "pop", "check"} /\ fn'[w] = Child[fn[w]] /\ OthersStay(w)
        /\ (pc'[w] = "check") <=> (Child[fn[w]] # NullFn)
    BY <1>d, <1>f, <2>1, <2>2 DEF OthersStay
  <2> QED
    BY <2>1, <2>3, Zenon DEF Beginning
<1>10. ASSUME DestroyerStep PROVE Quiet
  <2>1. UNCHANGED <<todo, queue, ran, pushed, fn, accepted>>
    BY <1>10, Zenon DEF DestroyerStep, BeginDestroy, StopLock, Stop, NotifyAll, Join
  <2>2. /\ pc'[Destroyer] \in {"stop_lock", "stopping", "notify_all", "join", "gone"}
        /\ \A u \in Threads \ {Destroyer} :
             pc'[u] = pc[u] \/ (pc[u] = "waiting" /\ pc'[u] = "pop")
    <3>1. CASE NotifyAll
      <4>1. pc' = [u \in Threads |->
                     IF u = Destroyer
                       THEN IF n[Destroyer] + 1 = thread_num_ THEN "join" ELSE "stop_lock"
                     ELSE IF u = n[Destroyer] /\ pc[u] = "waiting" THEN "pop" ELSE pc[u]]
        BY <3>1, Zenon DEF NotifyAll
      <4> QED
        BY <1>d, <4>1
    <3>2. CASE BeginDestroy \/ StopLock \/ Stop \/ Join
      <4>1. \E p \in {"stop_lock", "stopping", "notify_all", "gone"} :
              pc' = [pc EXCEPT ![Destroyer] = p]
        BY <3>2, Zenon DEF BeginDestroy, StopLock, Stop, Join
      <4> QED
        BY <1>d, <1>f, <4>1
    <3> QED
      BY <1>10, <3>1, <3>2 DEF DestroyerStep
  <2> QED
    BY <1>d, <2>1, <2>2 DEF Quiet, Flying
<1>11. CASE UNCHANGED vars
  BY <1>11 DEF vars, Quiet
<1> QED
  <2>1. \A t \in Clients \union Workers : t \in Threads \ {Destroyer}
    BY <1>d
  <2>2. \A w \in Workers : at[w] \in Workers
    BY <1>d, <1>f
  <2> QED
    BY <2>1, <2>2, <1>1, <1>2, <1>3, <1>4, <1>5, <1>6, <1>7, <1>8, <1>9, <1>10, <1>11, Zenon
       DEF Next, ScheduleStep, WorkerStep, Terminated

\* What each kind of step does to the queues, entry by entry.
LEMMA QueueGrows ==
    ASSUME TypeInv, NEW t \in Threads, Pushing(t)
    PROVE  /\ fn[t] \in Items /\ at[t] \in Workers
           /\ \A q \in Workers : \A k \in DOMAIN queue'[q] :
                \/ k \in DOMAIN queue[q] /\ queue'[q][k] = queue[q][k]
                \/ q = at[t] /\ k = Len(queue[q]) + 1 /\ queue'[q][k].fn = fn[t]
           /\ \A q \in Workers : \A k \in DOMAIN queue[q] :
                k \in DOMAIN queue'[q] /\ queue'[q][k] = queue[q][k]
           /\ Len(queue[at[t]]) + 1 \in DOMAIN queue'[at[t]]
           /\ queue'[at[t]][Len(queue[at[t]]) + 1].fn = fn[t]
<1>1. /\ fn[t] \in Items /\ at[t] \in Workers
      /\ queue \in [Workers -> Seq([fn : Items, can_steal : BOOLEAN])]
  BY DEF TypeInv, TypeOK, PlacesInv, Pushing
<1>2. WorkItem(fn[t]) \in [fn : Items, can_steal : BOOLEAN] /\ WorkItem(fn[t]).fn = fn[t]
  BY <1>1, UseTypes DEF TypeInv, WorkItem
<1> DEFINE old == queue[at[t]]
           new == Append(old, WorkItem(fn[t]))
<1>3. \A q \in Workers : queue'[q] = IF q = at[t] THEN new ELSE queue[q]
  BY <1>1 DEF Pushing
<1>4. /\ Len(old) \in Nat /\ DOMAIN old = 1 .. Len(old) /\ DOMAIN new = 1 .. Len(old) + 1
      /\ \A k \in 1 .. Len(old) : new[k] = old[k]
      /\ new[Len(old) + 1] = WorkItem(fn[t])
  BY <1>1, <1>2
<1> HIDE DEF new
<1>5. \A k \in DOMAIN new : (k \in DOMAIN old /\ new[k] = old[k])
                           \/ (k = Len(old) + 1 /\ new[k].fn = fn[t])
  BY <1>2, <1>4
<1>6. \A k \in DOMAIN old : k \in DOMAIN new /\ new[k] = old[k]
  BY <1>4
<1>7. Len(old) + 1 \in DOMAIN new /\ new[Len(old) + 1].fn = fn[t]
  BY <1>2, <1>4
<1>8. queue'[at[t]] = new
  BY <1>1, <1>3
<1> QED
  BY <1>1, <1>3, <1>5, <1>6, <1>7, <1>8

LEMMA QueueShrinks ==
    ASSUME TypeInv, NEW w \in Workers, NEW q \in Workers, Taking(w, q)
    PROVE  /\ 1 \in DOMAIN queue[q] /\ fn'[w] = queue[q][1].fn /\ fn'[w] \in Items
           /\ \A r \in Workers \ {q} : queue'[r] = queue[r]
           /\ \A k \in DOMAIN queue'[q] :
                /\ k \in Nat /\ k + 1 \in DOMAIN queue[q] /\ k + 1 # 1
                /\ queue'[q][k] = queue[q][k + 1]
           /\ \A k \in DOMAIN queue[q] :
                k # 1 => k - 1 \in DOMAIN queue'[q] /\ queue'[q][k - 1] = queue[q][k]
<1>1. queue \in [Workers -> Seq([fn : Items, can_steal : BOOLEAN])]
  BY DEF TypeInv, TypeOK
<1> DEFINE old == queue[q]
           new == Tail(old)
<1> DEFINE Entry == [fn : Items, can_steal : BOOLEAN]
<1>2. old \in Seq(Entry) /\ old # <<>>
  <2>1. old # <<>>
    BY DEF Taking
  <2> QED
    BY <1>1, <2>1
<1> HIDE DEF Entry
<1>3. /\ Len(old) \in Nat /\ Len(old) >= 1 /\ DOMAIN old = 1 .. Len(old)
      /\ DOMAIN new = 1 .. Len(old) - 1
      /\ \A k \in 1 .. Len(old) - 1 : new[k] = old[k + 1]
      /\ Head(old) = old[1] /\ Head(old) \in Entry
  BY <1>2
<1>4. queue'[q] = new /\ \A r \in Workers \ {q} : queue'[r] = queue[r]
  BY <1>1 DEF Taking
<1>5. fn'[w] = Head(old).fn /\ Head(old).fn \in Items
  BY <1>3 DEF Taking, Entry
<1> HIDE DEF new
<1>6. 1 \in DOMAIN old
  BY <1>3
<1>7. \A k \in DOMAIN new : k \in Nat /\ k + 1 \in DOMAIN old /\ k + 1 # 1 /\ new[k] = old[k + 1]
  BY <1>3
<1>8. \A k \in DOMAIN old : k # 1 => k - 1 \in DOMAIN new /\ new[k - 1] = old[k]
  BY <1>3
<1> HIDE DEF old
<1> QED
  BY <1>3, <1>4, <1>5, <1>6, <1>7, <1>8 DEF old

LEMMA RanGrows ==
    ASSUME TypeInv, NEW w \in Workers, Beginning(w)
    PROVE  /\ fn[w] \in Items
           /\ \A k \in DOMAIN ran' :
                \/ k \in DOMAIN ran /\ ran'[k] = ran[k]
                \/ k = Len(ran) + 1 /\ ran'[k] = <<w, fn[w]>>
           /\ \A k \in DOMAIN ran : k \in DOMAIN ran' /\ ran'[k] = ran[k]
           /\ \A k \in DOMAIN ran : k \in 1 .. Len(ran) + 1 - 1
           /\ Len(ran) + 1 \in DOMAIN ran' /\ ran'[Len(ran) + 1] = <<w, fn[w]>>
           /\ Len(ran) \in Nat /\ DOMAIN ran = 1 .. Len(ran)
<1>1. fn[w] \in Items /\ ran \in Seq(Workers \X Items)
  BY DEF TypeInv, TypeOK, PlacesInv, Beginning, Threads
<1>2. ran' = Append(ran, <<w, fn[w]>>) /\ <<w, fn[w]>> \in Workers \X Items
  BY <1>1 DEF Beginning
<1> QED
  BY <1>1, <1>2

LEMMA TodoShrinks ==
    ASSUME TypeInv, NEW t \in Clients, Calling(t)
    PROVE  /\ 1 \in DOMAIN todo[t] /\ fn'[t] = todo[t][1]
           /\ \A x \in Clients \ {t} : todo'[x] = todo[x]
           /\ \A k \in DOMAIN todo'[t] :
                /\ k \in Nat /\ k + 1 \in DOMAIN todo[t] /\ k + 1 # 1
                /\ todo'[t][k] = todo[t][k + 1]
<1>1. todo \in [Clients -> Seq(Items \union {NullFn})]
  BY DEF TypeInv, TypeOK
<1> DEFINE Fns == Items \union {NullFn}
           old == todo[t]
           new == Tail(old)
<1>2. old \in Seq(Fns) /\ old # <<>>
  BY <1>1 DEF Calling
<1>3. todo'[t] = new /\ \A x \in Clients \ {t} : todo'[x] = todo[x]
  BY <1>1 DEF Calling
<1>4. fn'[t] = Head(old)
  BY DEF Calling
<1> HIDE DEF Fns
<1>5. /\ Len(old) \in Nat /\ Len(old) >= 1 /\ DOMAIN old = 1 .. Len(old)
      /\ DOMAIN new = 1 .. Len(old) - 1
      /\ \A k \in 1 .. Len(old) - 1 : new[k] = old[k + 1]
      /\ Head(old) = old[1]
  BY <1>2
<1> HIDE DEF new
<1>6. 1 \in DOMAIN old
  BY <1>5
<1>7. \A k \in DOMAIN new : k \in Nat /\ k + 1 \in DOMAIN old /\ k + 1 # 1 /\ new[k] = old[k + 1]
  BY <1>5
<1> HIDE DEF old
<1> QED
  BY <1>3, <1>4, <1>5, <1>6, <1>7 DEF old

-----------------------------------------------------------------------------
(* Each item at one place.                                                  *)
LEMMA ItemsInit == Init /\ EachScheduledOnce => ItemsInv
<1> SUFFICES ASSUME Init, EachScheduledOnce PROVE ItemsInv
  OBVIOUS
<1>1. use \in Usages /\ todo = use.program
  BY DEF Init
<1>2. \A t \in Threads : pc[t] \notin Flying \union {"notify"}
  BY DEF Init, Flying
<1>3. \A i : ~InFlight(i) /\ ~InQueue(i) /\ ~HasBegun(i)
  BY <1>2 DEF Init, InFlight, InQueue, HasBegun
<1>4. OnePlace
  <2>1. \A x, y \in Clients : \A k \in DOMAIN todo[x], l \in DOMAIN todo[y] :
          todo[x][k] = todo[y][l] /\ todo[x][k] \in Items => x = y /\ k = l
    BY <1>1 DEF EachScheduledOnce
  <2>2. \A t, u \in Threads :
          {pc[t], pc[u]} \subseteq Flying /\ fn[t] = fn[u] /\ fn[t] \in Items => t = u
    BY <1>2
  <2>3. (\A q \in Workers : queue[q] = <<>>) /\ ran = <<>>
    BY DEF Init
  <2> QED
    BY <2>1, <2>2, <2>3 DEF OnePlace
<1>5. OneStage
  BY <1>3 DEF OneStage
<1>6. ChildAfterParent
  BY <1>1, <1>3 DEF ChildAfterParent, EachScheduledOnce, InTodo, Child
<1>7. NothingLost
  BY <1>2 DEF NothingLost, Init
<1> QED
  BY <1>4, <1>5, <1>6, <1>7 DEF ItemsInv

LEMMA ItemsQuiet ==
    ASSUME ItemsInv, use' = use, Quiet PROVE ItemsInv'
<1>1. UNCHANGED <<todo, queue, ran, Child>>
  BY DEF Quiet, Child
<1>2. \A i : /\ (InTodo(i)' <=> InTodo(i)) /\ (InQueue(i)' <=> InQueue(i)) /\ (HasBegun(i)' <=> HasBegun(i))
             /\ InFlight(i)' => InFlight(i)
             /\ Copied(i) => Copied(i)'
  BY <1>1 DEF Quiet, InTodo, InQueue, HasBegun, InFlight, Held, Copied
<1>3. OnePlace'
  <2>1. \A t, u \in Threads :
          {pc'[t], pc'[u]} \subseteq Flying /\ fn'[t] = fn'[u] /\ fn'[t] \in Items => t = u
    BY DEF Quiet, ItemsInv, OnePlace
  <2> QED
    BY <1>1, <2>1 DEF ItemsInv, OnePlace
<1>4. OneStage'
  BY <1>2 DEF ItemsInv, OneStage
<1>5. ChildAfterParent'
  BY <1>1, <1>2 DEF ItemsInv, ChildAfterParent
<1>6. NothingLost'
  BY <1>2 DEF Quiet, ItemsInv, NothingLost
<1> QED
  BY <1>3, <1>4, <1>5, <1>6 DEF ItemsInv

LEMMA ItemsCalling ==
    ASSUME TypeInv, ItemsInv, use' = use, NEW t \in Clients, Calling(t) PROVE ItemsInv'
<1>0. t \in Threads /\ t \notin Workers
  BY ThreadsAssumption DEF Threads
<1>i. PICK i0 : i0 = fn'[t]
  OBVIOUS
<1>1. UNCHANGED <<queue, ran, accepted, Child>>
  BY DEF Calling, Child
<1>2. /\ 1 \in DOMAIN todo[t] /\ fn'[t] = todo[t][1]
      /\ \A x \in Clients \ {t} : todo'[x] = todo[x]
      /\ \A k \in DOMAIN todo'[t] :
           k \in Nat /\ k + 1 \in DOMAIN todo[t] /\ k + 1 # 1 /\ todo'[t][k] = todo[t][k + 1]
  BY TodoShrinks
<1>3. /\ pc[t] = "ready" /\ pc'[t] = "check"
      /\ \A u \in Threads \ {t} : pc'[u] = pc[u] /\ fn'[u] = fn[u]
  BY DEF Calling, OthersStay
<1>4. \A x \in Clients : \A k \in DOMAIN todo'[x] : \E l \in DOMAIN todo[x] :
        todo'[x][k] = todo[x][l] /\ (x = t => l = k + 1 /\ l # 1) /\ (x # t => l = k)
  BY <1>2
<1>5. \A i : /\ InTodo(i)' => InTodo(i)
             /\ InFlight(i)' => InFlight(i) \/ (i = i0 /\ InTodo(i))
             /\ (InQueue(i)' <=> InQueue(i)) /\ (HasBegun(i)' <=> HasBegun(i))
             /\ (Copied(i)' <=> Copied(i))
  <2>1. \A i : InTodo(i)' => InTodo(i)
    BY <1>4 DEF InTodo
  <2>2. \A i : InFlight(i)' => InFlight(i) \/ (i = i0 /\ InTodo(i))
    BY <1>i, <1>2, <1>3 DEF InFlight, InTodo
  <2>3. \A i : (InQueue(i)' <=> InQueue(i)) /\ (HasBegun(i)' <=> HasBegun(i)) /\ (Held(i)' <=> Held(i))
    BY <1>0, <1>1, <1>3 DEF InQueue, HasBegun, Held, Threads
  <2> QED
    BY <2>1, <2>2, <2>3 DEF Copied
<1>u. \A x, y \in Clients : \A k \in DOMAIN todo[x], l \in DOMAIN todo[y] :
        todo[x][k] = todo[y][l] /\ todo[x][k] \in Items => x = y /\ k = l
  BY DEF ItemsInv, OnePlace
<1>6. i0 \in Items => ~InTodo(i0)'
  <2> SUFFICES ASSUME i0 \in Items, NEW x \in Clients, NEW k \in DOMAIN todo'[x],
                      todo'[x][k] = i0
               PROVE  FALSE
    BY DEF InTodo
  <2>1. PICK l \in DOMAIN todo[x] : todo'[x][k] = todo[x][l] /\ (x = t => l # 1)
    BY <1>4
  <2>2. x = t /\ l = 1
    BY <1>i, <1>2, <1>u, <2>1
  <2> QED
    BY <2>1, <2>2
<1>7. OnePlace'
  <2>1. ASSUME NEW x \in Clients, NEW y \in Clients,
               NEW k \in DOMAIN todo'[x], NEW l \in DOMAIN todo'[y],
               todo'[x][k] = todo'[y][l], todo'[x][k] \in Items
        PROVE  x = y /\ k = l
    <3>1. PICK k1 \in DOMAIN todo[x] : /\ todo'[x][k] = todo[x][k1]
                                       /\ (x = t => k1 = k + 1) /\ (x # t => k1 = k)
      BY <1>4
    <3>2. PICK l1 \in DOMAIN todo[y] : /\ todo'[y][l] = todo[y][l1]
                                       /\ (y = t => l1 = l + 1) /\ (y # t => l1 = l)
      BY <1>4
    <3>5. todo[x][k1] = todo[y][l1] /\ todo[x][k1] \in Items
      BY <2>1, <3>1, <3>2
    <3>3. x = y /\ k1 = l1
      BY <1>u, <3>5
    <3>4. x = t => k \in Nat /\ l \in Nat
      BY <1>2, <3>3
    <3> QED
      BY <3>1, <3>2, <3>3, <3>4
  <2>2. ASSUME NEW u \in Threads, NEW v \in Threads,
               {pc'[u], pc'[v]} \subseteq Flying, fn'[u] = fn'[v], fn'[u] \in Items
        PROVE  u = v
    <3>1. CASE u # t /\ v # t
      BY <1>3, <2>2, <3>1 DEF ItemsInv, OnePlace
    <3>2. CASE (u = t /\ v # t) \/ (u # t /\ v = t)
      <4>1. InFlight(i0) /\ InTodo(i0) /\ i0 \in Items
        BY <1>i, <1>2, <1>3, <2>2, <3>2 DEF InFlight, InTodo
      <4> QED
        BY <4>1 DEF ItemsInv, OneStage
    <3> QED
      BY <3>1, <3>2
  <2> QED
    BY <1>1, <2>1, <2>2 DEF ItemsInv, OnePlace
<1>8. OneStage'
  BY <1>5, <1>6 DEF ItemsInv, OneStage
<1>9. ChildAfterParent'
  BY <1>1, <1>5 DEF ItemsInv, ChildAfterParent
<1>10. NothingLost'
  BY <1>1, <1>3, <1>5 DEF ItemsInv, NothingLost
<1> QED
  BY <1>7, <1>8, <1>9, <1>10 DEF ItemsInv

LEMMA ItemsPushing ==
    ASSUME TypeInv, ItemsInv, use' = use, NEW t \in Threads, Pushing(t) PROVE ItemsInv'
<1>i. PICK i0 : i0 = fn[t]
  OBVIOUS
<1>1. UNCHANGED <<todo, ran, accepted, Child>>
  BY DEF Pushing, Child
<1>2. /\ fn[t] \in Items /\ at[t] \in Workers
      /\ \A q \in Workers : \A k \in DOMAIN queue'[q] :
           \/ k \in DOMAIN queue[q] /\ queue'[q][k] = queue[q][k]
           \/ q = at[t] /\ k = Len(queue[q]) + 1 /\ queue'[q][k].fn = fn[t]
      /\ \A q \in Workers : \A k \in DOMAIN queue[q] :
           k \in DOMAIN queue'[q] /\ queue'[q][k] = queue[q][k]
      /\ \E k \in DOMAIN queue'[at[t]] : queue'[at[t]][k].fn = fn[t]
  BY QueueGrows
<1>3. /\ pc[t] = "pushing" /\ pc'[t] = "notify" /\ fn'[t] = fn[t]
      /\ \A u \in Threads \ {t} : pc'[u] = pc[u] /\ fn'[u] = fn[u]
  BY DEF Pushing, OthersStay
<1>4. InFlight(i0)
  BY <1>i, <1>3 DEF InFlight, Flying
<1>5. ~InTodo(i0) /\ ~InQueue(i0) /\ ~HasBegun(i0)
  BY <1>i, <1>2, <1>4 DEF ItemsInv, OneStage
<1>6. /\ \A i : (InTodo(i)' <=> InTodo(i)) /\ (HasBegun(i)' <=> HasBegun(i))
      /\ \A i : InQueue(i)' <=> (InQueue(i) \/ i = i0)
      /\ \A i : InFlight(i)' => InFlight(i)
      /\ \A i : Copied(i) => Copied(i)'
      /\ Copied(i0)' /\ ~InFlight(i0)'
  <2>1. \A i : (InTodo(i)' <=> InTodo(i)) /\ (HasBegun(i)' <=> HasBegun(i))
    BY <1>1 DEF InTodo, HasBegun
  <2>2. \A i : InQueue(i)' <=> (InQueue(i) \/ i = i0)
    BY <1>i, <1>2 DEF InQueue
  <2>3. \A i : InFlight(i)' => InFlight(i)
    BY <1>3 DEF InFlight, Flying
  <2>4. \A i : Held(i) => Held(i)'
    BY <1>3 DEF Held, Threads
  <2>5. ~InFlight(i0)'
    <3>1. \A u \in Threads \ {t} : pc[u] \in Flying => fn[u] # fn[t]
      BY <1>2, <1>3 DEF ItemsInv, OnePlace, Flying
    <3> QED
      BY <1>i, <1>3, <3>1 DEF InFlight, Flying
  <2> QED
    BY <2>1, <2>2, <2>3, <2>4, <2>5 DEF Copied
<1>7. OnePlace'
  <2>1. ASSUME NEW q \in Workers, NEW r \in Workers,
               NEW k \in DOMAIN queue'[q], NEW l \in DOMAIN queue'[r],
               queue'[q][k].fn = queue'[r][l].fn
        PROVE  q = r /\ k = l
    <3>1. (k \in DOMAIN queue[q] /\ queue'[q][k] = queue[q][k]) =>
             queue'[q][k].fn # fn[t]
      BY <1>i, <1>5 DEF InQueue
    <3>2. (l \in DOMAIN queue[r] /\ queue'[r][l] = queue[r][l]) =>
             queue'[r][l].fn # fn[t]
      BY <1>i, <1>5 DEF InQueue
    <3>3. CASE (k \in DOMAIN queue[q] /\ queue'[q][k] = queue[q][k])
      <4>1. l \in DOMAIN queue[r] /\ queue'[r][l] = queue[r][l]
        BY <1>2, <2>1, <3>1, <3>3
      <4> QED
        BY <2>1, <3>3, <4>1 DEF ItemsInv, OnePlace
    <3>4. CASE q = at[t] /\ k = Len(queue[q]) + 1 /\ queue'[q][k].fn = fn[t]
      <4>1. r = at[t] /\ l = Len(queue[r]) + 1
        BY <1>2, <2>1, <3>2, <3>4
      <4> QED
        BY <3>4, <4>1
    <3> QED
      BY <1>2, <3>3, <3>4
  <2>2. \A u, v \in Threads :
          {pc'[u], pc'[v]} \subseteq Flying /\ fn'[u] = fn'[v] /\ fn'[u] \in Items => u = v
    BY <1>3 DEF ItemsInv, OnePlace, Flying
  <2> QED
    BY <1>1, <2>1, <2>2 DEF ItemsInv, OnePlace
<1>8. OneStage'
  BY <1>5, <1>6 DEF ItemsInv, OneStage
<1>9. ChildAfterParent'
  BY <1>i, <1>2, <1>1, <1>4, <1>6 DEF ItemsInv, ChildAfterParent
<1>10. NothingLost'
  BY <1>i, <1>1, <1>3, <1>6 DEF ItemsInv, NothingLost
<1> QED
  BY <1>7, <1>8, <1>9, <1>10 DEF ItemsInv

LEMMA ItemsTaking ==
    ASSUME TypeInv, ItemsInv, use' = use, NEW w \in Workers, NEW q \in Workers, Taking(w, q)
    PROVE  ItemsInv'
<1>0. w \in Threads
  BY DEF Threads
<1>1. UNCHANGED <<todo, ran, accepted, Child>>
  BY DEF Taking, Child
<1>2. /\ 1 \in DOMAIN queue[q] /\ fn'[w] = queue[q][1].fn /\ fn'[w] \in Items
      /\ \A r \in Workers \ {q} : queue'[r] = queue[r]
      /\ \A k \in DOMAIN queue'[q] :
           /\ k \in Nat /\ k + 1 \in DOMAIN queue[q] /\ k + 1 # 1
           /\ queue'[q][k] = queue[q][k + 1]
      /\ \A k \in DOMAIN queue[q] :
           k # 1 => k - 1 \in DOMAIN queue'[q] /\ queue'[q][k - 1] = queue[q][k]
  BY QueueShrinks
<1>3. /\ pc[w] \in {"stealing", "popping"} /\ pc'[w] = "run"
      /\ \A u \in Threads \ {w} : pc'[u] = pc[u] /\ fn'[u] = fn[u]
  BY DEF Taking, OthersStay
<1>i. PICK i0 : i0 = fn'[w]
  OBVIOUS
<1>u. \A r, s \in Workers : \A k \in DOMAIN queue[r], l \in DOMAIN queue[s] :
        queue[r][k].fn = queue[s][l].fn => r = s /\ k = l
  BY DEF ItemsInv, OnePlace
<1>4. \A r \in Workers : \A k \in DOMAIN queue'[r] : \E l \in DOMAIN queue[r] :
        /\ queue'[r][k] = queue[r][l] /\ queue[r][l].fn # i0
        /\ (r = q => l = k + 1) /\ (r # q => l = k)
  BY <1>2, <1>i, <1>u
<1>5. i0 \in Items /\ InQueue(i0)
  BY <1>2, <1>i DEF InQueue
<1>6. ~InTodo(i0) /\ ~InFlight(i0) /\ ~HasBegun(i0)
  BY <1>5 DEF ItemsInv, OneStage
<1>7. /\ \A i : (InTodo(i)' <=> InTodo(i)) /\ (HasBegun(i)' <=> HasBegun(i))
      /\ \A i : InQueue(i)' => InQueue(i) /\ i # i0
      /\ \A i : InFlight(i)' => InFlight(i) \/ i = i0
      /\ \A i : Copied(i) => Copied(i)'
  <2>1. \A i : (InTodo(i)' <=> InTodo(i)) /\ (HasBegun(i)' <=> HasBegun(i))
    BY <1>1 DEF InTodo, HasBegun
  <2>2. \A i : InQueue(i)' => InQueue(i) /\ i # i0
    BY <1>4 DEF InQueue
  <2>3. \A i : InFlight(i)' => InFlight(i) \/ i = i0
    BY <1>3, <1>i DEF InFlight
  <2>4. \A i : InQueue(i) => InQueue(i)' \/ i = i0
    BY <1>2, <1>i DEF InQueue
  <2>5. Held(i0)' /\ \A i : Held(i) => Held(i)'
    BY <1>0, <1>3, <1>i DEF Held, Threads
  <2> QED
    BY <2>1, <2>2, <2>3, <2>4, <2>5 DEF Copied
<1>8. OnePlace'
  <2>1. ASSUME NEW r \in Workers, NEW s \in Workers,
               NEW k \in DOMAIN queue'[r], NEW l \in DOMAIN queue'[s],
               queue'[r][k].fn = queue'[s][l].fn
        PROVE  r = s /\ k = l
    <3>1. PICK k1 \in DOMAIN queue[r] : /\ queue'[r][k] = queue[r][k1]
                                        /\ (r = q => k1 = k + 1) /\ (r # q => k1 = k)
      BY <1>4
    <3>2. PICK l1 \in DOMAIN queue[s] : /\ queue'[s][l] = queue[s][l1]
                                        /\ (s = q => l1 = l + 1) /\ (s # q => l1 = l)
      BY <1>4
    <3>3. queue[r][k1].fn = queue[s][l1].fn
      BY <2>1, <3>1, <3>2
    <3>4. r = s /\ k1 = l1
      BY <1>u, <3>3
    <3>5. r = q => k \in Nat /\ l \in Nat
      BY <1>2, <3>4
    <3> QED
      BY <3>1, <3>2, <3>4, <3>5
  <2>2. ASSUME NEW u \in Threads, NEW v \in Threads,
               {pc'[u], pc'[v]} \subseteq Flying, fn'[u] = fn'[v], fn'[u] \in Items
        PROVE  u = v
    <3>1. CASE u # w /\ v # w
      BY <1>3, <2>2, <3>1 DEF ItemsInv, OnePlace
    <3>2. CASE (u = w /\ v # w) \/ (u # w /\ v = w)
      <4>1. InFlight(i0)
        BY <1>i, <1>3, <2>2, <3>2 DEF InFlight
      <4> QED
        BY <1>6, <4>1
    <3> QED
      BY <3>1, <3>2
  <2> QED
    BY <1>1, <2>1, <2>2 DEF ItemsInv, OnePlace
<1>9. OneStage'
  BY <1>6, <1>7 DEF ItemsInv, OneStage
<1>10. ChildAfterParent'
  BY <1>1, <1>5, <1>7 DEF ItemsInv, ChildAfterParent
<1>11. NothingLost'
  BY <1>1, <1>3, <1>7 DEF ItemsInv, NothingLost
<1> QED
  BY <1>8, <1>9, <1>10, <1>11 DEF ItemsInv

LEMMA ItemsBeginning ==
    ASSUME EachScheduledOnce, TypeInv, ItemsInv, use' = use, NEW w \in Workers, Beginning(w)
    PROVE  ItemsInv'
<1>0. w \in Threads
  BY DEF Threads
<1>1. UNCHANGED <<todo, queue, accepted, Child>>
  BY DEF Beginning, Child
<1>2. /\ fn[w] \in Items
      /\ \A k \in DOMAIN ran' :
           \/ k \in DOMAIN ran /\ ran'[k] = ran[k]
           \/ k = Len(ran) + 1 /\ ran'[k] = <<w, fn[w]>>
      /\ \A k \in DOMAIN ran : k \in DOMAIN ran' /\ ran'[k] = ran[k]
      /\ Len(ran) + 1 \in DOMAIN ran' /\ ran'[Len(ran) + 1] = <<w, fn[w]>>
  BY RanGrows
<1>3. /\ pc[w] = "run" /\ pc'[w] \in {"steal", "pop", "check"} /\ fn'[w] = Child[fn[w]]
      /\ \A u \in Threads \ {w} : pc'[u] = pc[u] /\ fn'[u] = fn[u]
      /\ (pc'[w] = "check") <=> (Child[fn[w]] # NullFn)
  BY DEF Beginning, OthersStay
<1>i. PICK i0 : i0 = fn[w]
  OBVIOUS
<1>c. PICK c0 : c0 = Child[fn[w]]
  OBVIOUS
<1>4. \A p, r \in Items : Child[p] = Child[r] /\ Child[p] \in Items => p = r
  BY DEF EachScheduledOnce, TypeInv, TypeOK, Child
<1>5. i0 \in Items /\ InFlight(i0) /\ c0 \in Items \union {NullFn}
  BY <1>0, <1>2, <1>3, <1>i, <1>c, UseTypes DEF TypeInv, InFlight, Flying
<1>6. ~InTodo(i0) /\ ~InQueue(i0) /\ ~HasBegun(i0)
  BY <1>5 DEF ItemsInv, OneStage
<1>7. c0 \in Items => ~InTodo(c0) /\ ~InFlight(c0) /\ ~InQueue(c0) /\ ~HasBegun(c0)
  BY <1>5, <1>6, <1>i, <1>c DEF ItemsInv, ChildAfterParent
<1>8. /\ \A i : (InTodo(i)' <=> InTodo(i)) /\ (InQueue(i)' <=> InQueue(i))
      /\ \A i : HasBegun(i)' <=> (HasBegun(i) \/ i = i0)
      /\ \A i \in Items : InFlight(i)' => (InFlight(i) /\ i # i0) \/ i = c0
      /\ \A i : Copied(i) => Copied(i)'
  <2>1. \A i : (InTodo(i)' <=> InTodo(i)) /\ (InQueue(i)' <=> InQueue(i))
    BY <1>1 DEF InTodo, InQueue
  <2>2. \A i : HasBegun(i)' <=> (HasBegun(i) \/ i = i0)
    BY <1>2, <1>i DEF HasBegun
  <2>3. ASSUME NEW i \in Items, InFlight(i)' PROVE (InFlight(i) /\ i # i0) \/ i = c0
    <3>1. PICK u \in Threads : pc'[u] \in Flying /\ fn'[u] = i
      BY <2>3 DEF InFlight
    <3>2. CASE u = w
      BY <1>3, <1>c, <3>1, <3>2
    <3>3. CASE u # w
      <4>1. pc[u] \in Flying /\ fn[u] = i /\ pc[w] \in Flying /\ fn[w] = i0
        BY <1>3, <1>i, <3>1, <3>3 DEF Flying
      <4>2. i # i0
        BY <1>0, <3>3, <4>1 DEF ItemsInv, OnePlace
      <4> QED
        BY <4>1, <4>2 DEF InFlight
    <3> QED
      BY <3>2, <3>3
  <2>4. \A i : Held(i) => Held(i)' \/ i = i0
    BY <1>3, <1>i DEF Held, Threads
  <2> QED
    BY <2>1, <2>2, <2>3, <2>4 DEF Copied
<1>9. OnePlace'
  <2>1. ASSUME NEW k \in DOMAIN ran', NEW l \in DOMAIN ran', ran'[k][2] = ran'[l][2]
        PROVE  k = l
    <3>1. (k \in DOMAIN ran /\ ran'[k] = ran[k]) => ran'[k][2] # i0
      BY <1>6 DEF HasBegun
    <3>2. (l \in DOMAIN ran /\ ran'[l] = ran[l]) => ran'[l][2] # i0
      BY <1>6 DEF HasBegun
    <3>3. CASE k \in DOMAIN ran /\ ran'[k] = ran[k]
      <4>1. l \in DOMAIN ran /\ ran'[l] = ran[l]
        BY <1>2, <1>i, <2>1, <3>1, <3>3
      <4> QED
        BY <2>1, <3>3, <4>1 DEF ItemsInv, OnePlace
    <3>4. CASE k = Len(ran) + 1 /\ ran'[k] = <<w, fn[w]>>
      <4>1. l = Len(ran) + 1
        BY <1>2, <1>i, <2>1, <3>2, <3>4
      <4> QED
        BY <3>4, <4>1
    <3> QED
      BY <1>2, <3>3, <3>4
  <2>2. ASSUME NEW u \in Threads, NEW v \in Threads,
               {pc'[u], pc'[v]} \subseteq Flying, fn'[u] = fn'[v], fn'[u] \in Items
        PROVE  u = v
    <3>1. CASE u # w /\ v # w
      BY <1>3, <2>2, <3>1 DEF ItemsInv, OnePlace
    <3>2. CASE (u = w /\ v # w) \/ (u # w /\ v = w)
      <4>1. InFlight(c0) /\ c0 \in Items
        BY <1>c, <1>3, <2>2, <3>2 DEF InFlight
      <4> QED
        BY <1>7, <4>1
    <3> QED
      BY <3>1, <3>2
  <2> QED
    BY <1>1, <2>1, <2>2 DEF ItemsInv, OnePlace
<1>10. OneStage'
  BY <1>5, <1>6, <1>7, <1>8 DEF ItemsInv, OneStage
<1>11. ChildAfterParent'
  <2> SUFFICES ASSUME NEW p \in Items, Child[p] \in Items
               PROVE  /\ ~InTodo(Child[p])'
                      /\ (InFlight(Child[p]) \/ InQueue(Child[p]) \/ HasBegun(Child[p]))'
                           => HasBegun(p)'
    BY <1>1 DEF ChildAfterParent
  <2>1. PICK j : j = Child[p] /\ j = Child'[p]
    BY <1>1
  <2>2. j = c0 => p = i0
    BY <1>2, <1>4, <1>i, <1>c, <2>1
  <2>3. /\ ~InTodo(j)
        /\ InFlight(j) \/ InQueue(j) \/ HasBegun(j) => HasBegun(p)
    BY <2>1 DEF ItemsInv, ChildAfterParent
  <2>4. /\ ~InTodo(j)'
        /\ (InFlight(j)' \/ InQueue(j)' \/ HasBegun(j)') => HasBegun(p)'
    BY <1>5, <1>8, <2>1, <2>2, <2>3
  <2> QED
    BY <2>1, <2>4
<1>12. NothingLost'
  <2>1. \A t \in Threads : pc'[t] = "notify" => pc[t] = "notify" /\ fn'[t] = fn[t]
    BY <1>3
  <2> QED
    BY <1>1, <1>8, <2>1 DEF ItemsInv, NothingLost
<1> QED
  BY <1>9, <1>10, <1>11, <1>12 DEF ItemsInv

LEMMA ItemsStep ==
    ASSUME EachScheduledOnce, TypeInv, ItemsInv, [Next]_vars PROVE ItemsInv'
<1>1. use' = use
  BY UseFixed
<1> QED
  BY <1>1, Kinds, ItemsQuiet, ItemsCalling, ItemsPushing, ItemsTaking, ItemsBeginning

\* A set of at most one element, counted.
LEMMA AtMostOne ==
    ASSUME NEW S, \A x, y \in S : x = y
    PROVE  Cardinality(S) = IF S = {} THEN 0 ELSE 1
<1>1. CASE S = {}
  BY <1>1, FS_EmptySet
<1>2. CASE S # {}
  <2>1. PICK x \in S : TRUE
    BY <1>2
  <2>2. S = {x}
    BY <2>1
  <2> QED
    BY <1>2, <2>2, FS_Singleton
<1> QED
  BY <1>1, <1>2

\* However the pool is used, no accepted item is lost, and none is queued or run twice:
\* Push, Pop, TryPopIf and their failing try_locks (threadsafe_queue.hpp) hand every
\* closure on exactly once.
THEOREM ItemsAlwaysAccountedFor ==
    ASSUME EachScheduledOnce
    PROVE  Spec => []ItemsAccountedFor
<1>1. TypeInv /\ ItemsInv => ItemsAccountedFor
  <2> SUFFICES ASSUME TypeInv, ItemsInv, NEW i \in Items
               PROVE  LET copies == Cardinality(Queued(i)) + Cardinality(Holding(i))
                                      + Cardinality(Begun(i))
                      IN copies <= 1 /\ (i \in accepted => copies = 1)
    BY DEF ItemsAccountedFor
  <2>1. (Queued(i) # {} <=> InQueue(i)) /\ \A x, y \in Queued(i) : x = y
    <3>1. \A x : x \in Queued(i) <=> \E q \in Workers : \E k \in DOMAIN queue[q] :
                                       queue[q][k].fn = i /\ x = <<q, k>>
      <4> DEFINE Entries(q) == {<<q, k>> : k \in {k \in DOMAIN queue[q] : queue[q][k].fn = i}}
      <4>1. Queued(i) = UNION {Entries(q) : q \in Workers}
        BY DEF Queued
      <4>2. \A q, x : x \in Entries(q) <=> \E k \in DOMAIN queue[q] : queue[q][k].fn = i /\ x = <<q, k>>
        OBVIOUS
      <4> HIDE DEF Entries
      <4>3. \A x : x \in UNION {Entries(q) : q \in Workers} <=> \E q \in Workers : x \in Entries(q)
        OBVIOUS
      <4> QED
        BY <4>1, <4>2, <4>3
    <3>2. \A q, r \in Workers : \A k \in DOMAIN queue[q], l \in DOMAIN queue[r] :
            queue[q][k].fn = queue[r][l].fn => q = r /\ k = l
      BY DEF ItemsInv, OnePlace
    <3>3. ASSUME NEW x \in Queued(i), NEW y \in Queued(i) PROVE x = y
      <4>1. PICK q \in Workers : \E k \in DOMAIN queue[q] : queue[q][k].fn = i /\ x = <<q, k>>
        BY <3>1
      <4>2. PICK k \in DOMAIN queue[q] : queue[q][k].fn = i /\ x = <<q, k>>
        BY <4>1
      <4>3. PICK r \in Workers : \E l \in DOMAIN queue[r] : queue[r][l].fn = i /\ y = <<r, l>>
        BY <3>1
      <4>4. PICK l \in DOMAIN queue[r] : queue[r][l].fn = i /\ y = <<r, l>>
        BY <4>3
      <4>5. q = r /\ k = l
        BY <3>2, <4>2, <4>4
      <4> QED
        BY <4>2, <4>4, <4>5
    <3>4. Queued(i) # {} <=> InQueue(i)
      BY <3>1, Zenon DEF InQueue
    <3> QED
      BY <3>3, <3>4
  <2>2. (Holding(i) # {} <=> Held(i)) /\ \A x, y \in Holding(i) : x = y
    BY DEF Holding, Held, ItemsInv, OnePlace, Flying, At, Threads
  <2>3. (Begun(i) # {} <=> HasBegun(i)) /\ \A x, y \in Begun(i) : x = y
    BY DEF Begun, HasBegun, ItemsInv, OnePlace
  <2>4. Held(i) => InFlight(i)
    BY DEF Held, InFlight, Flying, Threads
  <2>5. /\ Cardinality(Queued(i)) = IF InQueue(i) THEN 1 ELSE 0
        /\ Cardinality(Holding(i)) = IF Held(i) THEN 1 ELSE 0
        /\ Cardinality(Begun(i)) = IF HasBegun(i) THEN 1 ELSE 0
    BY <2>1, <2>2, <2>3, AtMostOne
  <2>6. /\ ~(InQueue(i) /\ Held(i)) /\ ~(InQueue(i) /\ HasBegun(i)) /\ ~(Held(i) /\ HasBegun(i))
        /\ (i \in accepted => InQueue(i) \/ Held(i) \/ HasBegun(i))
    BY <2>4 DEF ItemsInv, OneStage, NothingLost, Copied
  <2> QED
    BY <2>5, <2>6
<1>2. TypeInv /\ ItemsInv /\ [Next]_vars => ItemsInv'
  BY ItemsStep
<1>3. Init => ItemsInv
  BY ItemsInit
<1> QED
  BY TypeInit, TypeStep, <1>1, <1>2, <1>3, PTL DEF Spec

-----------------------------------------------------------------------------
(* The items pinned to a worker begin in the order of their pushes.         *)
LEMMA OrderInit == Init => OrderInv
<1> SUFFICES ASSUME Init PROVE OrderInv
  OBVIOUS
<1>1. /\ \A w \in Workers : pushed[w] = <<>> /\ queue[w] = <<>> /\ pc[w] # "run"
      /\ ran = <<>>
  BY ThreadsAssumption DEF Init, Threads
<1>2. \A i : ~Copied(i)
  BY <1>1 DEF Copied, InQueue, Held, HasBegun
<1>3. \A w \in Workers : \A i, j : ~BeforeIn(w, i, j)
  BY <1>1 DEF BeforeIn
<1> QED
  BY <1>1, <1>2, <1>3 DEF OrderInv, PushedOnce, InOrder

LEMMA OrderFrame ==
    ASSUME OrderInv, use' = use, UNCHANGED <<queue, ran, pushed>>,
           \A w \in Workers :
             (pc'[w] = "run" <=> pc[w] = "run") /\ (pc[w] = "run" => fn'[w] = fn[w])
    PROVE  OrderInv'
<1>1. \A i : (Copied(i)' <=> Copied(i)) /\ (HasBegun(i)' <=> HasBegun(i))
  BY DEF Copied, InQueue, Held, HasBegun
<1>2. \A w, i, j : BeforeIn(w, i, j)' <=> BeforeIn(w, i, j)
  BY DEF BeforeIn
<1>3. PushedOnce'
  BY <1>1 DEF OrderInv, PushedOnce, Pin
<1>4. InOrder'
  BY <1>1, <1>2 DEF OrderInv, InOrder
<1> QED
  BY <1>3, <1>4 DEF OrderInv

\* An item that is on its way to a queue is nowhere else.
LEMMA NotYetCopied ==
    ASSUME ItemsInv, NEW t \in Threads, pc[t] = "pushing", fn[t] \in Items
    PROVE  ~Copied(fn[t])
<1>1. InFlight(fn[t])
  BY DEF InFlight, Flying
<1>2. ~Held(fn[t])
  BY DEF Held, ItemsInv, OnePlace, Flying, Threads
<1> QED
  BY <1>1, <1>2 DEF Copied, ItemsInv, OneStage

LEMMA OrderPushing ==
    ASSUME TypeInv, PinInv, ItemsInv, OrderInv, use' = use, NEW t \in Threads, Pushing(t)
    PROVE  OrderInv'
<1>1. UNCHANGED <<ran, Pin>> /\ pc[t] = "pushing"
  BY DEF Pushing, Pin
<1>2. /\ fn[t] \in Items /\ at[t] \in Workers
      /\ \A q \in Workers : \A k \in DOMAIN queue'[q] :
           \/ k \in DOMAIN queue[q] /\ queue'[q][k] = queue[q][k]
           \/ q = at[t] /\ k = Len(queue[q]) + 1 /\ queue'[q][k].fn = fn[t]
      /\ \A q \in Workers : \A k \in DOMAIN queue[q] :
           k \in DOMAIN queue'[q] /\ queue'[q][k] = queue[q][k]
      /\ \E k \in DOMAIN queue'[at[t]] : queue'[at[t]][k].fn = fn[t]
  BY QueueGrows
<1>3. \A w \in Workers :
        (pc'[w] = "run" <=> pc[w] = "run") /\ (pc[w] = "run" => fn'[w] = fn[w])
  BY DEF Pushing, OthersStay, Threads
<1>i. PICK i0 : i0 = fn[t]
  OBVIOUS
<1>4. i0 \in Items /\ ~Copied(i0)
  BY <1>1, <1>2, <1>i, NotYetCopied
<1>5. /\ \A i : HasBegun(i)' <=> HasBegun(i)
      /\ \A i : Copied(i)' <=> (Copied(i) \/ i = i0)
  <2>1. \A i : (HasBegun(i)' <=> HasBegun(i)) /\ (Held(i)' <=> Held(i))
    BY <1>1, <1>3 DEF HasBegun, Held
  <2>2. \A i : InQueue(i)' <=> (InQueue(i) \/ i = i0)
    BY <1>2, <1>i DEF InQueue
  <2> QED
    BY <2>1, <2>2 DEF Copied
<1>6. \A w \in Workers : \A m \in DOMAIN pushed[w] :
        /\ pushed[w][m] # i0 /\ pushed[w][m] \in Items
        /\ m \in Nat /\ m <= Len(pushed[w])
        /\ Pin[pushed[w][m]] = w /\ Copied(pushed[w][m])
  BY <1>4 DEF TypeInv, TypeOK, OrderInv, PushedOnce
<1>7. ASSUME NEW q \in Workers, NEW k \in DOMAIN queue'[q], queue'[q][k].fn # i0
      PROVE  k \in DOMAIN queue[q] /\ queue'[q][k] = queue[q][k]
  BY <1>2, <1>i, <1>7
\* What was in order stays so: the new entry is none of those compared.
<1>8. ASSUME NEW w \in Workers, NEW i \in Items, NEW j \in Items, BeforeIn(w, i, j)
      PROVE  /\ i # i0 /\ j # i0
             /\ \A k, l \in DOMAIN queue'[w] : queue'[w][k].fn = i /\ queue'[w][l].fn = j => k < l
             /\ pc'[w] = "run" /\ fn'[w] = j => HasBegun(i)'
             /\ \A l \in DOMAIN ran' : ran'[l][2] = j => \E k \in 1 .. l - 1 : ran'[k][2] = i
  <2>1. /\ \A k, l \in DOMAIN queue[w] : queue[w][k].fn = i /\ queue[w][l].fn = j => k < l
        /\ pc[w] = "run" /\ fn[w] = j => HasBegun(i)
        /\ \A l \in DOMAIN ran : ran[l][2] = j => \E k \in 1 .. l - 1 : ran[k][2] = i
    BY <1>8 DEF OrderInv, InOrder
  <2>2. i # i0 /\ j # i0
    <3>1. \A m \in DOMAIN pushed[w] : \A l \in 1 .. m - 1 : l \in DOMAIN pushed[w]
      BY DEF TypeInv, TypeOK
    <3> QED
      BY <1>6, <1>8, <3>1 DEF BeforeIn
  <2>3. \A k, l \in DOMAIN queue'[w] : queue'[w][k].fn = i /\ queue'[w][l].fn = j => k < l
    BY <1>7, <2>1, <2>2
  <2> QED
    BY <1>1, <1>3, <1>5, <2>1, <2>2, <2>3
<1>9. CASE Pin[i0] = -1
  <2>1. pushed' = pushed
    <3>1. pushed \in [Workers -> Seq(Items)]
      BY DEF TypeInv, TypeOK
    <3> QED
      BY <1>i, <1>9, <3>1 DEF Pushing
  <2>2. \A w \in Workers : Pin[i0] # w
    BY <1>9, PoolAssumption DEF Workers
  <2>3. PushedOnce'
    BY <1>1, <1>5, <2>1, <2>2 DEF OrderInv, PushedOnce
  <2>4. \A w, i, j : BeforeIn(w, i, j)' <=> BeforeIn(w, i, j)
    BY <2>1 DEF BeforeIn
  <2>5. InOrder'
    BY <1>8, <2>4 DEF InOrder
  <2> QED
    BY <2>3, <2>5 DEF OrderInv
<1>10. CASE Pin[i0] # -1
  <2>1. Pin[i0] = at[t]
    BY <1>1, <1>i, <1>10 DEF PinInv, ThreadAtHome, AtHome
  <2>p. PICK w0 \in Workers : w0 = at[t]
    BY <1>2
  <2> DEFINE old == pushed[w0]
             new == pushed'[w0]
  <2>2. /\ \A w \in Workers \ {w0} : pushed'[w] = pushed[w]
        /\ Len(old) \in Nat /\ DOMAIN old = 1 .. Len(old) /\ DOMAIN new = 1 .. Len(old) + 1
        /\ \A m \in 1 .. Len(old) : new[m] = old[m]
        /\ new[Len(old) + 1] = i0
    <3>1. pushed \in [Workers -> Seq(Items)]
      BY DEF TypeInv, TypeOK
    <3>2. pushed' = [pushed EXCEPT ![w0] = Append(@, i0)]
      BY <1>i, <1>10, <2>p DEF Pushing
    <3> QED
      BY <1>4, <3>1, <3>2
  <2>3. PushedOnce'
    <3>1. ASSUME NEW m \in DOMAIN new 
          PROVE  \E j : j = new[m] /\ Pin[j] = w0 /\ Copied(j)'
      <4>1. PICK j : j = new[m] /\ (j = i0 \/ (m \in DOMAIN old /\ j = old[m]))
        BY <2>2
      <4>2. Pin[j] = w0 /\ Copied(j)'
        BY <1>5, <1>6, <2>1, <2>p, <4>1
      <4> QED
        BY <4>1, <4>2
    <3>2. ASSUME NEW m \in DOMAIN new, NEW l \in DOMAIN new, new[m] = new[l] PROVE m = l
      BY <1>6, <2>2, <3>2 DEF OrderInv, PushedOnce
    <3>3. ASSUME NEW i \in Items, Pin[i] = w0, Copied(i)' PROVE \E m \in DOMAIN new : new[m] = i
      <4>1. CASE i = i0
        BY <2>2, <4>1
      <4>2. CASE Copied(i)
        BY <2>2, <3>3, <4>2 DEF OrderInv, PushedOnce
      <4> QED
        BY <1>5, <3>3, <4>1, <4>2
    <3>4. ASSUME NEW w \in Workers \ {w0}
          PROVE  /\ \A m \in DOMAIN pushed'[w] : \E j : j = pushed'[w][m] /\ Pin[j] = w /\ Copied(j)'
                 /\ \A m, l \in DOMAIN pushed'[w] : pushed'[w][m] = pushed'[w][l] => m = l
                 /\ \A i \in Items :
                      Pin[i] = w /\ Copied(i)' => \E m \in DOMAIN pushed'[w] : pushed'[w][m] = i
      BY <1>5, <1>6, <2>1, <2>2, <2>p DEF OrderInv, PushedOnce
    <3>5. ASSUME NEW w \in Workers
          PROVE  /\ \A m \in DOMAIN pushed'[w] : \E j : j = pushed'[w][m] /\ Pin[j] = w /\ Copied(j)'
                 /\ \A m, l \in DOMAIN pushed'[w] : pushed'[w][m] = pushed'[w][l] => m = l
                 /\ \A i \in Items :
                      Pin[i] = w /\ Copied(i)' => \E m \in DOMAIN pushed'[w] : pushed'[w][m] = i
      <4>1. CASE w = w0
        <5>1. pushed'[w] = new
          BY <4>1
        <5> HIDE DEF new
        <5> QED
          BY <3>1, <3>2, <3>3, <4>1, <5>1
      <4>2. CASE w # w0
        BY <3>4, <4>2
      <4> QED
        BY <4>1, <4>2
    <3> QED
      BY <1>1, <3>5 DEF PushedOnce
  <2>4. InOrder'
    <3> SUFFICES ASSUME NEW w \in Workers, NEW i \in Items, NEW j \in Items, BeforeIn(w, i, j)'
                 PROVE  /\ \A k, l \in DOMAIN queue'[w] :
                             queue'[w][k].fn = i /\ queue'[w][l].fn = j => k < l
                        /\ pc'[w] = "run" /\ fn'[w] = j => HasBegun(i)'
                        /\ \A l \in DOMAIN ran' :
                             ran'[l][2] = j => \E k \in 1 .. l - 1 : ran'[k][2] = i
      BY DEF InOrder
    <3>1. PICK m \in DOMAIN pushed'[w] :
             pushed'[w][m] = j /\ \E l \in 1 .. m - 1 : pushed'[w][l] = i
      BY DEF BeforeIn
    <3>2. PICK l \in 1 .. m - 1 : pushed'[w][l] = i
      BY <3>1
    <3>3. CASE w # w0 \/ m # Len(old) + 1
      <4>1. /\ m \in DOMAIN pushed[w] /\ pushed'[w][m] = pushed[w][m]
            /\ pushed'[w][l] = pushed[w][l]
        <5>1. CASE w # w0
          BY <2>2, <5>1
        <5>2. CASE w = w0
          <6>1. m \in 1 .. Len(old) + 1 /\ m # Len(old) + 1
            BY <2>2, <3>3, <5>2
          <6>2. m \in 1 .. Len(old) /\ l \in 1 .. Len(old)
            BY <2>2, <6>1
          <6> QED
            BY <2>2, <5>2, <6>2
        <5> QED
          BY <5>1, <5>2
      <4>2. BeforeIn(w, i, j)
        BY <3>1, <3>2, <4>1 DEF BeforeIn
      <4> QED
        BY <1>8, <4>2
    <3>4. CASE w = w0 /\ m = Len(old) + 1
      <4>1. j = i0 /\ i # i0
        BY <1>6, <2>2, <3>1, <3>2, <3>4
      <4>2. ASSUME NEW x \in DOMAIN queue'[w], NEW y \in DOMAIN queue'[w],
                   queue'[w][x].fn = i, queue'[w][y].fn = j
            PROVE  x < y
        <5>1. x \in DOMAIN queue[w]
          BY <1>7, <4>1, <4>2
        <5>2. y \notin DOMAIN queue[w] \/ queue'[w][y] # queue[w][y]
          BY <1>4, <4>1, <4>2 DEF Copied, InQueue
        <5>3. y = Len(queue[w]) + 1
          BY <1>2, <5>2
        <5>4. x \in 1 .. Len(queue[w]) /\ Len(queue[w]) \in Nat
          BY <5>1 DEF TypeInv, TypeOK
        <5> QED
          BY <5>3, <5>4
      <4>3. ~(pc'[w] = "run" /\ fn'[w] = j)
        BY <1>3, <1>4, <4>1 DEF Copied, Held
      <4>4. \A x \in DOMAIN ran' : ran'[x][2] # j
        BY <1>1, <1>4, <4>1 DEF Copied, HasBegun
      <4> QED
        BY <4>2, <4>3, <4>4
    <3> QED
      BY <3>3, <3>4
  <2> QED
    BY <2>3, <2>4 DEF OrderInv
<1> QED
  BY <1>9, <1>10

LEMMA OrderTaking ==
    ASSUME TypeInv, PinInv, ItemsInv, OrderInv, use' = use,
           NEW v \in Workers, NEW q \in Workers, Taking(v, q)
    PROVE  OrderInv'
<1>0. v \in Threads
  BY DEF Threads
<1>1. UNCHANGED <<ran, pushed, Pin>>
  BY DEF Taking, Pin
<1>2. /\ 1 \in DOMAIN queue[q] /\ fn'[v] = queue[q][1].fn /\ fn'[v] \in Items
      /\ \A r \in Workers \ {q} : queue'[r] = queue[r]
      /\ \A k \in DOMAIN queue'[q] :
           /\ k \in Nat /\ k + 1 \in DOMAIN queue[q] /\ k + 1 # 1
           /\ queue'[q][k] = queue[q][k + 1]
      /\ \A k \in DOMAIN queue[q] :
           k # 1 => k - 1 \in DOMAIN queue'[q] /\ queue'[q][k - 1] = queue[q][k]
  BY QueueShrinks
<1>3. /\ pc[v] # "run" /\ pc'[v] = "run"
      /\ \A u \in Workers \ {v} : pc'[u] = pc[u] /\ fn'[u] = fn[u]
  BY DEF Taking, OthersStay, Threads
<1>i. PICK i0 : i0 = fn'[v]
  OBVIOUS
\* The worker takes an item pinned to it from its own queue only.
<1>4. Pin[i0] = -1 \/ (Pin[i0] = v /\ q = v)
  <2>1. /\ Pin[i0] = -1 \/ Pin[i0] = q
        /\ Head(queue[q]).can_steal => Pin[i0] = -1
    <3>1. QueueAtHome(q) /\ Head(queue[q]) = queue[q][1]
      BY <1>2 DEF PinInv, TypeInv, TypeOK
    <3> QED
      BY <1>2, <1>i, <3>1 DEF QueueAtHome, AtHome
  <2>2. q = v \/ Head(queue[q]).can_steal
    BY DEF Taking
  <2> QED
    BY <2>1, <2>2
<1>5. /\ \A i : HasBegun(i)' <=> HasBegun(i)
      /\ \A i : Copied(i)' <=> Copied(i)
  <2>1. \A i : HasBegun(i)' <=> HasBegun(i)
    BY <1>1 DEF HasBegun
  <2>2. \A i : Held(i)' <=> (Held(i) \/ i = i0)
    BY <1>3, <1>i DEF Held
  <2>3. \A i : InQueue(i) => InQueue(i)' \/ i = i0
    BY <1>2, <1>i DEF InQueue
  <2>4. \A i : InQueue(i)' => InQueue(i)
    BY <1>2 DEF InQueue
  <2>5. InQueue(i0)
    BY <1>2, <1>i DEF InQueue
  <2> QED
    BY <2>1, <2>2, <2>3, <2>4, <2>5 DEF Copied
<1>6. PushedOnce'
  BY <1>1, <1>5 DEF OrderInv, PushedOnce
<1>7. InOrder'
  <2> SUFFICES ASSUME NEW w \in Workers, NEW i \in Items, NEW j \in Items, BeforeIn(w, i, j)'
               PROVE  /\ \A k, l \in DOMAIN queue'[w] :
                           queue'[w][k].fn = i /\ queue'[w][l].fn = j => k < l
                      /\ pc'[w] = "run" /\ fn'[w] = j => HasBegun(i)'
                      /\ \A l \in DOMAIN ran' :
                           ran'[l][2] = j => \E k \in 1 .. l - 1 : ran'[k][2] = i
    BY DEF InOrder
  <2>1. BeforeIn(w, i, j)
    BY <1>1 DEF BeforeIn
  <2>2. /\ \A k, l \in DOMAIN queue[w] : queue[w][k].fn = i /\ queue[w][l].fn = j => k < l
        /\ pc[w] = "run" /\ fn[w] = j => HasBegun(i)
        /\ \A l \in DOMAIN ran : ran[l][2] = j => \E k \in 1 .. l - 1 : ran[k][2] = i
    BY <2>1 DEF OrderInv, InOrder
  <2>3. ASSUME NEW k \in DOMAIN queue'[w], NEW l \in DOMAIN queue'[w],
               queue'[w][k].fn = i, queue'[w][l].fn = j
        PROVE  k < l
    <3>1. CASE w = q
      <4>1. /\ k \in Nat /\ l \in Nat /\ k + 1 \in DOMAIN queue[w] /\ l + 1 \in DOMAIN queue[w]
            /\ queue[w][k + 1].fn = i /\ queue[w][l + 1].fn = j
        BY <1>2, <2>3, <3>1
      <4>2. k + 1 < l + 1
        BY <2>2, <4>1
      <4> QED
        BY <4>1, <4>2
    <3>2. CASE w # q
      BY <1>2, <2>2, <2>3, <3>2
    <3> QED
      BY <3>1, <3>2
  <2>4. ASSUME pc'[w] = "run", fn'[w] = j PROVE HasBegun(i)'
    <3>1. CASE w # v
      BY <1>3, <1>5, <2>2, <2>4, <3>1
    <3>2. CASE w = v
      <4>1. j = i0 /\ Pin[j] = v /\ Pin[i] = v /\ Copied(i)
        <5>1. PICK m \in DOMAIN pushed[w] :
                 pushed[w][m] = j /\ \E l \in 1 .. m - 1 : pushed[w][l] = i
          BY <2>1 DEF BeforeIn
        <5>2. PICK l \in 1 .. m - 1 : pushed[w][l] = i
          BY <5>1
        <5>3. l \in DOMAIN pushed[w]
          BY DEF TypeInv, TypeOK
        <5>4. j = i0
          BY <1>i, <2>4, <3>2
        <5> QED
          BY <3>2, <5>1, <5>2, <5>3, <5>4 DEF OrderInv, PushedOnce
      <4>2. q = v /\ queue[v][1].fn = j
        <5>1. v # -1
          BY PoolAssumption DEF Workers
        <5> QED
          BY <1>2, <1>i, <1>4, <4>1, <5>1
      <4>3. ASSUME InQueue(i) PROVE FALSE
        <5>1. PICK r \in Workers : \E k \in DOMAIN queue[r] : queue[r][k].fn = i
          BY <4>3 DEF InQueue
        <5>2. PICK k \in DOMAIN queue[r] : queue[r][k].fn = i
          BY <5>1
        <5>3. r = v
          <6>1. QueueAtHome(r)
            BY DEF PinInv
          <6>2. AtHome(i, r) /\ v # -1
            BY <5>2, <6>1, PoolAssumption DEF QueueAtHome, Workers
          <6> QED
            BY <4>1, <6>2 DEF AtHome
        <5>4. k < 1
          BY <1>2, <2>2, <3>2, <4>2, <5>2, <5>3
        <5>5. k \in 1 .. Len(queue[v])
          BY <5>2, <5>3 DEF TypeInv, TypeOK
        <5> QED
          BY <5>4, <5>5
      <4>4. ~Held(i)
        <5> SUFFICES ASSUME NEW u \in Workers, pc[u] = "run", fn[u] = i PROVE FALSE
          BY DEF Held
        <5>1. ThreadAtHome(u) /\ v # -1
          BY PoolAssumption DEF PinInv, Threads, Workers
        <5>2. u = v
          BY <4>1, <5>1 DEF ThreadAtHome, AtHome
        <5> QED
          BY <1>3, <5>2
      <4> QED
        BY <1>5, <4>1, <4>3, <4>4 DEF Copied
    <3> QED
      BY <3>1, <3>2
  <2> QED
    BY <1>1, <2>2, <2>3, <2>4
<1> QED
  BY <1>6, <1>7 DEF OrderInv

LEMMA OrderBeginning ==
    ASSUME TypeInv, PinInv, ItemsInv, OrderInv, use' = use, NEW v \in Workers, Beginning(v)
    PROVE  OrderInv'
<1>0. v \in Threads
  BY DEF Threads
<1>1. UNCHANGED <<queue, pushed, Pin>>
  BY DEF Beginning, Pin
<1>2. /\ fn[v] \in Items
      /\ \A k \in DOMAIN ran' :
           \/ k \in DOMAIN ran /\ ran'[k] = ran[k]
           \/ k = Len(ran) + 1 /\ ran'[k] = <<v, fn[v]>>
      /\ \A k \in DOMAIN ran : k \in DOMAIN ran' /\ ran'[k] = ran[k]
      /\ Len(ran) + 1 \in DOMAIN ran' /\ ran'[Len(ran) + 1] = <<v, fn[v]>>
      /\ Len(ran) \in Nat /\ DOMAIN ran = 1 .. Len(ran)
  BY RanGrows
<1>3. /\ pc[v] = "run" /\ pc'[v] # "run"
      /\ \A u \in Workers \ {v} : pc'[u] = pc[u] /\ fn'[u] = fn[u]
  BY DEF Beginning, OthersStay, Threads
<1>i. PICK i0 : i0 = fn[v]
  OBVIOUS
<1>4. Pin[i0] = -1 \/ Pin[i0] = v
  BY <1>0, <1>3, <1>i DEF PinInv, ThreadAtHome, AtHome
<1>5. /\ \A i : HasBegun(i)' <=> (HasBegun(i) \/ i = i0)
      /\ \A i : Copied(i)' <=> Copied(i)
  <2>1. \A i : HasBegun(i)' <=> (HasBegun(i) \/ i = i0)
    BY <1>2, <1>i DEF HasBegun
  <2>2. \A i : InQueue(i)' <=> InQueue(i)
    BY <1>1 DEF InQueue
  <2>3. /\ \A i : Held(i) => Held(i)' \/ i = i0
        /\ \A i : Held(i)' => Held(i)
        /\ Held(i0)
    BY <1>3, <1>i DEF Held
  <2> QED
    BY <2>1, <2>2, <2>3 DEF Copied
<1>6. PushedOnce'
  BY <1>1, <1>5 DEF OrderInv, PushedOnce
<1>7. InOrder'
  <2> SUFFICES ASSUME NEW w \in Workers, NEW i \in Items, NEW j \in Items, BeforeIn(w, i, j)'
               PROVE  /\ \A k, l \in DOMAIN queue'[w] :
                           queue'[w][k].fn = i /\ queue'[w][l].fn = j => k < l
                      /\ pc'[w] = "run" /\ fn'[w] = j => HasBegun(i)'
                      /\ \A l \in DOMAIN ran' :
                           ran'[l][2] = j => \E k \in 1 .. l - 1 : ran'[k][2] = i
    BY DEF InOrder
  <2>1. BeforeIn(w, i, j)
    BY <1>1 DEF BeforeIn
  <2>2. /\ \A k, l \in DOMAIN queue[w] : queue[w][k].fn = i /\ queue[w][l].fn = j => k < l
        /\ pc[w] = "run" /\ fn[w] = j => HasBegun(i)
        /\ \A l \in DOMAIN ran : ran[l][2] = j => \E k \in 1 .. l - 1 : ran[k][2] = i
    BY <2>1 DEF OrderInv, InOrder
  <2>3. \A k, l \in DOMAIN queue'[w] : queue'[w][k].fn = i /\ queue'[w][l].fn = j => k < l
    BY <1>1, <2>2
  <2>4. pc'[w] = "run" /\ fn'[w] = j => HasBegun(i)'
    BY <1>3, <1>5, <2>2
  <2>5. ASSUME NEW l \in DOMAIN ran', ran'[l][2] = j
        PROVE  \E k \in 1 .. l - 1 : ran'[k][2] = i
    <3>1. CASE l \in DOMAIN ran /\ ran'[l] = ran[l]
      <4>1. PICK k \in 1 .. l - 1 : ran[k][2] = i
        BY <2>2, <2>5, <3>1
      <4>2. k \in DOMAIN ran
        BY <1>2, <3>1
      <4> QED
        BY <1>2, <4>1, <4>2
    <3>2. CASE l = Len(ran) + 1 /\ ran'[l] = <<v, fn[v]>>
      <4>1. j = i0
        BY <1>i, <2>5, <3>2
      <4>2. Pin[j] = w
        BY <2>1 DEF BeforeIn, OrderInv, PushedOnce
      <4>3. w = v
        BY <1>4, <4>1, <4>2, PoolAssumption DEF Workers
      <4>4. HasBegun(i)
        BY <1>3, <1>i, <2>2, <4>1, <4>3
      <4>5. PICK k \in DOMAIN ran : ran[k][2] = i
        BY <4>4 DEF HasBegun
      <4> QED
        BY <1>2, <3>2, <4>5
    <3> QED
      BY <1>2, <3>1, <3>2
  <2> QED
    BY <2>3, <2>4, <2>5
<1> QED
  BY <1>6, <1>7 DEF OrderInv

LEMMA OrderStep ==
    ASSUME TypeInv, PinInv, ItemsInv, OrderInv, [Next]_vars PROVE OrderInv'
<1>1. use' = use
  BY UseFixed
<1>2. CASE Quiet
  BY <1>1, <1>2, OrderFrame DEF Quiet
<1>3. ASSUME NEW t \in Clients, Calling(t) PROVE OrderInv'
  <2>1. \A w \in Workers : w \in Threads \ {t}
    BY ThreadsAssumption DEF Threads
  <2>2. UNCHANGED <<queue, ran, pushed>>
    BY <1>3 DEF Calling
  <2>3. \A w \in Workers : pc'[w] = pc[w] /\ fn'[w] = fn[w]
    BY <1>3, <2>1 DEF Calling, OthersStay
  <2> QED
    BY <1>1, <2>2, <2>3, OrderFrame
<1> QED
  BY <1>1, <1>2, <1>3, Kinds, OrderPushing, OrderTaking, OrderBeginning

\* However the pool is used, whatever is stolen and whoever pushes: what is scheduled
\* with an id (ScheduleById, thread_pool.hpp) begins in the order of the pushes, since
\* only the worker it is pinned to takes it, and takes it from the front.
THEOREM PinnedItemsInOrder ==
    ASSUME EachScheduledOnce
    PROVE  Spec => []PinnedRunInOrder
<1>1. TypeInv /\ OrderInv => PinnedRunInOrder
  <2> SUFFICES ASSUME TypeInv, OrderInv, NEW k \in DOMAIN ran, Pin[ran[k][2]] # -1
               PROVE  \E m \in DOMAIN pushed[Pin[ran[k][2]]] :
                        /\ pushed[Pin[ran[k][2]]][m] = ran[k][2]
                        /\ \A j \in 1 .. m - 1 :
                             \E l \in 1 .. k - 1 : ran[l][2] = pushed[Pin[ran[k][2]]][j]
    BY DEF PinnedRunInOrder
  <2>1. PICK i \in Items : i = ran[k][2]
    BY DEF TypeInv, TypeOK
  <2>2. PICK w \in Workers : w = Pin[i]
    BY <2>1, UseTypes DEF TypeInv
  <2>3. Copied(i)
    BY <2>1 DEF Copied, HasBegun
  <2>4. PICK m \in DOMAIN pushed[w] : pushed[w][m] = i
    BY <2>2, <2>3 DEF OrderInv, PushedOnce
  <2>5. ASSUME NEW j \in 1 .. m - 1 PROVE \E l \in 1 .. k - 1 : ran[l][2] = pushed[w][j]
    <3>1. pushed[w][j] \in Items
      BY <2>4 DEF TypeInv, TypeOK
    <3>2. BeforeIn(w, pushed[w][j], i)
      BY <2>4 DEF BeforeIn
    <3> QED
      BY <2>1, <3>1, <3>2 DEF OrderInv, InOrder
  <2> QED
    BY <2>1, <2>2, <2>4, <2>5
<1>2. TypeInv /\ PinInv /\ ItemsInv /\ OrderInv /\ [Next]_vars => OrderInv'
  BY OrderStep
<1>3. TypeInv /\ ItemsInv /\ [Next]_vars => ItemsInv'
  BY ItemsStep
<1>4. Init => ItemsInv /\ OrderInv
  BY ItemsInit, OrderInit
<1> QED
  BY TypeInit, TypeStep, PinInit, PinStep, <1>1, <1>2, <1>3, <1>4, PTL DEF Spec
=============================================================================
