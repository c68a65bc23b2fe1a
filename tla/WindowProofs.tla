--------------------------- MODULE WindowProofs ---------------------------
(***************************************************************************)
(* What the window shows, for any accounts, tasks, logins and changes by   *)
(* other processes: proofs about Pages and Window.                         *)
(***************************************************************************)
EXTENDS Window, SequenceTheorems, TLAPS

UiType ==
  [user : BOOLEAN, insert : BOOLEAN, pressed : SUBSET Id,
   active : Id \union {None}, detail : TaskType \union {None},
   page : {"user", "insert", "detail"}, reveal : BOOLEAN]

\* The pages, the buttons and the flap agree.
UiInv(u) ==
  u \in UiType /\ ButtonsAgree(u) /\ ClosedIsClean(u) /\ DetailAgrees(u)

USE WindowConstants DEF WindowConstants

(***************************************************************************)
(* The handlers keep it, and which task the detail page has after them.    *)
(***************************************************************************)
LEMMA NoneIsNoTask == None \notin Id /\ None \notin TaskType
  BY DEF Id, TaskType

\* The flap is closed: where the last button comes up, the detail page goes.
LEMMA ClosedKeeps ==
  ASSUME NEW u \in UiType, ButtonsAgree(u), ~u.reveal,
         u.user \/ u.insert \/ u.active # None \/ u.detail = None
  PROVE  UiInv(Closed(u)) /\ Closed(u).detail = None
  BY DEF UiInv, UiType, ButtonsAgree, ClosedIsClean, DetailAgrees, Closed

\* goto_list_page, also after a button of an open flap came up.
LEMMA ListPageKeeps ==
  ASSUME NEW u \in UiType, ButtonsAgree(u), u.reveal \/ UiInv(u)
  PROVE  UiInv(ListPage(u)) /\ ListPage(u).detail = None
  <1> DEFINE v == [u EXCEPT !.detail = None, !.reveal = FALSE]
  <1>1. /\ v \in UiType /\ ButtonsAgree(v) /\ ~v.reveal /\ v.detail = None
        /\ v.user = u.user /\ v.insert = u.insert /\ v.active = u.active
    BY DEF UiType, ButtonsAgree
  <1>2. CASE u.reveal
    BY <1>1, <1>2, ClosedKeeps DEF ListPage
  <1>3. CASE ~u.reveal
    <2>1. UiInv(v)
      BY <1>1, <1>3 DEF UiInv, ClosedIsClean, DetailAgrees
    <2> QED BY <1>1, <1>3, <2>1 DEF ListPage
  <1> QED BY <1>2, <1>3

LEMMA BesideKeeps ==
  ASSUME NEW u, UiInv(u)
  PROVE  UiInv(ClickBeside(u)) /\ ClickBeside(u).detail = None
  <1> DEFINE v == [u EXCEPT !.reveal = FALSE]
  <1>1. /\ v \in UiType /\ ButtonsAgree(v) /\ ~v.reveal
        /\ v.user = u.user /\ v.insert = u.insert /\ v.active = u.active
        /\ v.detail = u.detail
    BY DEF UiInv, UiType, ButtonsAgree
  <1>2. u.user \/ u.insert \/ u.active # None \/ u.detail = None
    BY NoneIsNoTask DEF UiInv, UiType, DetailAgrees, TaskType
  <1> QED BY <1>1, <1>2, ClosedKeeps DEF ClickBeside

LEMMA ReleaseKeeps ==
  ASSUME NEW u, UiInv(u)
  PROVE  UiInv(Release(u)) /\ Release(u).detail \in {u.detail, None}
  BY NoneIsNoTask
     DEF UiInv, UiType, ButtonsAgree, ClosedIsClean, DetailAgrees, Release,
         ListPage, Closed

\* A header button goes down: the active task's comes up, without more.
LEMMA DownKeeps ==
  ASSUME NEW u \in UiType, NEW w \in UiType, u.pressed = {u.active} \ {None},
         w.user # w.insert, w.pressed = u.pressed, w.active = u.active,
         NEW page \in {"user", "insert"}
  PROVE  UiInv([Release(w) EXCEPT !.detail = None, !.page = page,
                                  !.reveal = TRUE])
  <1>1. /\ Release(w) \in UiType
        /\ Release(w).user = w.user /\ Release(w).insert = w.insert
        /\ Release(w).pressed = {} /\ Release(w).active = None
    BY DEF UiType, Release
  <1> QED BY <1>1 DEF UiInv, UiType, ButtonsAgree, ClosedIsClean, DetailAgrees

LEMMA UserKeeps ==
  ASSUME NEW u, UiInv(u)
  PROVE  UiInv(ClickUser(u)) /\ ClickUser(u).detail = None
  <1>1. CASE u.user
    <2> DEFINE v == [u EXCEPT !.user = FALSE]
    <2>1. ~u.insert /\ v \in UiType /\ ButtonsAgree(v) /\ v.reveal
      BY <1>1 DEF UiInv, UiType, ButtonsAgree, ClosedIsClean
    <2>2. ClickUser(u) = ListPage(v)
      BY <1>1, <2>1 DEF ClickUser
    <2> QED BY <2>1, <2>2, ListPageKeeps
  <1>2. CASE ~u.user
    <2> DEFINE w == [u EXCEPT !.user = TRUE, !.insert = FALSE]
    <2>1. /\ w \in UiType /\ u \in UiType /\ u.pressed = {u.active} \ {None}
          /\ w.user # w.insert /\ w.pressed = u.pressed
          /\ w.active = u.active
      BY DEF UiInv, UiType, ButtonsAgree
    <2>2. ClickUser(u) =
            [Release(w) EXCEPT !.detail = None, !.page = "user",
                               !.reveal = TRUE]
      BY <1>2 DEF ClickUser
    <2>3. UiInv(ClickUser(u))
      BY <2>1, <2>2, DownKeeps
    <2>4. Release(w) \in UiType
      BY <2>1 DEF Release, UiType
    <2> QED BY <2>2, <2>3, <2>4 DEF UiType
  <1> QED BY <1>1, <1>2

LEMMA InsertKeeps ==
  ASSUME NEW u, UiInv(u)
  PROVE  UiInv(ClickInsert(u)) /\ ClickInsert(u).detail = None
  <1>1. CASE u.insert
    <2> DEFINE v == [u EXCEPT !.insert = FALSE]
    <2>1. ~u.user /\ v \in UiType /\ ButtonsAgree(v) /\ v.reveal
      BY <1>1 DEF UiInv, UiType, ButtonsAgree, ClosedIsClean
    <2>2. ClickInsert(u) = ListPage(v)
      BY <1>1, <2>1 DEF ClickInsert
    <2> QED BY <2>1, <2>2, ListPageKeeps
  <1>2. CASE ~u.insert
    <2> DEFINE w == [u EXCEPT !.insert = TRUE, !.user = FALSE]
    <2>1. /\ w \in UiType /\ u \in UiType /\ u.pressed = {u.active} \ {None}
          /\ w.user # w.insert /\ w.pressed = u.pressed
          /\ w.active = u.active
      BY DEF UiInv, UiType, ButtonsAgree
    <2>2. ClickInsert(u) =
            [Release(w) EXCEPT !.detail = None, !.page = "insert",
                               !.reveal = TRUE]
      BY <1>2 DEF ClickInsert
    <2>3. UiInv(ClickInsert(u))
      BY <2>1, <2>2, DownKeeps
    <2>4. Release(w) \in UiType
      BY <2>1 DEF Release, UiType
    <2> QED BY <2>2, <2>3, <2>4 DEF UiType
  <1> QED BY <1>1, <1>2

LEMMA PressKeeps ==
  ASSUME NEW u, UiInv(u), NEW t \in TaskType, t.id \notin u.pressed
  PROVE  UiInv(Press(u, t)) /\ Press(u, t).detail = t
  <1> DEFINE w == [u EXCEPT !.pressed = @ \union {t.id}]
  <1>1. t.id \in Id /\ t.id # None
    BY NoneIsNoTask DEF TaskType
  <1>2. /\ w \in UiType /\ w.active = u.active
        /\ w.pressed = {t.id} \union ({u.active} \ {None})
        /\ u.active # t.id /\ ~(w.user /\ w.insert)
    BY <1>1 DEF UiInv, UiType, ButtonsAgree
  <1> HIDE DEF w
  <1>3. /\ Release(w) \in UiType
        /\ ~(Release(w).user /\ Release(w).insert)
        /\ Release(w).pressed = {t.id}
    <2>1. CASE w.active = None
      BY <1>1, <1>2, <2>1 DEF Release
    <2>2. CASE w.active # None
      <3> DEFINE v == [w EXCEPT !.pressed = @ \ {w.active}, !.active = None]
      <3>1. /\ v \in UiType /\ v.active = None /\ v.pressed = {t.id}
            /\ v.user = w.user /\ v.insert = w.insert
        BY <1>1, <1>2, <2>2 DEF UiType
      <3>2. CASE w.user \/ w.insert
        <4>1. Release(w) = v
          BY <2>2, <3>2 DEF Release
        <4> QED BY <1>2, <3>1, <4>1
      <3>3. CASE ~w.user /\ ~w.insert
        <4>1. Release(w) = ListPage(v)
          BY <2>2, <3>3 DEF Release
        <4>2. ListPage(v) = [v EXCEPT !.detail = None, !.reveal = FALSE]
          <5> DEFINE x == [v EXCEPT !.detail = None, !.reveal = FALSE]
          <5>1. ~x.user /\ ~x.insert /\ x.active = None
            BY <3>1, <3>3 DEF UiType
          <5>2. Closed(x) = x
            BY <5>1 DEF Closed
          <5>3. ListPage(v) = IF v.reveal THEN Closed(x) ELSE x
            BY DEF ListPage
          <5> QED BY <5>2, <5>3
        <4> HIDE DEF v
        <4>3. /\ ListPage(v) \in UiType /\ ListPage(v).pressed = {t.id}
              /\ ~ListPage(v).user
          BY <1>2, <3>1, <3>3, <4>2 DEF UiType
        <4> QED BY <4>1, <4>3
      <3> QED BY <3>2, <3>3
    <2> QED BY <2>1, <2>2
  <1>4. Press(u, t) =
          [Release(w) EXCEPT !.active = t.id, !.detail = t, !.page = "detail",
                             !.reveal = TRUE]
    BY DEF Press, w
  <1>5. /\ Press(u, t) \in UiType /\ Press(u, t).detail = t
        /\ Press(u, t).pressed = {t.id} /\ Press(u, t).active = t.id
        /\ Press(u, t).reveal /\ Press(u, t).page = "detail"
        /\ Press(u, t).user = Release(w).user
        /\ Press(u, t).insert = Release(w).insert
    BY <1>1, <1>3, <1>4 DEF UiType
  <1> QED BY <1>1, <1>3, <1>5
          DEF UiInv, ButtonsAgree, ClosedIsClean, DetailAgrees

LEMMA TaskKeeps ==
  ASSUME NEW u, UiInv(u), NEW t \in TaskType,
         NEW v, v \in {ClickTask(u, t), Activate(u, t)}
  PROVE  UiInv(v) /\ v.detail \in {u.detail, None, t}
  <1>1. t.id \in u.pressed => u.active = t.id
    BY DEF UiInv, ButtonsAgree
  <1> QED BY <1>1, ReleaseKeeps, PressKeeps DEF ClickTask, Activate

\* A list is shown: the detail page has one of its tasks, or closes.
LEMMA ShowKeeps ==
  ASSUME NEW u, UiInv(u), NEW S \in SUBSET TaskType
  PROVE  /\ UiInv(Show(u, S))
         /\ Show(u, S).detail \in S \union {None}
         /\ u.detail = None => Show(u, S).detail = None
  <1> DEFINE ids == {t.id : t \in S}
             v == [u EXCEPT !.pressed = @ \intersect ids,
                            !.active = IF @ \in ids THEN @ ELSE None]
  <1>1. ids \subseteq Id
    BY DEF TaskType
  <1>2. None \notin ids
    BY <1>1, NoneIsNoTask
  <1>3. /\ v \in UiType /\ ButtonsAgree(v)
        /\ v.detail = u.detail /\ v.reveal = u.reveal /\ v.page = u.page
        /\ v.user = u.user /\ v.insert = u.insert
        /\ v.active = IF u.active \in ids THEN u.active ELSE None
    <2> HIDE DEF ids
    <2>1. /\ u \in UiType /\ u.pressed = {u.active} \ {None}
          /\ ~(u.user /\ u.insert)
      BY DEF UiInv, ButtonsAgree
    <2>2. /\ v \in UiType
          /\ v.detail = u.detail /\ v.reveal = u.reveal /\ v.page = u.page
          /\ v.user = u.user /\ v.insert = u.insert
          /\ v.active = IF u.active \in ids THEN u.active ELSE None
          /\ v.pressed = u.pressed \intersect ids
      BY <1>1, <2>1 DEF UiType
    <2> HIDE DEF v
    <2> QED BY <1>2, <2>1, <2>2 DEF ButtonsAgree
  <1>4. CASE u.detail = None
    <2>1. Show(u, S) = v
      BY <1>4 DEF Show
    <2> HIDE DEF v, ids
    <2> QED BY <1>3, <1>4, <2>1 DEF UiInv, ClosedIsClean, DetailAgrees
  <1>5. CASE u.detail # None /\ u.detail.id \notin ids
    <2>1. Show(u, S) = ListPage(v)
      BY <1>5 DEF Show
    <2>2. v.reveal
      BY <1>3, <1>5 DEF UiInv, DetailAgrees
    <2> HIDE DEF v, ids
    <2> QED BY <1>3, <1>5, <2>1, <2>2, ListPageKeeps
  <1>6. CASE u.detail # None /\ u.detail.id \in ids
    <2> DEFINE d == CHOOSE t \in S : t.id = u.detail.id
    <2>1. Show(u, S) = [v EXCEPT !.detail = d]
      BY <1>6 DEF Show
    <2>2. d \in S /\ d.id = u.detail.id
      BY <1>6
    <2> HIDE DEF v, ids, d
    <2>3. d \in TaskType
      BY <2>2
    <2>4. /\ u.reveal /\ u.page = "detail"
          /\ u.active = u.detail.id \/ u.user \/ u.insert
      BY <1>6 DEF UiInv, DetailAgrees
    <2>5. v.active = u.detail.id \/ v.user \/ v.insert
      BY <1>3, <1>6, <2>4
    <2> DEFINE w == [v EXCEPT !.detail = d]
    <2>6. /\ w \in UiType /\ w.detail = d /\ w.reveal = v.reveal
          /\ w.page = v.page /\ w.active = v.active /\ w.user = v.user
          /\ w.insert = v.insert /\ w.pressed = v.pressed
      BY <1>3, <2>3 DEF UiType
    <2> HIDE DEF w
    <2>7. ButtonsAgree(w)
      BY <1>3, <2>6 DEF ButtonsAgree
    <2>8. ClosedIsClean(w) /\ DetailAgrees(w)
      BY <1>3, <2>2, <2>4, <2>5, <2>6 DEF ClosedIsClean, DetailAgrees
    <2>9. Show(u, S) = w
      BY <2>1 DEF w
    <2> QED BY <1>6, <2>2, <2>6, <2>7, <2>8, <2>9 DEF UiInv
  <1> QED BY <1>4, <1>5, <1>6

(***************************************************************************)
(* The lists on their way.                                                 *)
(***************************************************************************)
\* The login the thread works for: one that the main loop joins it for has
\* been counted already.
Current ==
  IF main = "joining" /\ target # NoAccount THEN logins - 1 ELSE logins

Working == sync \notin {"none", "start"}

\* The thread is there from the first login on.  Until it is joined it works
\* for the account of the window and the current login.
ThreadInv ==
  /\ sync = "none" =>
       /\ account = NoAccount /\ queue = <<>> /\ pending = 0 /\ box = NoList
       /\ main = "joining" => target = NoAccount
  /\ sync # "none" =>
       account \in Account /\ Current >= 1 /\ seen <= lists[account].version
  /\ sync = "start" => seen = 0
  /\ Working => mine.of = account
  /\ sync \in {"read", "enqueue", "emit", "wait"} => mine.login = Current
  /\ sync = "test" /\ run => mine.login = Current
  /\ main # "loop" => ~run

\* A list is of its account, of a login that was, and what the thread has
\* seen of this login is not older.
Sent(e) ==
  /\ e \in ListType
  /\ \A t \in e.tasks : t.of = e.of
  /\ e.login <= Current
  /\ sync = "start" => e.login < Current
  /\ Working /\ e.login = Current => e.version <= seen
  /\ sync # "none" /\ e.login = Current => e.of = account

Before(d, e) ==
  d.login < e.login \/ (d.login = e.login /\ d.version < e.version)

\* The lists in the box, in the queue and at the thread are of ascending
\* logins and versions.
OrderInv ==
  /\ Sent(box)
  /\ \A i \in 1..Len(queue) : Sent(queue[i]) /\ Before(box, queue[i])
  /\ \A i, j \in 1..Len(queue) : i < j => Before(queue[i], queue[j])
  /\ sync = "enqueue" =>
       /\ Sent(batch) /\ batch.login = Current
       /\ Before(box, batch)
       /\ \A i \in 1..Len(queue) : Before(queue[i], batch)

\* There are no more emissions than changes and logins: one for each first
\* list of a login and one for each change seen.
CountInv ==
  /\ \A a \in Account : lists[a].version <= edits + 1
  /\ sync # "none" =>
       pending + (IF sync \in {"enqueue", "emit"} THEN 1 ELSE 0)
               + (IF seen = 0 THEN 1 ELSE lists[account].version - seen)
         <= edits + Current

\* Who waits for the account's list has its task in the detail page.
DetailInv == waits /\ ui.detail # None => box.login = Current

Inv ==
  /\ TypeOK /\ ThreadInv /\ OrderInv /\ CountInv /\ EmissionPerList
  /\ PagesInv /\ DetailInv

LEMMA InitInv ==
  ASSUME Init
  PROVE  Inv
  <1>1. UiInv(ui) /\ ui.detail = None
    <2>1. UiInv(Blank)
      BY DEF Blank, UiInv, UiType, ButtonsAgree, ClosedIsClean, DetailAgrees
    <2> QED BY <2>1, UserKeeps DEF Init
  <1>2. /\ lists \in [Account -> [ids : SUBSET Id,
                                 version : 1..(EditStop + 1)]]
        /\ \A a \in Account : lists[a].version = 1
    BY DEF Init
  <1>3. NoList \in ListType /\ NoList.tasks = {} /\ NoList.login = 0
    BY DEF NoList, ListType
  <1>4. TypeOK
    <2>1. ui \in UiType
      BY <1>1 DEF UiInv
    <2>2. queue \in Seq(ListType) /\ {batch, box} \subseteq ListType
      BY <1>3 DEF Init
    <2>3. /\ mine \in [of : Account \union {NoAccount}, login : 0..LoginStop]
          /\ {account, target} \subseteq Account \union {NoAccount}
      BY DEF Init
    <2>4. /\ seen \in 0..(EditStop + 1)
          /\ pending \in 0..(EditStop + LoginStop)
          /\ edits \in 0..EditStop /\ logins \in 0..LoginStop
      BY DEF Init
    <2>5. waits \in BOOLEAN /\ main = "loop" /\ run = FALSE /\ sync = "none"
      BY DEF Init
    <2> QED BY <1>2, <2>1, <2>2, <2>3, <2>4, <2>5 DEF TypeOK, UiType
  <1>5. ThreadInv /\ EmissionPerList /\ DetailInv
    BY <1>1 DEF Init, ThreadInv, EmissionPerList, DetailInv, Working
  <1>6. OrderInv /\ CountInv
    BY <1>2, <1>3 DEF Init, OrderInv, CountInv, Sent, Current, Working
  <1>7. PagesInv
    BY <1>1 DEF UiInv, PagesInv
  <1> QED BY <1>4, <1>5, <1>6, <1>7 DEF Inv

\* The queue as it is and after a list was sent or taken.
LEMMA Lists ==
  ASSUME Inv
  PROVE  /\ queue \in Seq(ListType) /\ Len(queue) \in Nat
         /\ \A i \in 1..Len(queue) : queue[i] \in ListType
         /\ queue # <<>> =>
              /\ Head(queue) = queue[1] /\ Len(queue) >= 1
              /\ Tail(queue) \in Seq(ListType)
              /\ Len(Tail(queue)) = Len(queue) - 1
              /\ \A i \in 1..(Len(queue) - 1) :
                   Tail(queue)[i] = queue[i + 1]
  <1>1. /\ queue \in Seq(ListType) /\ Len(queue) \in Nat
        /\ \A i \in 1..Len(queue) : queue[i] \in ListType
    BY ElementOfSeq, LenProperties DEF Inv, TypeOK
  <1> QED BY <1>1, HeadTailProperties, EmptySeq

(***************************************************************************)
(* The steps of the thread.                                                *)
(***************************************************************************)
LEMMA StartInv ==
  ASSUME Inv, Start
  PROVE  Inv'
  <1>1. /\ sync = "start" /\ sync' = "test"
        /\ mine' = [of |-> account, login |-> logins]
        /\ UNCHANGED <<waits, lists, account, main, target, box, ui, edits,
                       logins, run, seen, batch, queue, pending>>
    BY DEF Start, threadElse
  <1>2. TypeOK'
    BY <1>1 DEF Inv, TypeOK, ThreadInv
  <1>3. ThreadInv'
    BY <1>1 DEF Inv, TypeOK, ThreadInv, Working, Current
  <1>4. OrderInv'
    BY <1>1 DEF Inv, TypeOK, OrderInv, Sent, Working, Current
  <1>5. (CountInv /\ EmissionPerList /\ PagesInv /\ DetailInv)'
    BY <1>1 DEF Inv, TypeOK, ThreadInv, CountInv, EmissionPerList, PagesInv,
                DetailInv, Current
  <1> QED BY <1>2, <1>3, <1>4, <1>5 DEF Inv

LEMMA TestInv ==
  ASSUME Inv, Test
  PROVE  Inv'
  <1>1. /\ sync = "test" /\ sync' = IF run THEN "read" ELSE "off"
        /\ UNCHANGED <<waits, lists, account, main, target, box, ui, edits,
                       logins, run, mine, seen, batch, queue, pending>>
    BY DEF Test, threadElse
  <1>2. TypeOK'
    BY <1>1 DEF Inv, TypeOK
  <1>3. ThreadInv'
    BY <1>1 DEF Inv, TypeOK, ThreadInv, Working, Current
  <1>4. OrderInv'
    BY <1>1 DEF Inv, TypeOK, OrderInv, Sent, Working, Current
  <1>5. (CountInv /\ EmissionPerList /\ PagesInv /\ DetailInv)'
    BY <1>1 DEF Inv, TypeOK, ThreadInv, CountInv, EmissionPerList, PagesInv,
                DetailInv, Current
  <1> QED BY <1>2, <1>3, <1>4, <1>5 DEF Inv

LEMMA ReadInv ==
  ASSUME Inv, Read
  PROVE  Inv'
  <1>a. /\ sync = "read" /\ account \in Account /\ mine.of = account
        /\ mine.login = Current
        /\ UNCHANGED <<waits, lists, account, main, target, box, ui, edits,
                       logins, run, mine, queue, pending>>
    BY DEF Read, threadElse, Inv, ThreadInv, Working
  <1>3. lists[account].version \in Nat /\ seen \in Nat
    BY <1>a DEF Inv, TypeOK
  <1>1. CASE lists[account].version <= seen
    <2>1. sync' = "wait" /\ UNCHANGED <<seen, batch>>
      BY <1>a, <1>1 DEF Read, Inv, TypeOK
    <2>2. TypeOK'
      BY <1>a, <2>1 DEF Inv, TypeOK
    <2>3. ThreadInv'
      BY <1>a, <2>1 DEF Inv, TypeOK, ThreadInv, Working, Current
    <2>4. OrderInv'
      BY <1>a, <2>1 DEF Inv, TypeOK, OrderInv, Sent, Working, Current
    <2>5. (CountInv /\ EmissionPerList /\ PagesInv /\ DetailInv)'
      BY <1>a, <2>1 DEF Inv, TypeOK, ThreadInv, CountInv, EmissionPerList,
                  PagesInv, DetailInv, Current
    <2> QED BY <2>2, <2>3, <2>4, <2>5 DEF Inv
  <1>2. CASE lists[account].version > seen
    <2>1. /\ sync' = "enqueue" /\ seen' = lists[account].version
          /\ batch' = List(mine)
      BY <1>a, <1>2 DEF Read, Inv, TypeOK
    <2>2. /\ batch' \in ListType /\ batch'.of = account
          /\ batch'.login = Current
          /\ batch'.version = lists[account].version
          /\ \A t \in batch'.tasks : t.of = account
      <3>1. /\ mine \in [of : Account \union {NoAccount},
                         login : 0..LoginStop]
            /\ lists[account].ids \in SUBSET Id
            /\ lists[account].version \in Nat
        BY <1>a DEF Inv, TypeOK
      <3>2. {[of |-> account, id |-> i] : i \in lists[account].ids}
              \in SUBSET TaskType
        BY <1>a, <3>1 DEF TaskType
      <3> QED BY <1>a, <2>1, <3>1, <3>2 DEF List, ListType
    <2>3. TypeOK'
      BY <1>a, <2>1, <2>2 DEF Inv, TypeOK
    <2>4. ThreadInv'
      BY <1>a, <2>1 DEF Inv, TypeOK, ThreadInv, Working, Current
    <2>5. Current' = Current
      BY <1>a DEF Current
    <2>6. ASSUME NEW e, Sent(e)
          PROVE  Sent(e)' /\ Before(e, batch')
      <3>1. Sent(e)'
        BY <1>a, <1>2, <1>3, <2>1, <2>5, <2>6 DEF Sent, Working, ListType
      <3>2. /\ e.login <= Current /\ e.login \in Nat /\ e.version \in Nat
            /\ e.login = Current => e.version <= seen
        BY <1>a, <2>6 DEF Sent, Working, ListType
      <3>3. Current \in Int
        BY DEF Inv, TypeOK, Current
      <3> QED BY <1>2, <1>3, <2>2, <3>1, <3>2, <3>3 DEF Before
    <2>7. Sent(batch)'
      BY <1>a, <2>1, <2>2, <2>5 DEF Sent, Working, ListType
    <2>8. OrderInv'
      BY <1>a, <2>1, <2>2, <2>5, <2>6, <2>7 DEF Inv, OrderInv, Before
    <2>9. (CountInv /\ EmissionPerList /\ PagesInv /\ DetailInv)'
      BY <1>a, <1>2, <2>1, <2>5
         DEF Inv, TypeOK, ThreadInv, CountInv, EmissionPerList, PagesInv,
             DetailInv
    <2> QED BY <2>3, <2>4, <2>8, <2>9 DEF Inv
  <1> QED BY <1>1, <1>2, <1>3

LEMMA EnqueueInv ==
  ASSUME Inv, Enqueue
  PROVE  Inv'
  <1>1. /\ sync = "enqueue" /\ sync' = "emit" /\ batch \in ListType
        /\ queue' = Append(queue, batch)
        /\ UNCHANGED <<waits, lists, account, main, target, box, ui, edits,
                       logins, run, mine, seen, batch, pending>>
    BY DEF Enqueue, threadElse, Inv, TypeOK
  <1>2. /\ queue' \in Seq(ListType) /\ Len(queue') = Len(queue) + 1
        /\ Len(queue) \in Nat
        /\ \A i \in 1..Len(queue) : queue'[i] = queue[i]
        /\ queue'[Len(queue) + 1] = batch
    BY <1>1, Lists, AppendProperties
  <1>3. TypeOK'
    BY <1>1, <1>2 DEF Inv, TypeOK
  <1>4. ThreadInv'
    BY <1>1 DEF Inv, TypeOK, ThreadInv, Working, Current
  <1>5. ASSUME NEW e, Sent(e)
        PROVE  Sent(e)'
    BY <1>1, <1>5 DEF Sent, Working, Current
  <1>6. OrderInv'
    BY <1>1, <1>2, <1>5 DEF Inv, OrderInv, Before
  <1>7. (CountInv /\ EmissionPerList /\ PagesInv /\ DetailInv)'
    BY <1>1, <1>2 DEF Inv, TypeOK, CountInv, EmissionPerList, PagesInv,
                      DetailInv, Current
  <1> QED BY <1>3, <1>4, <1>6, <1>7 DEF Inv

LEMMA EmitInv ==
  ASSUME Inv, Emit
  PROVE  Inv'
  <1>1. /\ sync = "emit" /\ sync' = "wait" /\ pending' = pending + 1
        /\ UNCHANGED <<waits, lists, account, main, target, box, ui, edits,
                       logins, run, mine, seen, batch, queue>>
    BY DEF Emit, threadElse
  <1>2. Current \in Int /\ Current <= LoginStop
    BY DEF Inv, TypeOK, Current
  <1>3. pending + 1 <= EditStop + LoginStop
    <2>1. account \in Account /\ seen <= lists[account].version
      BY <1>1 DEF Inv, ThreadInv
    <2>2. /\ lists[account].version \in Nat /\ seen \in Nat
          /\ edits \in Nat /\ edits <= EditStop /\ pending \in Nat
      BY <2>1 DEF Inv, TypeOK
    <2>3. pending + 1 + (IF seen = 0 THEN 1 ELSE lists[account].version - seen)
            <= edits + Current
      BY <1>1 DEF Inv, CountInv
    <2> QED BY <1>2, <2>1, <2>2, <2>3
  <1>4. TypeOK'
    BY <1>1, <1>3 DEF Inv, TypeOK
  <1>5. ThreadInv'
    BY <1>1 DEF Inv, TypeOK, ThreadInv, Working, Current
  <1>6. OrderInv'
    BY <1>1 DEF Inv, TypeOK, OrderInv, Sent, Working, Current
  <1>7. (CountInv /\ EmissionPerList /\ PagesInv /\ DetailInv)'
    BY <1>1 DEF Inv, TypeOK, CountInv, EmissionPerList, PagesInv, DetailInv,
                Current
  <1> QED BY <1>4, <1>5, <1>6, <1>7 DEF Inv

LEMMA WaitInv ==
  ASSUME Inv, Wait
  PROVE  Inv'
  <1>1. /\ sync = "wait" /\ sync' = "test"
        /\ UNCHANGED <<waits, lists, account, main, target, box, ui, edits,
                       logins, run, mine, seen, batch, queue, pending>>
    BY DEF Wait, threadElse
  <1>2. TypeOK'
    BY <1>1 DEF Inv, TypeOK
  <1>3. ThreadInv'
    BY <1>1 DEF Inv, TypeOK, ThreadInv, Working, Current
  <1>4. OrderInv'
    BY <1>1 DEF Inv, TypeOK, OrderInv, Sent, Working, Current
  <1>5. (CountInv /\ EmissionPerList /\ PagesInv /\ DetailInv)'
    BY <1>1 DEF Inv, TypeOK, CountInv, EmissionPerList, PagesInv, DetailInv,
                Current
  <1> QED BY <1>2, <1>3, <1>4, <1>5 DEF Inv

(***************************************************************************)
(* Changes of a list, by the window or by others.                          *)
(***************************************************************************)
LEMMA ChangeKeeps ==
  ASSUME Inv, NEW a \in Account, NEW S \in SUBSET Id, Changed(a, S),
         UNCHANGED <<waits, account, main, target, threadVars, queue, pending,
                     box, logins>>,
         ui' = ui \/ (UiInv(ui') /\ ui'.detail = None)
  PROVE  Inv'
  <1>1. UNCHANGED <<waits, account, main, target, box, logins, run, sync, mine,
                    seen, batch, queue, pending>>
    BY DEF threadVars
  <1>2. /\ edits < EditStop /\ edits' = edits + 1
        /\ lists' = [lists EXCEPT ![a] =
                       [ids |-> S, version |-> lists[a].version + 1]]
    BY DEF Changed
  <1>3. /\ \A b \in Account : lists[b].version \in Nat
        /\ edits \in Nat
        /\ \A b \in Account : lists[b].version <= edits + 1
    BY DEF Inv, TypeOK, CountInv
  <1>4. /\ lists' \in [Account -> [ids : SUBSET Id,
                                   version : 1..(EditStop + 1)]]
        /\ \A b \in Account :
             lists'[b].version =
               IF b = a THEN lists[b].version + 1 ELSE lists[b].version
    BY <1>2, <1>3 DEF Inv, TypeOK
  <1>5. /\ UiInv(ui') /\ ui'.detail # None => ui'.detail = ui.detail
        /\ UiInv(ui')
    BY DEF Inv, TypeOK, PagesInv, UiInv, UiType
  <1>6. TypeOK'
    BY <1>1, <1>2, <1>4, <1>5 DEF Inv, TypeOK, UiInv, UiType
  <1>7. ThreadInv'
    <2>1. Current' = Current /\ Working' = Working
      BY <1>1 DEF Current, Working
    <2>2. \A b \in Account :
            seen <= lists[b].version => seen <= lists'[b].version
      <3>1. seen \in Nat
        BY DEF Inv, TypeOK
      <3> QED BY <1>3, <1>4, <3>1
    <2> QED BY <1>1, <2>1, <2>2 DEF Inv, ThreadInv
  <1>8. OrderInv'
    BY <1>1 DEF Inv, TypeOK, OrderInv, Sent, Working, Current
  <1>9. CountInv'
    <2>1. \A b \in Account : lists'[b].version <= edits' + 1
      BY <1>2, <1>3, <1>4
    <2>2. Current' = Current /\ Current \in Int
      BY <1>1 DEF Current, Inv, TypeOK
    <2>3. seen \in Nat /\ pending \in Nat
      BY DEF Inv, TypeOK
    <2>4. CASE sync = "none"
      BY <1>1, <2>1, <2>4 DEF CountInv
    <2>5. CASE sync # "none"
      <3>1. account \in Account
        BY <2>5 DEF Inv, ThreadInv
      <3> QED BY <1>1, <1>2, <1>3, <1>4, <2>1, <2>2, <2>3, <2>5, <3>1
              DEF Inv, CountInv
    <2> QED BY <2>4, <2>5
  <1>10. (EmissionPerList /\ PagesInv /\ DetailInv)'
    BY <1>1, <1>5 DEF Inv, EmissionPerList, PagesInv, DetailInv, UiInv, Current
  <1> QED BY <1>6, <1>7, <1>8, <1>9, <1>10 DEF Inv

LEMMA EditInv ==
  ASSUME Inv,
         Insert \/ EditDetail \/ \E a \in Account : ChangeElsewhere(a)
  PROVE  Inv'
  <1>1. UiInv(ui)
    BY DEF Inv, TypeOK, PagesInv, UiInv, UiType
  <1>2. UiInv(ListPage(ui)) /\ ListPage(ui).detail = None
    BY <1>1, ListPageKeeps DEF UiInv
  <1>3. account # NoAccount => account \in Account
    BY DEF Inv, TypeOK
  <1>4. \A a \in Account : lists[a].ids \in SUBSET Id
    BY DEF Inv, TypeOK
  <1>5. CASE Insert
    <2>1. PICK i \in Id : Changed(account, lists[account].ids \union {i})
      BY <1>5 DEF Insert
    <2>2. account \in Account
      BY <1>3, <1>5 DEF Insert
    <2>3. lists[account].ids \union {i} \in SUBSET Id
      BY <1>4, <2>2
    <2> QED BY <1>2, <1>5, <2>1, <2>2, <2>3, ChangeKeeps DEF Insert
  <1>6. CASE EditDetail
    <2>1. account \in Account
      BY <1>3, <1>6 DEF EditDetail
    <2>2. PICK S \in {lists[account].ids,
                      lists[account].ids \ {ui.detail.id}} :
            Changed(account, S)
      BY <1>6 DEF EditDetail
    <2>3. S \in SUBSET Id
      BY <1>4, <2>1
    <2> QED BY <1>6, <2>1, <2>2, <2>3, ChangeKeeps DEF EditDetail
  <1>7. ASSUME NEW a \in Account, ChangeElsewhere(a)
        PROVE  Inv'
    <2>1. PICK i \in Id : \E S \in {lists[a].ids \union {i},
                                    lists[a].ids \ {i}} : Changed(a, S)
      BY <1>7 DEF ChangeElsewhere
    <2>2. PICK S \in {lists[a].ids \union {i}, lists[a].ids \ {i}} :
            Changed(a, S)
      BY <2>1
    <2>3. S \in SUBSET Id
      BY <1>4
    <2> QED BY <1>7, <2>2, <2>3, ChangeKeeps DEF ChangeElsewhere
  <1> QED BY <1>5, <1>6, <1>7

(***************************************************************************)
(* Changes of account.                                                     *)
(***************************************************************************)
\* The thread starts anew, for a login that all lists so far are older than.
LEMMA SwitchKeeps ==
  ASSUME Inv, NEW a \in Account, Switch(a), sync \in {"none", "off"},
         UNCHANGED <<waits, lists, queue, pending, box, edits>>,
         target' = a, logins' \in 0..LoginStop, Current' = Current + 1
  PROVE  Inv'
  <1>1. /\ account' = a /\ run' = TRUE /\ sync' = "start" /\ seen' = 0
        /\ ui' = ListPage(ui) /\ main' = "loop"
        /\ UNCHANGED <<mine, batch>>
    BY DEF Switch
  <1>2. UiInv(ui') /\ ui'.detail = None
    BY <1>1, ListPageKeeps DEF Inv, TypeOK, PagesInv, UiInv, UiType
  <1>3. Current \in Nat
    BY DEF Inv, TypeOK, ThreadInv, Current
  <1>4. TypeOK'
    BY <1>1, <1>2 DEF Inv, TypeOK, UiInv, UiType
  <1>5. ThreadInv'
    BY <1>1, <1>3 DEF Inv, TypeOK, ThreadInv, Working
  <1>6. ASSUME NEW e, Sent(e)
        PROVE  Sent(e)'
    BY <1>1, <1>3, <1>6 DEF Sent, Working, ListType
  <1>7. OrderInv'
    BY <1>1, <1>6 DEF Inv, OrderInv, Before
  <1>8. CountInv'
    <2>1. pending <= edits + Current
      <3>1. CASE sync = "none"
        BY <1>3, <3>1 DEF Inv, TypeOK, ThreadInv
      <3>2. CASE sync = "off"
        <4>1. /\ account \in Account /\ seen <= lists[account].version
              /\ pending + 0
                   + (IF seen = 0 THEN 1 ELSE lists[account].version - seen)
                   <= edits + Current
          BY <3>2 DEF Inv, ThreadInv, CountInv
        <4>2. /\ lists[account].version \in Nat /\ seen \in Nat
              /\ pending \in Nat /\ edits \in Nat
          BY <4>1 DEF Inv, TypeOK
        <4> QED BY <1>3, <4>1, <4>2
      <3> QED BY <3>1, <3>2
    <2>2. pending \in Nat /\ edits \in Nat
      BY DEF Inv, TypeOK
    <2> QED BY <1>1, <1>3, <2>1, <2>2 DEF Inv, CountInv
  <1>9. (EmissionPerList /\ PagesInv /\ DetailInv)'
    BY <1>1, <1>2
       DEF Inv, TypeOK, EmissionPerList, PagesInv, DetailInv, UiInv
  <1> QED BY <1>4, <1>5, <1>7, <1>8, <1>9 DEF Inv

\* The main loop stands still for the thread, which works on as it was.
LEMMA JoiningKeeps ==
  ASSUME Inv, main = "loop", main' = "joining", run' = FALSE,
         target' \in Account \union {NoAccount},
         sync = "none" => target' = NoAccount,
         logins' = IF target' = NoAccount THEN logins ELSE logins + 1,
         logins' <= LoginStop,
         UNCHANGED <<waits, lists, account, sync, mine, seen, batch, queue,
                     pending, box, ui, edits>>
  PROVE  Inv'
  <1>1. Current' = Current
    BY DEF Current, Inv, TypeOK
  <1>2. logins' \in 0..LoginStop
    <2>1. logins \in Nat
      BY DEF Inv, TypeOK
    <2>2. logins' \in Nat
      BY <2>1
    <2> QED BY <2>2
  <1>a. TypeOK'
    <2>1. TypeOK
      BY DEF Inv
    <2>2. main' \in {"loop", "joining", "closed"} /\ run' \in BOOLEAN
      OBVIOUS
    <2> QED BY <1>2, <2>1, <2>2 DEF TypeOK
  <1>3. ThreadInv'
    BY <1>1 DEF Inv, ThreadInv, Working
  <1>4. OrderInv'
    BY <1>1 DEF Inv, OrderInv, Sent, Before, Working
  <1>5. (CountInv /\ EmissionPerList /\ PagesInv /\ DetailInv)'
    BY <1>1 DEF Inv, CountInv, EmissionPerList, PagesInv, DetailInv
  <1> QED BY <1>a, <1>3, <1>4, <1>5 DEF Inv

LEMMA LoginInv ==
  ASSUME Inv, NEW a \in Account, Login(a)
  PROVE  Inv'
  <1>1. /\ main = "loop" /\ logins < LoginStop /\ logins' = logins + 1
        /\ logins \in Nat /\ target' = a /\ a # NoAccount
        /\ UNCHANGED <<waits, lists, queue, pending, box, edits>>
    BY DEF Login, Inv, TypeOK
  <1>2. CASE sync = "none"
    <2>1. Switch(a)
      BY <1>2 DEF Login
    <2>2. Current' = Current + 1
      BY <1>1, <2>1 DEF Switch, Current
    <2> QED BY <1>1, <1>2, <2>1, <2>2, SwitchKeeps
  <1>3. CASE sync # "none"
    <2>1. /\ main' = "joining" /\ run' = FALSE
          /\ UNCHANGED <<account, ui, sync, mine, seen, batch>>
      BY <1>3 DEF Login
    <2>2. /\ target' \in Account \union {NoAccount}
          /\ logins' = IF target' = NoAccount THEN logins ELSE logins + 1
          /\ logins' <= LoginStop
      BY <1>1
    <2> QED BY <1>1, <1>3, <2>1, <2>2, JoiningKeeps
  <1> QED BY <1>2, <1>3

LEMMA CloseInv ==
  ASSUME Inv, Close
  PROVE  Inv'
  <1>1. logins <= LoginStop
    BY DEF Inv, TypeOK
  <1> QED BY <1>1, JoiningKeeps DEF Close

LEMMA JoinedInv ==
  ASSUME Inv, Joined
  PROVE  Inv'
  <1>1. /\ main = "joining" /\ sync \in {"off", "none"}
        /\ UNCHANGED <<waits, lists, target, queue, pending, box, edits,
                       logins>>
    BY DEF Joined
  <1>2. CASE target # NoAccount
    <2>1. Switch(target) /\ target \in Account
      BY <1>2 DEF Joined, Inv, TypeOK
    <2>2. Current' = Current + 1 /\ logins' \in 0..LoginStop
      BY <1>1, <1>2, <2>1 DEF Switch, Current, Inv, TypeOK
    <2> QED BY <1>1, <2>1, <2>2, SwitchKeeps
  <1>3. CASE target = NoAccount
    <2>1. main' = "closed" /\ UNCHANGED <<account, threadVars, ui>>
      BY <1>3 DEF Joined, Switch, Inv, TypeOK
    <2>2. UNCHANGED <<account, run, sync, mine, seen, batch, ui>>
      BY <2>1 DEF threadVars
    <2>3. Current' = Current
      BY <1>1, <1>3, <2>1 DEF Current
    <2>4. TypeOK'
      BY <1>1, <2>1, <2>2 DEF Inv, TypeOK
    <2>5. ThreadInv'
      BY <1>1, <2>1, <2>2, <2>3 DEF Inv, ThreadInv, Working
    <2>6. OrderInv'
      BY <1>1, <2>2, <2>3 DEF Inv, OrderInv, Sent, Before, Working
    <2>7. (CountInv /\ EmissionPerList /\ PagesInv /\ DetailInv)'
      BY <1>1, <2>2, <2>3
         DEF Inv, CountInv, EmissionPerList, PagesInv, DetailInv
    <2> QED BY <2>4, <2>5, <2>6, <2>7 DEF Inv
  <1> QED BY <1>2, <1>3

(***************************************************************************)
(* The other handlers of the main loop.                                    *)
(***************************************************************************)
LEMMA DispatchInv ==
  ASSUME Inv, Dispatch
  PROVE  Inv' /\ Before(box, box')
  <1>1. /\ main = "loop" /\ pending > 0 /\ pending' = pending - 1
        /\ pending \in Nat
        /\ UNCHANGED <<waits, lists, account, main, target, run, sync, mine,
                       seen, batch, edits, logins>>
    BY DEF Dispatch, threadVars, Inv, TypeOK
  <1>2. Len(queue) >= 1 /\ queue # <<>>
    <2>1. Len(queue) = pending + (IF sync = "emit" THEN 1 ELSE 0)
      BY DEF Inv, EmissionPerList
    <2>2. Len(queue) >= 1
      BY <1>1, <2>1
    <2>3. Len(<<>>) = 0
      OBVIOUS
    <2> QED BY <2>2, <2>3
  <1>3. /\ queue' = Tail(queue) /\ box' = queue[1]
        /\ ui' = Show(ui, queue[1].tasks)
        /\ queue' \in Seq(ListType) /\ Len(queue') = Len(queue) - 1
        /\ Len(queue) \in Nat
        /\ \A i \in 1..(Len(queue) - 1) : queue'[i] = queue[i + 1]
    BY <1>2, Lists DEF Dispatch
  <1>4. /\ Sent(queue[1]) /\ Before(box, queue[1]) /\ queue[1] \in ListType
    BY <1>2, <1>3 DEF Inv, OrderInv, Sent
  <1>5. Current' = Current /\ Working' = Working
    BY <1>1 DEF Current, Working
  <1>6. /\ UiInv(ui') /\ ui'.detail \in box'.tasks \union {None}
        /\ ui.detail = None => ui'.detail = None
    <2>1. UiInv(ui)
      BY DEF Inv, TypeOK, PagesInv, UiInv, UiType
    <2>2. queue[1].tasks \in SUBSET TaskType
      BY <1>4 DEF ListType
    <2> QED BY <1>3, <2>1, <2>2, ShowKeeps
  <1>7. TypeOK'
    BY <1>1, <1>3, <1>4, <1>6 DEF Inv, TypeOK, UiInv, UiType
  <1>8. ThreadInv'
    BY <1>1, <1>5 DEF Inv, ThreadInv
  <1>9. ASSUME NEW e, Sent(e)
        PROVE  Sent(e)'
    BY <1>1, <1>5, <1>9 DEF Sent
  <1>10. OrderInv'
    <2>1. Sent(box)' /\ (sync' = "enqueue" => Sent(batch)')
      BY <1>1, <1>3, <1>4, <1>5 DEF Inv, OrderInv, Sent
    <2>2. /\ \A i \in 1..Len(queue') : Before(box', queue'[i])
          /\ \A i, j \in 1..Len(queue') :
               i < j => Before(queue'[i], queue'[j])
      BY <1>2, <1>3 DEF Inv, OrderInv
    <2>3. sync' = "enqueue" =>
            /\ batch'.login = Current' /\ Before(box', batch')
            /\ \A i \in 1..Len(queue') : Before(queue'[i], batch')
      BY <1>1, <1>2, <1>3, <1>5 DEF Inv, OrderInv
    <2>4. \A i \in 1..Len(queue') : Sent(queue[i])'
      BY <1>1, <1>2, <1>3, <1>5 DEF Inv, OrderInv, Sent
    <2> QED BY <1>3, <2>1, <2>2, <2>3, <2>4 DEF OrderInv
  <1>11. (EmissionPerList /\ PagesInv)'
    BY <1>1, <1>3, <1>6 DEF Inv, EmissionPerList, PagesInv, UiInv
  <1>12. CountInv'
    BY <1>1, <1>5 DEF Inv, TypeOK, ThreadInv, CountInv, Current
  <1>13. DetailInv'
    BY <1>1, <1>3, <1>4, <1>5, <1>6
       DEF Inv, TypeOK, DetailInv, Sent, Before, ListType, Current
  <1> QED BY <1>3, <1>4, <1>7, <1>8, <1>10, <1>11, <1>12, <1>13 DEF Inv

LEMMA ClickInv ==
  ASSUME Inv, Click
  PROVE  Inv'
  <1>1. /\ main = "loop"
        /\ UNCHANGED <<waits, lists, account, main, target, run, sync, mine,
                       seen, batch, queue, pending, box, edits, logins>>
    BY DEF Click, threadVars
  <1>2. UiInv(ui) /\ Current = logins
    BY <1>1 DEF Inv, TypeOK, PagesInv, UiInv, UiType, Current
  <1>3. /\ UiInv(ui')
        /\ \/ ui'.detail \in {ui.detail, None}
           \/ (waits => box.login = logins) /\ ui'.detail \in box.tasks
    <2>1. CASE ui' \in {ClickUser(ui), ClickInsert(ui), ClickBeside(ui)}
      BY <1>2, <2>1, UserKeeps, InsertKeeps, BesideKeeps
    <2>2. ASSUME NEW t \in box.tasks, waits => box.login = logins,
                 ui' \in {ClickTask(ui, t), Activate(ui, t)}
          PROVE  /\ UiInv(ui')
                 /\ \/ ui'.detail \in {ui.detail, None}
                    \/ /\ waits => box.login = logins
                       /\ ui'.detail \in box.tasks
      <3>1. t \in TaskType
        BY DEF Inv, TypeOK, ListType
      <3> QED BY <1>2, <2>2, <3>1, TaskKeeps
    <2> QED BY <2>1, <2>2 DEF Click
  <1>4. TypeOK'
    BY <1>1, <1>3 DEF Inv, TypeOK, UiInv, UiType
  <1>5. ThreadInv'
    BY <1>1 DEF Inv, ThreadInv, Working, Current
  <1>6. OrderInv'
    BY <1>1 DEF Inv, OrderInv, Sent, Before, Working, Current
  <1>7. (CountInv /\ EmissionPerList)'
    BY <1>1 DEF Inv, CountInv, EmissionPerList, Current
  <1>8. (PagesInv /\ DetailInv)'
    BY <1>1, <1>2, <1>3 DEF Inv, PagesInv, DetailInv, UiInv, Current
  <1> QED BY <1>4, <1>5, <1>6, <1>7, <1>8 DEF Inv

LEMMA StepInv ==
  ASSUME Inv, [Next]_vars
  PROVE  Inv'
  <1>1. CASE Next
    BY <1>1, StartInv, TestInv, ReadInv, EnqueueInv, EmitInv, WaitInv,
       EditInv, LoginInv, CloseInv, JoinedInv, DispatchInv, ClickInv
       DEF Next, Thread
  <1>2. CASE UNCHANGED vars
    <2>1. (TypeOK /\ PagesInv /\ EmissionPerList)'
      BY <1>2 DEF vars, threadVars, Inv, TypeOK, PagesInv, EmissionPerList
    <2>2. (ThreadInv /\ CountInv /\ DetailInv)'
      BY <1>2 DEF vars, threadVars, Inv, ThreadInv, CountInv, DetailInv,
         Working, Current
    <2>3. OrderInv'
      BY <1>2 DEF vars, threadVars, Inv, OrderInv, Sent, Before, Working,
         Current
    <2> QED BY <2>1, <2>2, <2>3 DEF Inv
  <1> QED BY <1>1, <1>2

(***************************************************************************)
(* Theorems.                                                               *)
(***************************************************************************)
LEMMA Invariant == Spec => []Inv
  BY InitInv, StepInv, PTL DEF Spec

\* Every list has its emission: none stays behind in the queue unseen.
THEOREM EveryListEmitted == Spec => []WindowInv
  <1>1. Inv => WindowInv
    BY DEF Inv, WindowInv
  <1> QED BY <1>1, Invariant, PTL

\* The pages, the buttons and the box agree, whatever is clicked, comes in or
\* logs in.
THEOREM PagesAgree == Spec => []PagesInv
  <1>1. Inv => PagesInv
    BY DEF Inv
  <1> QED BY <1>1, Invariant, PTL

\* Who waits for an account's list edits tasks of that account only.
THEOREM EditsOwn == Spec => []DetailIsOwn
  <1>1. ASSUME Inv, waits, ui.detail # None
        PROVE  ui.detail.of = account
    <2>1. ui.detail \in box.tasks /\ box.login = Current
      BY <1>1 DEF Inv, PagesInv, DetailInv
    <2>2. sync # "none"
      BY <2>1, <1>1 DEF Inv, ThreadInv, NoList
    <2> QED BY <1>1, <2>1, <2>2 DEF Inv, OrderInv, Sent
  <1>2. Inv => DetailIsOwn
    BY <1>1 DEF DetailIsOwn
  <1> QED BY <1>2, Invariant, PTL

\* The box never goes back.
THEOREM BoxAdvances == Spec => NeverBack
  <1>1. ASSUME Inv, [Next]_vars
        PROVE  [box' # box =>
                  \/ box'.login > box.login
                  \/ box'.login = box.login /\ box'.version > box.version]_vars
    <2>1. CASE Dispatch
      <3>1. Before(box, box') /\ Inv'
        BY <1>1, <2>1, DispatchInv
      <3>2. box \in ListType /\ box' \in ListType
        BY <1>1, <3>1 DEF Inv, TypeOK
      <3> QED BY <3>1, <3>2 DEF Before, ListType
    <2>2. CASE Next /\ ~Dispatch
      <3>1. box' = box
        BY <2>2 DEF Next, Thread, Start, Test, Read, Enqueue, Emit, Wait,
             threadElse, Joined, Close, Click, Insert, EditDetail, Login,
             ChangeElsewhere
      <3> QED BY <3>1
    <2> QED BY <1>1, <2>1, <2>2
  <1> QED BY <1>1, Invariant, PTL DEF Spec, NeverBack

===========================================================================
