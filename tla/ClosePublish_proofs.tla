------------------------ MODULE ClosePublish_proofs -------------------------
(***************************************************************************)
(* Proofs about the publication at a candle's close. The types of Shape    *)
(* and the record kept with every set (Recorded) carry PostedIsRecorded.   *)
(* The claims are the ledger's: the publication refines ClaimLedger, so    *)
(* the ledger's invariant holds here and gives the single post.            *)
(* RowsAreThePost needs that the rows of a close are exactly the picks of  *)
(* its one scan (Exact), and DeliveredAfterGoodCalls a count: a good call  *)
(* that has not posted has left a set behind (Counted).                    *)
(***************************************************************************)
EXTENDS ClosePublish, FiniteSetTheorems, TLAPS

LP == INSTANCE ClaimLedger_proofs
        WITH Workers <- Calls, Keys <- Channels, Faults <- Faults \ {"db_reply"}
Rules == INSTANCE Rules_proofs

\* What appending one element to a sequence does.
LEMMA AppendOne ==
    ASSUME NEW S, NEW s \in Seq(S), NEW e
    PROVE  /\ Append(s, e) \in Seq(S \union {e})
           /\ Len(Append(s, e)) = Len(s) + 1 /\ Len(s) \in Nat
           /\ DOMAIN s = 1..Len(s) /\ DOMAIN Append(s, e) = 1..(Len(s) + 1)
           /\ \A i \in 1..Len(s) : Append(s, e)[i] = s[i]
           /\ Append(s, e)[Len(s) + 1] = e
<1>1. s \in Seq(S \union {e})
  OBVIOUS
<1> QED
  BY <1>1

Shape ==
    /\ at \in [Calls -> Steps] /\ scanned \in [Calls -> BOOLEAN]
    /\ DOMAIN saved = Tfs /\ DOMAIN local = Calls /\ DOMAIN got = Calls
    /\ DOMAIN sets = Calls
    /\ \A c \in Calls :
        /\ DOMAIN local[c] = Tfs
        /\ \E S : sets[c] \in Seq(S)
        /\ at[c] \in {"load", "scan", "persist"} => Len(sets[c]) < Len(Due)
        /\ at[c] \in {"post", "tweet"} => Len(sets[c]) = Len(Due)
        /\ at[c] = "out" => sets[c] = <<>>

\* A call has no more sets than there are closes due.
LEMMA SetsWithinDue ==
    ASSUME Shape, NEW c \in Calls
    PROVE  DOMAIN sets[c] \subseteq DOMAIN Due
<1>1. PICK S : sets[c] \in Seq(S)
  BY DEF Shape
<1>2. Len(Due) \in Nat /\ DOMAIN Due = 1..Len(Due) /\ Len(sets[c]) \in Nat
      /\ DOMAIN sets[c] = 1..Len(sets[c])
  BY <1>1, ClosePublishAssumption
<1>3. CASE at[c] = "out"
  BY <1>3 DEF Shape
<1>4. CASE at[c] # "out"
  <2>1. Len(sets[c]) <= Len(Due)
    BY <1>2, <1>4 DEF Shape, Steps
  <2> QED
    BY <1>2, <2>1
<1> QED
  BY <1>3, <1>4

\* A call that has one more set keeps the shape of its variables.
LEMMA HaveShape ==
    ASSUME Shape, NEW c \in Calls, NEW set, Have(c, set), Len(sets[c]) < Len(Due)
    PROVE  /\ at' \in [Calls -> Steps]
           /\ DOMAIN sets' = Calls
           /\ \A d \in Calls :
                /\ \E S : sets'[d] \in Seq(S)
                /\ at'[d] \in {"load", "scan", "persist"} => Len(sets'[d]) < Len(Due)
                /\ at'[d] \in {"post", "tweet"} => Len(sets'[d]) = Len(Due)
                /\ at'[d] = "out" => sets'[d] = <<>>
<1>1. PICK S : sets[c] \in Seq(S)
  BY DEF Shape
<1>2. /\ sets'[c] \in Seq(S \union {set}) /\ Len(sets'[c]) = Len(sets[c]) + 1
      /\ \A d \in Calls \ {c} : sets'[d] = sets[d] /\ at'[d] = at[d]
      /\ DOMAIN sets' = Calls /\ Len(sets[c]) \in Nat
      /\ at'[c] = IF Len(sets[c]) + 1 = Len(Due) THEN "post" ELSE "load"
  BY <1>1, AppendOne DEF Have, Goto, Shape
<1>3. at' \in [Calls -> Steps]
  BY DEF Have, Goto, Shape, Steps
<1>4. Len(Due) \in Nat
  BY ClosePublishAssumption
<1> QED
  BY <1>2, <1>3, <1>4 DEF Shape

\* A call that ends keeps the shape of its variables.
LEMMA EndShape ==
    ASSUME Shape, NEW c \in Calls, End(c)
    PROVE  /\ at' \in [Calls -> Steps] /\ scanned' \in [Calls -> BOOLEAN]
           /\ DOMAIN sets' = Calls /\ DOMAIN got' = Calls
           /\ \A d \in Calls :
                /\ \E S : sets'[d] \in Seq(S)
                /\ at'[d] \in {"load", "scan", "persist"} => Len(sets'[d]) < Len(Due)
                /\ at'[d] \in {"post", "tweet"} => Len(sets'[d]) = Len(Due)
                /\ at'[d] = "out" => sets'[d] = <<>>
<1>1. <<>> \in Seq({})
  OBVIOUS
<1>2. /\ sets'[c] = <<>> /\ at'[c] = "out"
      /\ \A d \in Calls \ {c} : sets'[d] = sets[d] /\ at'[d] = at[d]
  BY DEF End, Goto, Shape
<1> QED
  BY <1>1, <1>2 DEF End, Goto, Shape, Steps

\* The initial state has the shape.
LEMMA ShapeInit == Init => Shape
<1> SUFFICES ASSUME Init PROVE Shape
  OBVIOUS
<1>1. <<>> \in Seq({})
  OBVIOUS
<1> QED
  BY <1>1 DEF Init, Shape, Steps, NoSets

\* Every step keeps the shape: a call scans only while closes are left, and
\* posts when none is.
LEMMA ShapeStep == Shape /\ [Next]_vars => Shape'
<1> SUFFICES ASSUME Shape, [Next]_vars PROVE Shape'
  OBVIOUS
<1> USE DEF books, locals, day, history
<1>1. ASSUME NEW c \in Calls, Begin(c) PROVE Shape'
  <2>1. Len(sets[c]) = 0 /\ sets' = sets
    BY <1>1 DEF Begin, Running, Shape
  <2>2. 0 < Len(Due) /\ Len(Due) \in Nat
    BY ClosePublishAssumption
  <2> QED
    BY <1>1, <2>1, <2>2 DEF Begin, Goto, Shape, Steps
<1>2. ASSUME NEW c \in Calls, LoadHit(c) PROVE Shape'
  <2>1. Have(c, saved[Tf(c)]) /\ Len(sets[c]) < Len(Due)
    BY <1>2 DEF LoadHit, Shape
  <2>2. UNCHANGED <<saved, local, scanned, got>>
    BY <1>2 DEF LoadHit
  <2>3. scanned' \in [Calls -> BOOLEAN] /\ DOMAIN saved' = Tfs /\ DOMAIN local' = Calls
        /\ DOMAIN got' = Calls /\ \A d \in Calls : DOMAIN local'[d] = Tfs
    BY <2>2 DEF Shape
  <2> HIDE DEF books, locals, day, history
  <2> QED
    BY <2>1, <2>3, HaveShape DEF Shape
<1>3. ASSUME NEW c \in Calls, ToScan(c), at[c] = "load", UNCHANGED <<ledger, day, books, posted>> PROVE Shape'
  <2>1. CASE scanned[c]
    BY <1>3, <2>1, EndShape DEF ToScan, Leave, Shape
  <2>2. CASE ~scanned[c]
    <3>1. Goto(c, "scan") /\ UNCHANGED <<locals, books>>
      BY <1>3, <2>2 DEF ToScan
    <3> QED
      BY <1>3, <3>1 DEF Goto, Shape, Steps
  <2> QED
    BY <2>1, <2>2
<1>4. ASSUME NEW c \in Calls, LoadFile(c) PROVE Shape'
  <2>1. ASSUME Have(c, local[c][Tf(c)]), UNCHANGED <<scanned, todo, got>> PROVE Shape'
    BY <1>4, <2>1, HaveShape DEF LoadFile, Shape
  <2>2. ASSUME End(c) PROVE Shape'
    BY <1>4, <2>2, EndShape DEF LoadFile, Shape
  <2>3. ASSUME Goto(c, "scan"), UNCHANGED locals PROVE Shape'
    BY <1>4, <2>3 DEF LoadFile, Goto, Shape, Steps
  <2> QED
    BY <1>4, <2>1, <2>2, <2>3 DEF LoadFile
<1>5. ASSUME NEW c \in Calls, ScanTooEarly(c) PROVE Shape'
  BY <1>5, EndShape DEF ScanTooEarly, Leave, Shape
<1>6. ASSUME NEW c \in Calls, Scan(c) PROVE Shape'
  BY <1>6 DEF Scan, Goto, Shape, Steps
<1>7. ASSUME NEW c \in Calls, Persist(c) \/ PersistFails(c) \/ PersistReplyLost(c) PROVE Shape'
  BY <1>7 DEF Persist, PersistFails, PersistReplyLost, PickDone, Shape
<1>8. ASSUME NEW c \in Calls, Save(c) \/ SaveFile(c) PROVE Shape'
  <2>1. DOMAIN saved' = Tfs /\ DOMAIN local' = Calls /\ \A d \in Calls : DOMAIN local'[d] = Tfs
    BY <1>8 DEF Save, SaveFile, Shape
  <2>2. Have(c, got[c]) /\ Len(sets[c]) < Len(Due)
    BY <1>8 DEF Save, SaveFile, Shape
  <2>3. scanned' \in [Calls -> BOOLEAN] /\ DOMAIN got' = Calls
    BY <1>8 DEF Save, SaveFile, Shape
  <2> QED
    BY <2>1, <2>2, <2>3, HaveShape DEF Shape
<1>9. ASSUME NEW c \in Calls, NEW ch \in Channels, Dispatch(c, ch) PROVE Shape'
  BY <1>9 DEF Dispatch, Shape
<1>10. ASSUME NEW c \in Calls, NEW ch \in Channels, DispatchFromFile(c, ch) PROVE Shape'
  BY <1>10 DEF DispatchFromFile, FileRewritten, Shape, NoSets
<1>11. ASSUME NEW c \in Calls, NEW ch \in Channels, DispatchSkipped(c, ch) \/ DispatchRefused(c, ch)
       PROVE  Shape'
  <2>1. End(c)
    BY <1>11 DEF DispatchSkipped, DispatchRefused, Leave
  <2> QED
    BY <1>11, <2>1, EndShape DEF DispatchSkipped, DispatchRefused, Shape
<1>12. ASSUME NEW c \in Calls, PostSent(c) PROVE Shape'
  BY <1>12 DEF PostSent, Goto, Shape, Steps
<1>13. ASSUME NEW c \in Calls, PostFails(c) \/ TweetFails(c) PROVE Shape'
  BY <1>13 DEF PostFails, TweetFails, Shape
<1>14. ASSUME NEW c \in Calls, TweetSent(c) PROVE Shape'
  BY <1>14, EndShape DEF TweetSent, Leave, Shape
<1>15. ASSUME NEW c \in Calls, GiveBack(c) PROVE Shape'
  BY <1>15, EndShape DEF GiveBack, Leave, FileRewritten, Shape, NoSets
<1>16. ASSUME NEW c \in Calls, Stop(c) PROVE Shape'
  BY <1>16, EndShape DEF Stop, Shape, NoSets
<1>17. ASSUME NEW tf \in Tfs, Serve(tf) PROVE Shape'
  BY <1>17 DEF Serve, Shape
<1>18. CASE UNCHANGED vars
  BY <1>18 DEF vars, Shape
<1> QED
  BY <1>1, <1>2, <1>3, <1>4, <1>5, <1>6, <1>7, <1>8, <1>9, <1>10, <1>11, <1>12, <1>13, <1>14,
     <1>15, <1>16, <1>17, <1>18 DEF Next, Read, Compute, Send, LoadMiss
-----------------------------------------------------------------------------
RecIn(tf, p) == \E r \in rows : r.tf = tf /\ r.coin = p.coin /\ r.venue = p.venue

SavedRecorded == \A tf \in Tfs : saved[tf] # Unsaved => \A p \in saved[tf] : RecIn(tf, p)
LocalRecorded ==
    \A c \in Calls, tf \in Tfs :
        local[c][tf] # Unsaved => \A p \in local[c][tf] : RecIn(tf, p)
SetsRecorded ==
    \A c \in Calls : \A i \in DOMAIN sets[c] : \A p \in sets[c][i] : RecIn(Due[i], p)
GotRecorded ==
    \A c \in Calls : \A p \in got[c] : at[c] = "persist" /\ RecIn(Tf(c), p)

Recorded ==
    SavedRecorded /\ LocalRecorded /\ SetsRecorded /\ GotRecorded /\ PostedIsRecorded

\* Before the first call nothing is shown anywhere.
LEMMA RecordedInit == Init => Recorded
BY DEF Init, Recorded, SavedRecorded, LocalRecorded, SetsRecorded, GotRecorded,
       PostedIsRecorded, NoSets

\* No step takes a row off the record.
LEMMA RowsGrow == ASSUME [Next]_vars PROVE rows \subseteq rows'
<1> USE DEF books, locals, day, history
<1>1. ASSUME NEW c \in Calls, Begin(c) \/ Read(c) \/ Compute(c) \/ Send(c) \/ Stop(c)
      PROVE  rows \subseteq rows'
  BY <1>1 DEF Begin, Read, LoadHit, LoadMiss, LoadFile, Compute, ScanTooEarly, Scan, Persist,
       PersistFails, PersistReplyLost, Save, SaveFile, Send, PostSent, PostFails, TweetSent,
       TweetFails, GiveBack, Stop
<1>2. ASSUME NEW c \in Calls, NEW ch \in Channels,
             \/ Dispatch(c, ch) \/ DispatchFromFile(c, ch)
             \/ DispatchSkipped(c, ch) \/ DispatchRefused(c, ch)
      PROVE  rows \subseteq rows'
  BY <1>2 DEF Dispatch, DispatchFromFile, DispatchSkipped, DispatchRefused
<1>3. ASSUME NEW tf \in Tfs, Serve(tf) PROVE rows \subseteq rows'
  BY <1>3 DEF Serve
<1> QED
  BY <1>1, <1>2, <1>3 DEF Next, vars

\* A call that still scans has a close that is due.
LEMMA TfDue ==
    ASSUME Shape, NEW c \in Calls, Len(sets[c]) < Len(Due)
    PROVE  Tf(c) \in Tfs /\ Len(sets[c]) + 1 \in DOMAIN Due
<1>1. PICK S : sets[c] \in Seq(S)
  BY DEF Shape
<1>2. Len(sets[c]) \in Nat /\ Len(Due) \in Nat /\ DOMAIN Due = 1..Len(Due)
  BY <1>1, ClosePublishAssumption
<1> QED
  BY <1>2 DEF Tf, Tfs

\* A set whose picks are recorded may join the sets of a call.
LEMMA HaveRecorded ==
    ASSUME Shape, Recorded, rows \subseteq rows', NEW c \in Calls, Len(sets[c]) < Len(Due),
           NEW set, Have(c, set), \A p \in set : RecIn(Tf(c), p)
    PROVE  SetsRecorded'
<1>1. PICK S : sets[c] \in Seq(S)
  BY DEF Shape
<1>2. \A d \in Calls \ {c} : sets'[d] = sets[d]
  BY DEF Have, Shape
<1>3. sets'[c] = Append(sets[c], set)
  BY DEF Have, Shape
<1>4. ASSUME NEW i \in DOMAIN sets'[c], NEW p \in sets'[c][i] PROVE RecIn(Due[i], p)
  <2>1. CASE i \in 1..Len(sets[c])
    BY <1>1, <1>3, <1>4, <2>1, AppendOne DEF Recorded, SetsRecorded
  <2>2. CASE i = Len(sets[c]) + 1
    BY <1>1, <1>3, <1>4, <2>2, AppendOne DEF Tf
  <2> QED
    BY <1>1, <1>3, <1>4, <2>1, <2>2, AppendOne
<1> QED
  BY <1>2, <1>4 DEF Recorded, SetsRecorded, RecIn

\* A call that ends leaves the rest recorded.
LEMMA EndRecorded ==
    ASSUME Shape, Recorded, rows \subseteq rows', NEW c \in Calls, End(c)
    PROVE  SetsRecorded' /\ GotRecorded'
<1>1. /\ sets'[c] = <<>> /\ got'[c] = {}
      /\ \A d \in Calls \ {c} : sets'[d] = sets[d] /\ got'[d] = got[d] /\ at'[d] = at[d]
  BY DEF End, Goto, Shape
<1> QED
  BY <1>1 DEF Recorded, SetsRecorded, GotRecorded, RecIn, Tf

\* Every step keeps what is held recorded: a set is kept only after each of its
\* picks was.
LEMMA RecordedStep == Shape /\ Recorded /\ [Next]_vars => Recorded'
<1> SUFFICES ASSUME Shape, Recorded, [Next]_vars PROVE Recorded'
  OBVIOUS
<1>0. rows \subseteq rows'
  BY RowsGrow
<1>a. ASSUME UNCHANGED saved PROVE SavedRecorded'
  BY <1>0, <1>a DEF Recorded, SavedRecorded, RecIn
<1>b. ASSUME UNCHANGED local PROVE LocalRecorded'
  BY <1>0, <1>b DEF Recorded, LocalRecorded, RecIn
<1>c. ASSUME UNCHANGED sets PROVE SetsRecorded'
  BY <1>0, <1>c DEF Recorded, SetsRecorded, RecIn
<1>d. ASSUME UNCHANGED posted PROVE PostedIsRecorded'
  BY <1>0, <1>d DEF Recorded, PostedIsRecorded
<1>e. ASSUME UNCHANGED <<got, sets>>, \A c \in Calls : at[c] = "persist" => at'[c] = "persist"
      PROVE GotRecorded'
  BY <1>0, <1>e DEF Recorded, GotRecorded, RecIn, Tf
<1>f. ASSUME NEW c \in Calls, local' \in {local, [local EXCEPT ![c] = NoSets]}
      PROVE LocalRecorded'
  <2>1. CASE local' = [local EXCEPT ![c] = NoSets]
    <3>1. /\ \A tf \in Tfs : local'[c][tf] = Unsaved
          /\ \A d \in Calls \ {c} : local'[d] = local[d]
      BY <2>1 DEF NoSets, Shape
    <3> QED
      BY <1>0, <3>1 DEF Recorded, LocalRecorded, RecIn
  <2> QED
    BY <2>1, <1>b, <1>f
<1>g. ASSUME NEW c \in Calls, NEW set, Have(c, set), got' = got, got[c] = {}
      PROVE GotRecorded'
  BY <1>0, <1>g DEF Have, Goto, Recorded, GotRecorded, RecIn, Shape, Tf
<1> USE DEF books, locals, day, history
<1>1. ASSUME NEW c \in Calls, Begin(c) PROVE Recorded'
  <2>1. \A d \in Calls : at[d] = "persist" => at'[d] = "persist"
    BY <1>1 DEF Begin, Goto, Running, Shape
  <2> QED
    BY <1>1, <2>1, <1>a, <1>b, <1>c, <1>d, <1>e DEF Begin, Recorded
<1>2. ASSUME NEW c \in Calls, LoadHit(c) PROVE Recorded'
  <2>1. Have(c, saved[Tf(c)]) /\ Len(sets[c]) < Len(Due) /\ got[c] = {} /\ Tf(c) \in Tfs
    BY <1>2, TfDue DEF LoadHit, Shape, Recorded, GotRecorded
  <2>2. \A p \in saved[Tf(c)] : RecIn(Tf(c), p)
    BY <1>2, <2>1 DEF LoadHit, Recorded, SavedRecorded
  <2>3. SetsRecorded' /\ GotRecorded'
    BY <1>0, <1>2, <2>1, <2>2, <1>g, HaveRecorded DEF LoadHit
  <2> QED
    BY <1>2, <2>3, <1>a, <1>b, <1>d DEF LoadHit, Recorded
<1>3. ASSUME NEW c \in Calls, ToScan(c), at[c] = "load", UNCHANGED <<ledger, day, books, posted>>
      PROVE  Recorded'
  <2>1. CASE scanned[c]
    <3>1. End(c)
      BY <1>3, <2>1 DEF ToScan, Leave
    <3> QED
      BY <1>0, <1>3, <3>1, <1>a, <1>b, <1>d, EndRecorded DEF Recorded
  <2>2. CASE ~scanned[c]
    <3>1. Goto(c, "scan") /\ UNCHANGED <<locals, books, posted>>
      BY <1>3, <2>2 DEF ToScan
    <3>2. \A d \in Calls : at[d] = "persist" => at'[d] = "persist"
      BY <1>3, <3>1 DEF Goto, Shape
    <3> QED
      BY <1>3, <3>1, <3>2, <1>a, <1>b, <1>c, <1>d, <1>e DEF Recorded
  <2> QED
    BY <2>1, <2>2
<1>4. ASSUME NEW c \in Calls, LoadFile(c) PROVE Recorded'
  <2>0. /\ at[c] = "load" /\ got[c] = {} /\ UNCHANGED <<saved, local, posted>>
        /\ Len(sets[c]) < Len(Due) /\ Tf(c) \in Tfs
    BY <1>4, TfDue DEF LoadFile, Shape, Recorded, GotRecorded
  <2>1. ASSUME Have(c, local[c][Tf(c)]), local[c][Tf(c)] # Unsaved, UNCHANGED got PROVE Recorded'
    <3>1. \A p \in local[c][Tf(c)] : RecIn(Tf(c), p)
      BY <2>0, <2>1 DEF Recorded, LocalRecorded
    <3>2. SetsRecorded' /\ GotRecorded'
      BY <1>0, <2>0, <2>1, <3>1, <1>g, HaveRecorded
    <3> QED
      BY <2>0, <3>2, <1>a, <1>b, <1>d DEF Recorded
  <2>2. ASSUME End(c) PROVE Recorded'
    BY <1>0, <2>0, <2>2, <1>a, <1>b, <1>d, EndRecorded DEF Recorded
  <2>3. ASSUME Goto(c, "scan"), UNCHANGED locals PROVE Recorded'
    <3>2. \A d \in Calls : at[d] = "persist" => at'[d] = "persist"
      BY <2>0, <2>3 DEF Goto, Shape
    <3> QED
      BY <2>0, <2>3, <3>2, <1>a, <1>b, <1>c, <1>d, <1>e DEF Recorded
  <2> QED
    BY <1>4, <2>1, <2>2, <2>3 DEF LoadFile
<1>5. ASSUME NEW c \in Calls, End(c), UNCHANGED <<saved, posted>>,
             local' \in {local, [local EXCEPT ![c] = NoSets]}
      PROVE  Recorded'
  BY <1>0, <1>5, <1>a, <1>d, <1>f, EndRecorded DEF Recorded
<1>6. ASSUME NEW c \in Calls, Scan(c) PROVE Recorded'
  <2>1. \A d \in Calls : at[d] = "persist" => at'[d] = "persist"
    BY <1>6 DEF Scan, Goto, Shape
  <2> QED
    BY <1>6, <2>1, <1>a, <1>b, <1>c, <1>d, <1>e DEF Scan, Recorded
<1>7. ASSUME NEW c \in Calls, Persist(c) PROVE Recorded'
  <2>1. UNCHANGED <<saved, local, posted, sets, at>> /\ at[c] = "persist"
    BY <1>7 DEF Persist, PickDone
  <2>2. PICK pick : pick = Head(todo[c])
    OBVIOUS
  <2>3. /\ got'[c] = got[c] \union {pick}
        /\ \A d \in Calls \ {c} : got'[d] = got[d]
    BY <1>7, <2>2 DEF Persist, Shape
  <2>5. \E r \in rows' : r.tf = Tf(c) /\ r.coin = pick.coin /\ r.venue = pick.venue
    <3>1. \E new : /\ new = Row(Tf(c), pick)
                   /\ \E r \in rows' : r.tf = new.tf /\ r.coin = new.coin /\ r.venue = new.venue
      BY <1>7, <2>2, Zenon DEF Persist
    <3> QED
      BY <3>1 DEF Row
  <2>4. GotRecorded'
    <3>1. \A p \in got'[c] : at'[c] = "persist" /\ RecIn(Tf(c), p)'
      BY <1>0, <2>1, <2>3, <2>5 DEF Recorded, GotRecorded, RecIn, Tf
    <3>2. \A d \in Calls \ {c} : \A p \in got'[d] : at'[d] = "persist" /\ RecIn(Tf(d), p)'
      BY <1>0, <2>1, <2>3 DEF Recorded, GotRecorded, RecIn, Tf
    <3> QED
      BY <3>1, <3>2 DEF GotRecorded
  <2> QED
    BY <2>1, <2>4, <1>a, <1>b, <1>c, <1>d DEF Recorded
<1>8. ASSUME NEW c \in Calls, PersistFails(c) \/ PersistReplyLost(c) PROVE Recorded'
  BY <1>8, <1>a, <1>b, <1>c, <1>d, <1>e DEF PersistFails, PersistReplyLost, PickDone, Recorded
<1>9. ASSUME NEW c \in Calls, Save(c) \/ SaveFile(c) PROVE Recorded'
  <2>0. /\ at[c] = "persist" /\ Have(c, got[c]) /\ got' = [got EXCEPT ![c] = {}]
        /\ Len(sets[c]) < Len(Due) /\ Tf(c) \in Tfs /\ UNCHANGED posted
    BY <1>9, TfDue DEF Save, SaveFile, Shape
  <2>1. \A p \in got[c] : RecIn(Tf(c), p)
    BY DEF Recorded, GotRecorded
  <2>2. SetsRecorded'
    BY <1>0, <2>0, <2>1, HaveRecorded
  <2>3. GotRecorded'
    BY <1>0, <2>0 DEF Have, Goto, Recorded, GotRecorded, RecIn, Shape, Tf
  <2>4. CASE Save(c)
    <3>1. \A tf \in Tfs : saved'[tf] = IF tf = Tf(c) THEN got[c] ELSE saved[tf]
      BY <2>0, <2>4 DEF Save, Shape
    <3> QED
      BY <1>0, <1>b, <1>d, <2>0, <2>1, <2>2, <2>3, <2>4, <3>1 DEF Save, Recorded, SavedRecorded, RecIn
  <2>5. CASE SaveFile(c)
    <3>1. /\ \A tf \in Tfs : local'[c][tf] = IF tf = Tf(c) THEN got[c] ELSE local[c][tf]
          /\ \A d \in Calls \ {c} : local'[d] = local[d]
      BY <2>0, <2>5 DEF SaveFile, Shape
    <3>2. LocalRecorded'
      BY <1>0, <2>1, <3>1 DEF Recorded, LocalRecorded, RecIn
    <3> QED
      BY <1>a, <1>d, <2>0, <2>2, <2>3, <2>5, <3>2 DEF SaveFile, Recorded
  <2> QED
    BY <1>9, <2>4, <2>5
<1>10. ASSUME NEW c \in Calls, NEW ch \in Channels,
              Dispatch(c, ch) \/ DispatchFromFile(c, ch)
       PROVE  Recorded'
  <2>1. UNCHANGED <<saved, posted, sets, got, at>>
    BY <1>10 DEF Dispatch, DispatchFromFile
  <2>2. local' \in {local, [local EXCEPT ![c] = NoSets]}
    BY <1>10 DEF Dispatch, DispatchFromFile, FileRewritten
  <2> QED
    BY <2>1, <2>2, <1>a, <1>c, <1>d, <1>e, <1>f DEF Recorded
<1>11. ASSUME NEW c \in Calls, NEW ch \in Channels, DispatchSkipped(c, ch) \/ DispatchRefused(c, ch)
       PROVE  Recorded'
  BY <1>11, <1>5 DEF DispatchSkipped, DispatchRefused, Leave
<1>12. ASSUME NEW c \in Calls, PostSent(c) \/ PostFails(c) \/ TweetFails(c) PROVE Recorded'
  <2>1. UNCHANGED <<saved, local, sets, got>> /\ posted' \in {posted, sets[c]}
    BY <1>12 DEF PostSent, PostFails, TweetFails
  <2>2. \A d \in Calls : at[d] = "persist" => at'[d] = "persist"
    BY <1>12 DEF PostSent, PostFails, TweetFails, Goto, Shape
  <2>3. PostedIsRecorded'
    BY <1>0, <2>1 DEF Recorded, SetsRecorded, PostedIsRecorded, RecIn
  <2> QED
    BY <2>1, <2>2, <2>3, <1>a, <1>b, <1>c, <1>e DEF Recorded
<1>13. ASSUME NEW c \in Calls, ScanTooEarly(c) \/ TweetSent(c) \/ GiveBack(c) \/ Stop(c)
       PROVE  Recorded'
  BY <1>13, <1>5 DEF ScanTooEarly, TweetSent, GiveBack, Stop, Leave, FileRewritten
<1>14. ASSUME NEW tf \in Tfs, Serve(tf) PROVE Recorded'
  BY <1>14, <1>a, <1>b, <1>c, <1>d, <1>e DEF Serve, Recorded
<1>15. CASE UNCHANGED vars
  BY <1>15, <1>a, <1>b, <1>c, <1>d, <1>e DEF vars, Recorded
<1> QED
  BY <1>1, <1>2, <1>3, <1>4, <1>6, <1>7, <1>8, <1>9, <1>10, <1>11, <1>12, <1>13, <1>14, <1>15
     DEF Next, Read, Compute, Send, LoadMiss

\* (close_publish.close_picks) Nothing is posted that is not on the record,
\* whatever fails and whichever calls overlap.
THEOREM PostedCorrect == Spec => []PostedIsRecorded
<1>1. Recorded => PostedIsRecorded
  BY DEF Recorded
<1> QED
  BY ShapeInit, ShapeStep, RecordedInit, RecordedStep, <1>1, PTL DEF Spec
-----------------------------------------------------------------------------

\* Every step of the publication is a step of the claim ledger or leaves it
\* alone.
LEMMA LedgerStep ==
    ASSUME [Next]_vars PROVE [Ledger!Next]_(Ledger!vars)
<1> USE DEF ledger, books, locals, day, history, Ledger!vars, Ledger!ledger, Ledger!worker
<1>1. ASSUME NEW c \in Calls, Begin(c) \/ Read(c) \/ Compute(c) PROVE UNCHANGED ledger
  BY <1>1 DEF Begin, Read, LoadHit, LoadMiss, LoadFile, Compute, ScanTooEarly, Scan, Persist,
       PersistFails, PersistReplyLost, PickDone, Save, SaveFile
<1>2. ASSUME NEW c \in Calls, Send(c) \/ Stop(c) PROVE Ledger!Next
  BY <1>2 DEF Send, PostSent, PostFails, TweetSent, TweetFails, GiveBack, Stop,
       Ledger!Next, Ledger!Perform
<1>3. ASSUME NEW c \in Calls, NEW ch \in Channels,
             Dispatch(c, ch) \/ DispatchFromFile(c, ch) \/ DispatchRefused(c, ch)
      PROVE  Ledger!Next
  BY <1>3 DEF Dispatch, Claim, DispatchFromFile, ClaimFromFile, DispatchRefused, Ledger!Claim,
       Ledger!Next
<1>4. ASSUME NEW c \in Calls, NEW ch \in Channels, DispatchSkipped(c, ch) PROVE UNCHANGED ledger
  BY <1>4 DEF DispatchSkipped
<1>5. ASSUME NEW tf \in Tfs, Serve(tf) PROVE UNCHANGED ledger
  BY <1>5 DEF Serve
<1>6. CASE UNCHANGED vars
  BY <1>6 DEF vars
<1> QED
  BY <1>1, <1>2, <1>3, <1>4, <1>5, <1>6 DEF Next

\* The publication claims and gives back its two messages exactly as kv_cache
\* lets it.
THEOREM PublishImplementsClaimLedger == Spec => ImplementsClaimLedger
<1>1. Init => Ledger!Init
  BY DEF Init
<1>2. [Next]_vars => [Ledger!Next]_(Ledger!vars)
  BY LedgerStep
<1> QED
  BY <1>1, <1>2, PTL DEF Spec, ImplementsClaimLedger, Ledger!Spec

\* The publication uses the ledger within its assumptions.
LEMMA LedgerAssumption == LP!ClaimLedgerAssumption
BY ClosePublishAssumption DEF LP!ClaimLedgerAssumption, LP!AllFaults

\* The ledger that the publication refines is the one its theorems are about.
LEMMA SameLedger ==
    /\ Ledger!Init <=> LP!Init
    /\ [Ledger!Next]_(Ledger!vars) <=> [LP!Next]_(LP!vars)
    /\ Ledger!Sound <=> LP!Sound
BY DEF Ledger!Init, LP!Init, Ledger!Next, LP!Next, Ledger!vars, LP!vars, Ledger!Sound, LP!Sound,
       Ledger!ledger, LP!ledger, Ledger!worker, LP!worker, Ledger!Goto, LP!Goto, Ledger!Won, LP!Won,
       Ledger!Suffer, LP!Suffer, Ledger!ClaimShared, LP!ClaimShared, Ledger!ClaimFile, LP!ClaimFile,
       Ledger!ClaimNoFile, LP!ClaimNoFile, Ledger!SufferBoth, LP!SufferBoth, Ledger!ClaimRefused,
       LP!ClaimRefused, Ledger!Claim, LP!Claim, Ledger!Perform, LP!Perform, Ledger!ActSucceeds,
       LP!ActSucceeds, Ledger!ActFails, LP!ActFails, Ledger!GiveBack, LP!GiveBack,
       Ledger!ReleaseShared, LP!ReleaseShared, Ledger!ReleaseFile, LP!ReleaseFile,
       Ledger!ReleaseNoFile, LP!ReleaseNoFile,
       Ledger!Crash, LP!Crash, Ledger!Expire, LP!Expire

\* The ledger's invariant holds at first.
LEMMA LedgerInvInit == Init => LP!IInv
BY SameLedger, LedgerAssumption, LP!InitIInv DEF Init

\* Every step of the publication keeps the ledger's invariant.
LEMMA LedgerInvStep == LP!IInv /\ [Next]_vars => LP!IInv'
BY SameLedger, LedgerStep, LedgerAssumption, LP!NextIInv
-----------------------------------------------------------------------------
(* What a scan takes over.                                                 *)

\* The picks of a scan are candidates of one ranked list.
Picked ==
    /\ DOMAIN todo = Calls
    /\ \A c \in Calls : at[c] = "persist" =>
          \E list \in Lists : todo[c] \in Seq(Listed(list)) /\ got[c] \subseteq Listed(list)

\* The walk is the function its recursion describes.
LEMMA GreedyDef ==
    ASSUME NEW S, NEW ranked \in Seq(S), NEW topN
    PROVE  /\ Greedy(ranked, topN)[0] = [top |-> <<>>, deferred |-> <<>>]
           /\ \A i \in 1..Len(ranked) :
                 Greedy(ranked, topN)[i] = Take(Greedy(ranked, topN)[i - 1], ranked[i], topN)
<1> DEFINE First == [top |-> <<>>, deferred |-> <<>>]
           F(g, n) == g = [i \in 0..n |-> IF i = 0 THEN First ELSE Take(g[i - 1], ranked[i], topN)]
<1>1. Greedy(ranked, topN) = CHOOSE g : F(g, Len(ranked))
  BY DEF Greedy
<1> HIDE DEF First
<1>2. \E g : F(g, 0)
  <2>1. F([i \in 0..0 |-> First], 0)
    OBVIOUS
  <2> QED
    BY <2>1
<1>3. ASSUME NEW m \in 0..(Len(ranked) - 1), NEW g, F(g, m) PROVE \E h : F(h, m + 1)
  <2> DEFINE h == [i \in 0..(m+1) |->
                      IF i = m + 1 THEN Take(g[m], ranked[m + 1], topN) ELSE g[i]]
  <2>1. ASSUME NEW i \in 0..(m + 1)
        PROVE  h[i] = IF i = 0 THEN First ELSE Take(h[i - 1], ranked[i], topN)
    <3>1. CASE i = m + 1
      BY <1>3, <3>1
    <3>2. CASE i # m + 1
      BY <1>3, <3>2
    <3> QED
      BY <3>1, <3>2
  <2>2. h = [i \in 0..(m+1) |-> h[i]]
    OBVIOUS
  <2> HIDE DEF h
  <2>3. F(h, m + 1)
    BY <2>1, <2>2
  <2> QED
    BY <2>3
<1>4. \E g : F(g, Len(ranked))
  <2> PICK n \in Nat : n = Len(ranked)
    OBVIOUS
  <2> DEFINE X == {k \in 0..n : \E g : F(g, k)}
  <2>1. \A m \in 0..(n - 1) : (\E g : F(g, m)) => \E h : F(h, m + 1)
    BY <1>3
  <2> HIDE DEF F
  <2>2. 0 \in X /\ \A m \in 0..(n - 1) : m \in X => m + 1 \in X
    BY <1>2, <2>1
  <2> HIDE DEF X
  <2>3. n \in X
    BY <2>2, Rules!UpTo
  <2> QED
    BY <2>3 DEF X
<1>5. F(Greedy(ranked, topN), Len(ranked))
  BY <1>1, <1>4
<1>6. Len(ranked) \in Nat
  OBVIOUS
<1> QED
  BY <1>5, <1>6 DEF First

(* select_publishable publishes only candidates of its list, and never more *)
(* than it is asked for (close_publish.py, rec_policy.py).                 *)
THEOREM SelectedAreCandidates ==
    ASSUME NEW S, NEW ranked \in Seq(S), NEW topN \in Nat
    PROVE  /\ SelectPublishable(ranked, topN) \in Seq(S)
           /\ Len(SelectPublishable(ranked, topN)) <= topN
<1> DEFINE Accs == [top : Seq(S), deferred : Seq(S)]
           walk == Greedy(ranked, topN)
<1>1. Len(ranked) \in Nat
  OBVIOUS
<1>2. walk[0] = [top |-> <<>>, deferred |-> <<>>]
  BY GreedyDef
<1>3. \A i \in 1..Len(ranked) : walk[i] = Take(walk[i - 1], ranked[i], topN)
  BY GreedyDef
<1>4. SelectPublishable(ranked, topN) =
         LET all == walk[Len(ranked)].top \o walk[Len(ranked)].deferred
         IN  SubSeq(all, 1, IF Len(all) < topN THEN Len(all) ELSE topN)
  BY DEF SelectPublishable
<1> HIDE DEF walk
<1>5. walk[0] \in Accs
  <2>1. <<>> \in Seq(S)
    OBVIOUS
  <2> QED
    BY <1>2, <2>1
<1>6. ASSUME NEW acc \in Accs, NEW c \in S PROVE Take(acc, c, topN) \in Accs
  <2>1. Append(acc.deferred, c) \in Seq(S) /\ Append(acc.top, c) \in Seq(S)
    BY <1>6
  <2>2. /\ [acc EXCEPT !.deferred = Append(@, c)] \in Accs
        /\ [acc EXCEPT !.top = Append(@, c)] \in Accs
    BY <1>6, <2>1
  <2> HIDE DEF Accs
  <2> QED
    BY <1>6, <2>2, Zenon DEF Take
<1>7. walk[Len(ranked)] \in Accs
  <2> HIDE DEF Accs
  <2> PICK n \in Nat : n = Len(ranked)
    BY <1>1
  <2> DEFINE X == {k \in 0..n : walk[k] \in Accs}
  <2>1. ASSUME NEW m \in 0..(n - 1), walk[m] \in Accs PROVE walk[m + 1] \in Accs
    <3>1. PICK i \in 1..Len(ranked) : i = m + 1 /\ i - 1 = m /\ ranked[i] \in S
      OBVIOUS
    <3>2. walk[i] = Take(walk[i - 1], ranked[i], topN)
      BY <1>3
    <3> QED
      BY <1>6, <2>1, <3>1, <3>2
  <2>2. 0 \in X /\ \A m \in 0..(n - 1) : m \in X => m + 1 \in X
    BY <1>5, <2>1
  <2> HIDE DEF X
  <2>3. n \in X
    BY <2>2, Rules!UpTo
  <2> QED
    BY <2>3 DEF X
<1> DEFINE all == walk[Len(ranked)].top \o walk[Len(ranked)].deferred
<1>8. all \in Seq(S)
  BY <1>7
<1>9. SelectPublishable(ranked, topN) = SubSeq(all, 1, IF Len(all) < topN THEN Len(all) ELSE topN)
  BY <1>4
<1> HIDE DEF all
<1>10. Len(all) \in Nat
  BY <1>8
<1> PICK k \in Nat : k = (IF Len(all) < topN THEN Len(all) ELSE topN) /\ k <= Len(all) /\ k <= topN
  BY <1>10
<1>11. SubSeq(all, 1, k) \in Seq(S) /\ Len(SubSeq(all, 1, k)) = k
  BY <1>8, <1>10
<1> QED
  BY <1>9, <1>11

\* A scan takes over candidates of its list.
LEMMA SelectedAreListed ==
    ASSUME NEW list \in Lists
    PROVE  SelectPublishable(list, TopN) \in Seq(Listed(list))
BY ClosePublishAssumption, SelectedAreCandidates

\* No scan is under way at first.
LEMMA PickedInit == Init => Picked
BY DEF Init, Picked

\* Every step keeps the picks of a scan among its candidates.
LEMMA PickedStep == Shape /\ Recorded /\ Picked /\ [Next]_vars => Picked'
<1> SUFFICES ASSUME Shape, Recorded, Picked, [Next]_vars PROVE Picked'
  OBVIOUS
<1> USE DEF books, locals, day, history
<1>1. ASSUME UNCHANGED todo, \A d \in Calls : at'[d] = "persist" => at[d] = "persist" /\ got'[d] = got[d]
      PROVE  Picked'
  BY <1>1 DEF Picked
<1>2. ASSUME NEW c \in Calls, End(c) PROVE Picked'
  <2>1. /\ DOMAIN todo' = Calls /\ at'[c] # "persist"
        /\ \A d \in Calls \ {c} : at'[d] = at[d] /\ todo'[d] = todo[d] /\ got'[d] = got[d]
    BY <1>2 DEF End, Goto, Shape, Picked
  <2> QED
    BY <2>1 DEF Picked
<1>3. ASSUME NEW c \in Calls, Begin(c) PROVE Picked'
  BY <1>1, <1>3 DEF Begin, Goto, Shape
<1>4. ASSUME NEW c \in Calls, NEW set, Have(c, set), UNCHANGED todo,
             \A d \in Calls \ {c} : got'[d] = got[d]
      PROVE  Picked'
  BY <1>1, <1>4 DEF Have, Goto, Shape
<1>5. ASSUME NEW c \in Calls, Goto(c, "scan"), UNCHANGED locals PROVE Picked'
  BY <1>1, <1>5 DEF Goto, Shape
<1>6. ASSUME NEW c \in Calls, Read(c) PROVE Picked'
  BY <1>2, <1>4, <1>5, <1>6 DEF Read, LoadHit, LoadMiss, LoadFile, ToScan, Leave
<1>7. ASSUME NEW c \in Calls, Scan(c) PROVE Picked'
  <2>1. PICK list \in Lists : todo' = [todo EXCEPT ![c] = SelectPublishable(list, TopN)]
    BY <1>7 DEF Scan
  <2>2. /\ todo'[c] \in Seq(Listed(list)) /\ got'[c] = {}
        /\ DOMAIN todo' = Calls
        /\ \A d \in Calls \ {c} : at'[d] = at[d] /\ todo'[d] = todo[d] /\ got'[d] = got[d]
    BY <1>7, <2>1, SelectedAreListed DEF Scan, Goto, Shape, Picked, Recorded, GotRecorded
  <2> QED
    BY <2>1, <2>2 DEF Picked
<1>8. ASSUME NEW c \in Calls, Persist(c) \/ PersistFails(c) \/ PersistReplyLost(c) PROVE Picked'
  <2>1. /\ at[c] = "persist" /\ todo[c] # <<>>
        /\ todo' = [todo EXCEPT ![c] = Tail(@)] /\ UNCHANGED at
        /\ got' \in {got, [got EXCEPT ![c] = @ \union {Head(todo[c])}]}
    BY <1>8 DEF Persist, PersistFails, PersistReplyLost, PickDone
  <2>2. PICK list \in Lists : todo[c] \in Seq(Listed(list)) /\ got[c] \subseteq Listed(list)
    BY <2>1 DEF Picked
  <2>3. Tail(todo[c]) \in Seq(Listed(list)) /\ Head(todo[c]) \in Listed(list)
    BY <2>1, <2>2
  <2>4. /\ todo'[c] \in Seq(Listed(list)) /\ got'[c] \subseteq Listed(list)
        /\ DOMAIN todo' = Calls
        /\ \A d \in Calls \ {c} : todo'[d] = todo[d] /\ got'[d] = got[d]
    BY <2>1, <2>2, <2>3 DEF Picked, Shape
  <2> QED
    BY <2>1, <2>2, <2>4 DEF Picked
<1>9. ASSUME NEW c \in Calls, Save(c) \/ SaveFile(c) PROVE Picked'
  BY <1>4, <1>9 DEF Save, SaveFile, Shape
<1>10. ASSUME NEW c \in Calls, PostSent(c) \/ PostFails(c) \/ TweetFails(c) PROVE Picked'
  BY <1>1, <1>10 DEF PostSent, PostFails, TweetFails, Goto, Shape
<1>11. ASSUME NEW c \in Calls, ScanTooEarly(c) \/ TweetSent(c) \/ GiveBack(c) \/ Stop(c) PROVE Picked'
  BY <1>2, <1>11 DEF ScanTooEarly, TweetSent, GiveBack, Stop, Leave
<1>12. ASSUME NEW c \in Calls, NEW ch \in Channels,
              \/ Dispatch(c, ch) \/ DispatchFromFile(c, ch)
              \/ DispatchSkipped(c, ch) \/ DispatchRefused(c, ch)
       PROVE  Picked'
  BY <1>1, <1>2, <1>12 DEF Dispatch, DispatchFromFile, DispatchSkipped, DispatchRefused, Leave
<1>13. ASSUME NEW tf \in Tfs, Serve(tf) PROVE Picked'
  BY <1>1, <1>13 DEF Serve
<1>14. CASE UNCHANGED vars
  BY <1>1, <1>14 DEF vars
<1> QED
  BY <1>3, <1>6, <1>7, <1>8, <1>9, <1>10, <1>11, <1>12, <1>13, <1>14 DEF Next, Compute, Send
-----------------------------------------------------------------------------
(* Repeating a job.                                                        *)

\* Whatever a call has, and everything once the post is out, is kept.
AllKept ==
    Sound =>
      /\ \A c \in Calls : \A i \in DOMAIN sets[c] : saved[Due[i]] # Unsaved
      /\ effect["post"] > 0 => \A tf \in Tfs : saved[tf] # Unsaved

\* What a scan recorded is a set of picks, which is not the mark of no set.
LEMMA GotIsNoMark ==
    ASSUME Picked, NEW c \in Calls, at[c] = "persist"
    PROVE  got[c] # Unsaved
<1>1. PICK list \in Lists : got[c] \subseteq Listed(list)
  BY DEF Picked
<1>2. got[c] \in SUBSET Picks
  BY <1>1 DEF Picks
<1> QED
  BY <1>2, ClosePublishAssumption

\* What has come between a scan and its set stays known.
LEMMA MishapsStay == ASSUME [Next]_vars PROVE mishaps \subseteq mishaps'
<1> USE DEF history, books, locals, day
<1>1. ASSUME NEW c \in Calls, Begin(c) \/ Read(c) \/ Compute(c) \/ Send(c) \/ Stop(c)
      PROVE  mishaps \subseteq mishaps'
  BY <1>1 DEF Begin, Read, LoadHit, LoadMiss, ToScan, LoadFile, Compute, ScanTooEarly, Scan,
       Persist, PersistFails, PersistReplyLost, Save, SaveFile, Send, PostSent, PostFails,
       TweetSent, TweetFails, GiveBack, Stop
<1>2. ASSUME NEW c \in Calls, NEW ch \in Channels,
             \/ Dispatch(c, ch) \/ DispatchFromFile(c, ch)
             \/ DispatchSkipped(c, ch) \/ DispatchRefused(c, ch)
      PROVE  mishaps \subseteq mishaps'
  BY <1>2 DEF Dispatch, DispatchFromFile, DispatchSkipped, DispatchRefused
<1>3. ASSUME NEW tf \in Tfs, Serve(tf) PROVE mishaps \subseteq mishaps'
  BY <1>3 DEF Serve
<1> QED
  BY <1>1, <1>2, <1>3 DEF Next, vars

\* A call with a claim in hand stands at the channel it claimed.
AtJob ==
    /\ DOMAIN pc = Calls /\ DOMAIN job = Calls
    /\ \A c \in Calls : pc[c] # "idle" => at[c] \in Channels /\ job[c] = at[c]

\* No call sends at first.
LEMMA AtJobInit == Init => AtJob
BY DEF Init, AtJob, Ledger!Init

\* A call that is inside the ledger is sending the message it stands at.
LEMMA AtJobStep == Shape /\ AtJob /\ [Next]_vars => AtJob'
<1> SUFFICES ASSUME Shape, AtJob, [Next]_vars PROVE AtJob'
  OBVIOUS
<1> USE DEF ledger, books, locals, day, history
<1>1. ASSUME NEW c \in Calls, UNCHANGED ledger, at[c] \notin Channels \/ pc[c] = "idle",
             \A d \in Calls \ {c} : at'[d] = at[d]
      PROVE  AtJob'
  BY <1>1 DEF AtJob
<1>2. ASSUME NEW c \in Calls, NEW step, Goto(c, step) PROVE \A d \in Calls \ {c} : at'[d] = at[d]
  BY <1>2 DEF Goto, Shape
<1>3. ASSUME NEW c \in Calls, Begin(c) \/ LoadHit(c) \/ LoadMiss(c) \/ LoadFile(c) \/ ScanTooEarly(c)
                              \/ Scan(c) \/ Save(c) \/ SaveFile(c)
      PROVE  AtJob'
  <2>1. at[c] \notin Channels /\ UNCHANGED ledger
    BY <1>3 DEF Begin, LoadHit, LoadMiss, LoadFile, ScanTooEarly, Scan, Save, SaveFile, Running, Channels
  <2>2. \E step : Goto(c, step)
    BY <1>3 DEF Begin, LoadHit, LoadMiss, ToScan, LoadFile, ScanTooEarly, Scan, Save, SaveFile,
         Leave, End, Have
  <2> QED
    BY <1>1, <1>2, <2>1, <2>2
<1>4. ASSUME NEW c \in Calls, Persist(c) \/ PersistFails(c) \/ PersistReplyLost(c) PROVE AtJob'
  BY <1>4 DEF Persist, PersistFails, PersistReplyLost, PickDone, AtJob
<1>5. ASSUME NEW c \in Calls, Ledger!Goto(c, "idle"), UNCHANGED job, \A d \in Calls \ {c} : at'[d] = at[d]
      PROVE  AtJob'
  BY <1>5 DEF AtJob, Ledger!Goto
<1>6. ASSUME NEW c \in Calls, PostSent(c) \/ TweetSent(c) \/ GiveBack(c) \/ Stop(c) PROVE AtJob'
  <2>1. Ledger!Goto(c, "idle") /\ UNCHANGED job
    BY <1>6 DEF PostSent, TweetSent, GiveBack, Stop, Ledger!ActSucceeds, Ledger!GiveBack,
         Ledger!ReleaseShared, Ledger!ReleaseFile, Ledger!ReleaseNoFile, Ledger!Crash
  <2>2. \E step : Goto(c, step)
    BY <1>6 DEF PostSent, TweetSent, GiveBack, Stop, Leave, End
  <2> QED
    BY <1>2, <1>5, <2>1, <2>2
<1>7. ASSUME NEW c \in Calls, PostFails(c) \/ TweetFails(c) PROVE AtJob'
  BY <1>7 DEF PostFails, TweetFails, Ledger!ActFails, Ledger!Goto, AtJob
<1>8. ASSUME NEW c \in Calls, NEW ch \in Channels, Dispatch(c, ch) \/ DispatchFromFile(c, ch)
      PROVE  AtJob'
  <2>1. at[c] = ch /\ UNCHANGED at /\ Ledger!Won(c, ch)
    BY <1>8 DEF Dispatch, Claim, DispatchFromFile, ClaimFromFile, Ledger!ClaimShared,
         Ledger!ClaimFile, Ledger!ClaimNoFile
  <2> QED
    BY <2>1 DEF AtJob, Ledger!Won, Ledger!Goto
<1>9. ASSUME NEW c \in Calls, NEW ch \in Channels, DispatchSkipped(c, ch) PROVE AtJob'
  BY <1>1, <1>2, <1>9 DEF DispatchSkipped, Leave, End
<1>12. ASSUME NEW c \in Calls, NEW ch \in Channels, DispatchRefused(c, ch) PROVE AtJob'
  <2>1. pc[c] = "idle" /\ UNCHANGED <<pc, job>> /\ Goto(c, "out")
    BY <1>12 DEF DispatchRefused, Ledger!ClaimRefused, Ledger!worker, End
  <2> QED
    BY <1>2, <2>1 DEF AtJob
<1>10. ASSUME NEW tf \in Tfs, Serve(tf) PROVE AtJob'
  BY <1>10 DEF Serve, AtJob
<1>11. CASE UNCHANGED vars
  BY <1>11 DEF vars, AtJob
<1> QED
  BY <1>3, <1>4, <1>6, <1>7, <1>8, <1>9, <1>10, <1>11, <1>12 DEF Next, Read, Compute, Send

\* A history that is sound was sound before, and the KV answered then too.
LEMMA PublishSoundBefore == ASSUME [Next]_vars, Sound' PROVE Sound
<1>1. LP!Sound' => LP!Sound
  <2>1. [LP!Next]_(LP!vars)
    BY SameLedger, LedgerStep
  <2> QED
    BY <2>1, LedgerAssumption, LP!SoundBefore
<1>2. Ledger!Sound <=> LP!Sound
  BY SameLedger
<1>3. Ledger!Sound' <=> LP!Sound'
  BY DEF Ledger!Sound, LP!Sound
<1>4. mishaps \subseteq mishaps'
  BY MishapsStay
<1> QED
  BY <1>1, <1>2, <1>3, <1>4 DEF Sound

\* Only a send changes how often the post went out.
LEMMA EffectStep ==
    ASSUME [Next]_vars
    PROVE  \/ UNCHANGED effect
           \/ \E c \in Calls : at[c] \in Channels /\ (Ledger!ActSucceeds(c) \/ Ledger!ActFails(c))
                               /\ UNCHANGED saved /\ sets' \in {sets, [sets EXCEPT ![c] = <<>>]}
<1> USE DEF ledger, books, locals, day, history, Channels
<1>1. ASSUME NEW c \in Calls, Begin(c) \/ Read(c) \/ Compute(c) PROVE UNCHANGED effect
  BY <1>1 DEF Begin, Read, LoadHit, LoadMiss, LoadFile, Compute, ScanTooEarly, Scan, Persist,
       PersistFails, PersistReplyLost, PickDone, Save, SaveFile
<1>2. ASSUME NEW c \in Calls, GiveBack(c) \/ Stop(c) PROVE UNCHANGED effect
  BY <1>2 DEF GiveBack, Stop, Ledger!GiveBack, Ledger!ReleaseShared, Ledger!ReleaseFile, Ledger!ReleaseNoFile, Ledger!Crash
<1>3. ASSUME NEW c \in Calls, PostSent(c) \/ PostFails(c) \/ TweetSent(c) \/ TweetFails(c)
      PROVE  at[c] \in Channels /\ (Ledger!ActSucceeds(c) \/ Ledger!ActFails(c))
             /\ UNCHANGED saved /\ sets' \in {sets, [sets EXCEPT ![c] = <<>>]}
  BY <1>3 DEF PostSent, PostFails, TweetSent, TweetFails, Leave, End
<1>4. ASSUME NEW c \in Calls, NEW ch \in Channels,
             \/ Dispatch(c, ch) \/ DispatchFromFile(c, ch)
             \/ DispatchSkipped(c, ch) \/ DispatchRefused(c, ch)
      PROVE  UNCHANGED effect
  BY <1>4 DEF Dispatch, Claim, DispatchFromFile, ClaimFromFile, DispatchSkipped, DispatchRefused,
       Ledger!ClaimShared, Ledger!ClaimFile, Ledger!ClaimNoFile, Ledger!ClaimRefused
<1>5. ASSUME NEW tf \in Tfs, Serve(tf) PROVE UNCHANGED effect
  BY <1>5 DEF Serve
<1>6. CASE UNCHANGED vars
  BY <1>6 DEF vars
<1> QED
  BY <1>1, <1>2, <1>3, <1>4, <1>5, <1>6 DEF Next, Send

\* While the history is sound no set that is kept is lost, and a new one is kept.
LEMMA SavedStep ==
    ASSUME Shape, Picked, [Next]_vars, Sound'
    PROVE  /\ \A tf \in Tfs : saved[tf] # Unsaved => saved'[tf] # Unsaved
           /\ \A c \in Calls :
                \/ sets'[c] \in {sets[c], <<>>}
                \/ /\ Len(sets[c]) < Len(Due) /\ saved'[Tf(c)] # Unsaved
                   /\ \E set : sets'[c] = Append(sets[c], set)
<1> USE DEF ledger, books, locals, day, history
<1>1. ASSUME NEW c \in Calls, LoadHit(c)
      PROVE  /\ UNCHANGED saved /\ Len(sets[c]) < Len(Due) /\ saved[Tf(c)] # Unsaved
             /\ sets' = [sets EXCEPT ![c] = Append(@, saved[Tf(c)])]
  BY <1>1 DEF LoadHit, Have, Shape
<1>2. ASSUME NEW c \in Calls, Save(c)
      PROVE  /\ Len(sets[c]) < Len(Due) /\ Tf(c) \in Tfs /\ got[c] # Unsaved
             /\ saved' = [saved EXCEPT ![Tf(c)] = got[c]]
             /\ sets' = [sets EXCEPT ![c] = Append(@, got[c])]
  BY <1>2, TfDue, GotIsNoMark DEF Save, Have, Shape
<1>3. ASSUME NEW c \in Calls,
             Begin(c) \/ LoadMiss(c) \/ ScanTooEarly(c) \/ Scan(c) \/ Persist(c) \/ PersistFails(c)
             \/ PersistReplyLost(c) \/ Send(c) \/ Stop(c)
      PROVE  UNCHANGED saved /\ sets' \in {sets, [sets EXCEPT ![c] = <<>>]}
  BY <1>3 DEF Begin, LoadMiss, ToScan, ScanTooEarly, Scan, Persist, PersistFails,
       PersistReplyLost, PickDone, Send, PostSent, PostFails, TweetSent, TweetFails, GiveBack, Stop,
       Leave, End
<1>4. ASSUME NEW c \in Calls, LoadFile(c) \/ SaveFile(c) PROVE FALSE
  BY <1>4 DEF LoadFile, SaveFile, Sound
<1>5. ASSUME NEW c \in Calls, NEW ch \in Channels,
             \/ Dispatch(c, ch) \/ DispatchFromFile(c, ch)
             \/ DispatchSkipped(c, ch) \/ DispatchRefused(c, ch)
      PROVE  UNCHANGED saved /\ sets' \in {sets, [sets EXCEPT ![c] = <<>>]}
  BY <1>5 DEF Dispatch, DispatchFromFile, DispatchSkipped, DispatchRefused, Leave, End
<1>6. ASSUME NEW tf \in Tfs, Serve(tf) PROVE UNCHANGED <<saved, sets>>
  BY <1>6 DEF Serve
<1>7. CASE UNCHANGED vars
  BY <1>7 DEF vars
<1>8. DOMAIN sets = Calls /\ DOMAIN saved = Tfs
  BY DEF Shape
<1> HIDE DEF ledger, books, locals, day, history
<1>9. ASSUME NEW c \in Calls, sets' \in {sets, [sets EXCEPT ![c] = <<>>]}
      PROVE  \A d \in Calls : sets'[d] \in {sets[d], <<>>}
  BY <1>8, <1>9
<1>10. ASSUME NEW c \in Calls, LoadHit(c) \/ Save(c)
       PROVE  /\ \A tf \in Tfs : saved[tf] # Unsaved => saved'[tf] # Unsaved
              /\ Len(sets[c]) < Len(Due) /\ saved'[Tf(c)] # Unsaved
              /\ \E set : sets'[c] = Append(sets[c], set)
              /\ \A d \in Calls \ {c} : sets'[d] = sets[d]
  BY <1>1, <1>2, <1>8, <1>10
<1> QED
  BY <1>3, <1>4, <1>5, <1>6, <1>7, <1>9, <1>10 DEF Next, Read, Compute

\* While the history is sound, the sets that calls hold are kept, and the post
\* is not out before all of them are.
LEMMA AllKeptStep ==
    Shape /\ Picked /\ LP!IInv /\ AllKept /\ [Next]_vars => AllKept'
<1> SUFFICES ASSUME Shape, Picked, LP!IInv, AllKept, [Next]_vars, Sound' PROVE AllKept'
  BY DEF AllKept
<1>1. Sound
  BY PublishSoundBefore
<1>2. ASSUME NEW c \in Calls, NEW i \in DOMAIN sets'[c] PROVE saved'[Due[i]] # Unsaved
  <2>1. PICK S : sets[c] \in Seq(S)
    BY DEF Shape
  <2>2. \A j \in DOMAIN sets[c] : saved[Due[j]] # Unsaved /\ j \in DOMAIN Due
    BY <1>1, SetsWithinDue DEF AllKept
  <2>3. CASE sets'[c] \in {sets[c], <<>>}
    BY <2>2, <2>3, SavedStep DEF Tfs
  <2>4. CASE /\ Len(sets[c]) < Len(Due) /\ saved'[Tf(c)] # Unsaved
             /\ \E set : sets'[c] = Append(sets[c], set)
    <3>1. i \in DOMAIN sets[c] \/ i = Len(sets[c]) + 1
      BY <1>2, <2>1, <2>4, AppendOne
    <3>2. CASE i \in DOMAIN sets[c]
      BY <2>2, <3>2, SavedStep DEF Tfs
    <3> QED
      BY <2>4, <3>1, <3>2 DEF Tf
  <2> QED
    BY <2>3, <2>4, SavedStep
<1>3. ASSUME effect'["post"] > 0 PROVE \A tf \in Tfs : saved'[tf] # Unsaved
  <2>1. CASE UNCHANGED effect
    BY <1>1, <1>3, <2>1, SavedStep DEF AllKept
  <2>2. ASSUME NEW c \in Calls, at[c] \in Channels, UNCHANGED saved PROVE \A tf \in Tfs : saved'[tf] # Unsaved
    <3>1. Len(sets[c]) = Len(Due)
      BY <2>2 DEF Shape, Channels
    <3>2. PICK S : sets[c] \in Seq(S)
      BY DEF Shape
    <3>3. DOMAIN sets[c] = DOMAIN Due
      BY <3>1, <3>2, ClosePublishAssumption
    <3> QED
      BY <1>1, <2>2, <3>3 DEF AllKept, Tfs
  <2> QED
    BY <2>1, <2>2, EffectStep
<1> QED
  BY <1>2, <1>3 DEF AllKept

\* No call begins to scan once every set is kept.
LEMMA NobodyScans ==
    ASSUME Shape, [Next]_vars, Sound', \A tf \in Tfs : saved[tf] # Unsaved,
           NEW d \in Calls, Scanning(d)'
    PROVE  Scanning(d)
<1> USE DEF ledger, books, locals, day, history, Scanning
<1>1. ASSUME NEW c \in Calls, at' = [at EXCEPT ![c] = "load"] \/ at' = [at EXCEPT ![c] = "out"]
                              \/ at' = [at EXCEPT ![c] = "post"] \/ at' = [at EXCEPT ![c] = "tweet"]
                              \/ at' = at \/ Scanning(c)
                              , \A e \in Calls \ {c} : at'[e] = at[e]
      PROVE  Scanning(d)
  BY <1>1 DEF Shape
<1>2. ASSUME NEW c \in Calls, NEW step, Goto(c, step) PROVE \A e \in Calls \ {c} : at'[e] = at[e]
  BY <1>2 DEF Goto, Shape
<1>3. ASSUME NEW c \in Calls, LoadMiss(c) PROVE FALSE
  BY <1>3, TfDue DEF LoadMiss, Shape
<1>4. ASSUME NEW c \in Calls, LoadFile(c) \/ SaveFile(c) PROVE FALSE
  BY <1>4 DEF LoadFile, SaveFile, Sound
<1>5. ASSUME NEW c \in Calls, Begin(c) \/ LoadHit(c) \/ ScanTooEarly(c) \/ Scan(c) \/ Save(c)
      PROVE  Scanning(d)
  BY <1>1, <1>2, <1>5 DEF Begin, LoadHit, ScanTooEarly, Scan, Save, Leave, End, Have, Goto
<1>6. ASSUME NEW c \in Calls, Persist(c) \/ PersistFails(c) \/ PersistReplyLost(c) PROVE Scanning(d)
  BY <1>6 DEF Persist, PersistFails, PersistReplyLost, PickDone
<1>7. ASSUME NEW c \in Calls, Send(c) \/ Stop(c) PROVE Scanning(d)
  BY <1>1, <1>2, <1>7 DEF Send, PostSent, PostFails, TweetSent, TweetFails, GiveBack, Stop, Leave, End, Goto
<1>8. ASSUME NEW c \in Calls, NEW ch \in Channels,
             \/ Dispatch(c, ch) \/ DispatchFromFile(c, ch)
             \/ DispatchSkipped(c, ch) \/ DispatchRefused(c, ch)
      PROVE  Scanning(d)
  BY <1>1, <1>2, <1>8 DEF Dispatch, DispatchFromFile, DispatchSkipped, DispatchRefused, Leave, End, Goto
<1>9. ASSUME NEW tf \in Tfs, Serve(tf) PROVE Scanning(d)
  BY <1>9 DEF Serve
<1>10. CASE UNCHANGED vars
  BY <1>10 DEF vars
<1> QED
  BY <1>3, <1>4, <1>5, <1>6, <1>7, <1>8, <1>9, <1>10 DEF Next, Read, Compute

\* (close_publish.close_picks: "idempotent") Once the post is out and nothing
\* went wrong before, no step posts again and no call begins to scan.
THEOREM RepeatsAreIdle == Spec => RepeatsChangeNothing
<1> DEFINE Inv == Shape /\ Recorded /\ Picked /\ LP!IInv /\ AllKept
<1>1. Init => Inv
  <2>1. Init => AllKept
    BY DEF Init, AllKept, Ledger!Init, Channels
  <2> QED
    BY <2>1, ShapeInit, RecordedInit, PickedInit, LedgerInvInit
<1>2. Inv /\ [Next]_vars => Inv'
  BY ShapeStep, RecordedStep, PickedStep, LedgerInvStep, AllKeptStep
<1>3. Inv /\ [Next]_vars =>
        [(effect["post"] > 0 /\ Sound') =>
            /\ effect'["post"] = effect["post"]
            /\ \A c \in Calls : Scanning(c)' => Scanning(c)]_vars
  <2> SUFFICES ASSUME Inv, [Next]_vars, effect["post"] > 0, Sound'
               PROVE  /\ effect'["post"] = effect["post"]
                      /\ \A c \in Calls : Scanning(c)' => Scanning(c)
    OBVIOUS
  <2>1. Sound
    BY PublishSoundBefore
  <2>2. \A tf \in Tfs : saved[tf] # Unsaved
    BY <2>1 DEF AllKept
  <2>3. \A c \in Calls : Scanning(c)' => Scanning(c)
    BY <2>2, NobodyScans
  <2>4. effect'["post"] = effect["post"]
    <3>1. ASSUME NEW c \in Calls, Ledger!ActSucceeds(c) PROVE effect'["post"] = effect["post"]
      <4>1. effect[job[c]] = 0
        BY <2>1, <3>1, SameLedger DEF LP!IInv, LP!Owns, Sound, Ledger!ActSucceeds
      <4> QED
        BY <3>1, <4>1 DEF Ledger!ActSucceeds, LP!IInv, LP!TypeOK, Channels
    <3>2. ASSUME NEW c \in Calls, Ledger!ActFails(c) PROVE effect'["post"] = effect["post"]
      BY <3>2 DEF Ledger!ActFails, Ledger!Suffer, Sound, Ledger!Sound
    <3> QED
      BY <3>1, <3>2, EffectStep
  <2> QED
    BY <2>3, <2>4
<1> QED
  BY <1>1, <1>2, <1>3, PTL DEF Spec, RepeatsChangeNothing
-----------------------------------------------------------------------------
(* The record and the post.                                                *)

RowsOf(tf) == {r \in rows : r.tf = tf}
Shown(tf, set) == {Row(tf, p) : p \in set}
Recording(c) == at[c] = "persist"

\* a kept set is what is recorded of its close, ...
KeptShown == \A tf \in Tfs : saved[tf] # Unsaved => RowsOf(tf) = Shown(tf, saved[tf])
\* ... what a scan has recorded so far is all there is, ...
GotShown == \A c \in Calls : Recording(c) => RowsOf(Tf(c)) = Shown(Tf(c), got[c])
\* ... and nothing is recorded of a close that nobody has scanned;
NoneShown ==
    \A tf \in Tfs : saved[tf] = Unsaved /\ (\A c \in Calls : Recording(c) => Tf(c) # tf)
                       => RowsOf(tf) = {}
\* a close is scanned by one call at a time, and only while no set is kept
ScansApart ==
    /\ \A c \in Calls : Scanning(c) => saved[Tf(c)] = Unsaved
    /\ \A c, d \in Calls : Scanning(c) /\ Scanning(d) /\ Tf(c) = Tf(d) => c = d
\* the sets of a call and of the post are the kept ones
SetsKept ==
    \A c \in Calls : \A i \in DOMAIN sets[c] :
        saved[Due[i]] # Unsaved /\ sets[c][i] = saved[Due[i]]
PostKept ==
    posted # <<>> => \A i \in DOMAIN Due : saved[Due[i]] # Unsaved /\ posted[i] = saved[Due[i]]

Exact ==
    mishaps = {} => KeptShown /\ GotShown /\ NoneShown /\ ScansApart /\ SetsKept /\ PostKept

\* The initial state shows and keeps nothing.
LEMMA ExactInit == Init => Exact
BY DEF Init, Exact, KeptShown, GotShown, NoneShown, ScansApart, SetsKept, PostKept, Recording,
       Scanning, RowsOf, NoSets

\* A step that records and keeps nothing and lets no call begin or end to scan.
LEMMA QuietExact ==
    ASSUME Exact, mishaps = {}, UNCHANGED <<rows, saved>>,
           \A c \in Calls : Scanning(c)' => Scanning(c) /\ sets'[c] = sets[c],
           \A c \in Calls : Recording(c) <=> Recording(c)',
           \A c \in Calls : Recording(c) => got'[c] = got[c]
    PROVE  (KeptShown /\ GotShown /\ NoneShown /\ ScansApart)'
<1>1. \A c \in Calls : Scanning(c)' => Tf(c)' = Tf(c)
  BY DEF Tf
<1>2. \A c \in Calls : Recording(c) => Scanning(c) /\ Scanning(c)' /\ Tf(c)' = Tf(c)
  BY <1>1 DEF Recording, Scanning
<1>3. KeptShown'
  BY DEF Exact, KeptShown, RowsOf
<1>4. GotShown'
  BY <1>2 DEF Exact, GotShown, RowsOf
<1>5. NoneShown'
  BY <1>2 DEF Exact, NoneShown, RowsOf
<1>6. ScansApart'
  BY <1>1 DEF Exact, ScansApart
<1> QED
  BY <1>3, <1>4, <1>5, <1>6

\* Sets of a call that ends, or is left alone, are the kept ones still.
LEMMA SetsKeptStep ==
    ASSUME Exact, mishaps = {}, UNCHANGED saved, DOMAIN sets = Calls, NEW c \in Calls,
           sets' \in {sets, [sets EXCEPT ![c] = <<>>]}
    PROVE  SetsKept'
<1>1. \A d \in Calls : sets'[d] \in {sets[d], <<>>}
  OBVIOUS
<1> QED
  BY <1>1 DEF Exact, SetsKept

\* Rows of one list that show the same coin on the same exchange are one row.
LEMMA OnePickPerCoin ==
    ASSUME NEW list \in Lists, NEW p \in Listed(list), NEW q \in Listed(list),
           p.coin = q.coin, p.venue = q.venue
    PROVE  p = q
BY ClosePublishAssumption DEF Listed

\* Every step keeps the record exact while nothing comes between a scan and its
\* set.
LEMMA ExactStep == Shape /\ Recorded /\ Picked /\ AtJob /\ Exact /\ [Next]_vars => Exact'
<1> SUFFICES ASSUME Shape, Recorded, Picked, AtJob, Exact, [Next]_vars, mishaps' = {}
             PROVE  (KeptShown /\ GotShown /\ NoneShown /\ ScansApart /\ SetsKept /\ PostKept)'
  BY DEF Exact
<1> DEFINE Goal == (KeptShown /\ GotShown /\ NoneShown /\ ScansApart /\ SetsKept /\ PostKept)'
<1>0. mishaps = {}
  BY MishapsStay
<1>a. ASSUME UNCHANGED <<posted, saved>> PROVE PostKept'
  BY <1>0, <1>a DEF Exact, PostKept
\* a call moves on without scanning, its locals are kept or gone
<1>b. ASSUME NEW c \in Calls, ~Recording(c), at'[c] \notin {"scan", "persist"},
             \A d \in Calls \ {c} : at'[d] = at[d] /\ sets'[d] = sets[d] /\ got'[d] = got[d],
             UNCHANGED <<rows, saved>>
      PROVE  (KeptShown /\ GotShown /\ NoneShown /\ ScansApart)'
  BY <1>0, <1>b, QuietExact DEF Recording, Scanning
<1>c. ASSUME NEW c \in Calls, End(c), ~Recording(c), UNCHANGED <<rows, saved, posted>> PROVE Goal
  <2>1. /\ \A d \in Calls \ {c} : at'[d] = at[d] /\ sets'[d] = sets[d] /\ got'[d] = got[d]
        /\ at'[c] = "out" /\ sets' = [sets EXCEPT ![c] = <<>>]
    BY <1>c DEF End, Goto, Shape
  <2>2. SetsKept'
    BY <1>0, <1>c, <2>1, SetsKeptStep DEF Shape
  <2> QED
    BY <1>a, <1>b, <1>c, <2>1, <2>2
<1>d. ASSUME UNCHANGED <<rows, saved, posted, at, sets, got>> PROVE Goal
  <2>1. (KeptShown /\ GotShown /\ NoneShown /\ ScansApart)'
    BY <1>0, <1>d, QuietExact DEF Recording, Scanning
  <2>2. SetsKept'
    BY <1>0, <1>d DEF Exact, SetsKept
  <2> QED
    BY <1>a, <1>d, <2>1, <2>2
\* the set of the close a call is at is there, and it goes on
<1>e. ASSUME NEW c \in Calls, NEW set, Have(c, set), Len(sets[c]) < Len(Due),
             saved'[Tf(c)] = set, set # Unsaved,
             \A tf \in Tfs : saved[tf] # Unsaved => saved'[tf] = saved[tf]
      PROVE  SetsKept'
  <2>1. PICK S : sets[c] \in Seq(S)
    BY DEF Shape
  <2>2. ASSUME NEW d \in Calls, NEW i \in DOMAIN sets[d]
        PROVE  Due[i] \in Tfs
    BY SetsWithinDue DEF Tfs
  <2>3. ASSUME NEW d \in Calls \ {c}, NEW i \in DOMAIN sets'[d]
        PROVE  saved'[Due[i]] # Unsaved /\ sets'[d][i] = saved'[Due[i]]
    <3>1. sets'[d] = sets[d]
      BY <1>e DEF Have, Shape
    <3> QED
      BY <1>0, <1>e, <2>2, <2>3, <3>1 DEF Exact, SetsKept
  <2>4. ASSUME NEW i \in DOMAIN sets'[c]
        PROVE  saved'[Due[i]] # Unsaved /\ sets'[c][i] = saved'[Due[i]]
    <3>1. sets'[c] = Append(sets[c], set)
      BY <1>e DEF Have, Shape
    <3>2. CASE i \in DOMAIN sets[c]
      <4>1. sets'[c][i] = sets[c][i]
        BY <2>1, <3>1, <3>2, AppendOne
      <4> QED
        BY <1>0, <1>e, <2>2, <3>2, <4>1 DEF Exact, SetsKept
    <3>3. CASE i = Len(sets[c]) + 1
      BY <1>e, <2>1, <3>1, <3>3, AppendOne DEF Tf
    <3> QED
      BY <2>1, <2>4, <3>1, <3>2, <3>3, AppendOne
  <2> QED
    BY <2>3, <2>4 DEF SetsKept
<1> HIDE DEF Goal
<1> USE DEF books, locals, day, history
<1>1. ASSUME NEW c \in Calls, Begin(c) PROVE Goal
  <2>1. /\ ~Recording(c) /\ at'[c] = "load"
        /\ \A d \in Calls \ {c} : at'[d] = at[d] /\ sets'[d] = sets[d] /\ got'[d] = got[d]
        /\ UNCHANGED <<rows, saved, posted, sets>>
    BY <1>1 DEF Begin, Goto, Running, Recording, Shape
  <2>2. SetsKept'
    BY <1>0, <2>1, SetsKeptStep DEF Shape
  <2> QED
    BY <1>a, <1>b, <2>1, <2>2 DEF Goal
<1>2. ASSUME NEW c \in Calls, LoadHit(c) PROVE Goal
  <2>1. /\ ~Recording(c) /\ Have(c, saved[Tf(c)]) /\ saved[Tf(c)] # Unsaved
        /\ Len(sets[c]) < Len(Due) /\ UNCHANGED <<rows, saved, posted, got>>
    BY <1>2 DEF LoadHit, Recording, Shape
  <2>2. /\ at'[c] \in {"load", "post"}
        /\ \A d \in Calls \ {c} : at'[d] = at[d] /\ sets'[d] = sets[d]
    BY <2>1 DEF Have, Goto, Shape
  <2>3. SetsKept'
    BY <1>e, <2>1
  <2> QED
    BY <1>a, <1>b, <2>1, <2>2, <2>3 DEF Goal
<1>3. ASSUME NEW c \in Calls, LoadMiss(c) PROVE Goal
  <2>1. ~Recording(c) /\ UNCHANGED <<rows, saved, posted>>
    BY <1>3 DEF LoadMiss, Recording
  <2>2. CASE scanned[c]
    BY <1>3, <1>c, <2>1, <2>2 DEF LoadMiss, ToScan, Leave
  <2>3. CASE ~scanned[c]
    <3>1. /\ at' = [at EXCEPT ![c] = "scan"] /\ UNCHANGED <<sets, got>>
          /\ saved[Tf(c)] = Unsaved
          /\ \A d \in Calls \ {c} : ~(Scanning(d) /\ Tf(d) = Tf(c))
      BY <1>3, <2>3 DEF LoadMiss, ToScan, Goto, Scanning
    <3>2. \A d \in Calls : Tf(d)' = Tf(d) /\ (Recording(d)' <=> Recording(d))
      BY <2>1, <3>1 DEF Tf, Recording, Shape
    <3>3. \A d \in Calls : Scanning(d)' <=> (d = c \/ Scanning(d))
      BY <3>1 DEF Scanning, Shape
    <3>4. ScansApart'
      BY <1>0, <2>1, <3>1, <3>2, <3>3 DEF Exact, ScansApart
    <3>5. KeptShown' /\ GotShown' /\ NoneShown'
      BY <1>0, <2>1, <3>1, <3>2 DEF Exact, KeptShown, GotShown, NoneShown, RowsOf
    <3>6. SetsKept'
      BY <1>0, <2>1, <3>1, SetsKeptStep DEF Shape
    <3> QED
      BY <1>a, <2>1, <3>4, <3>5, <3>6 DEF Goal
  <2> QED
    BY <2>2, <2>3
<1>4. ASSUME NEW c \in Calls, LoadFile(c) \/ PersistReplyLost(c) \/ SaveFile(c) PROVE FALSE
  BY <1>4 DEF LoadFile, PersistReplyLost, SaveFile
<1>5. ASSUME NEW c \in Calls, ScanTooEarly(c) PROVE Goal
  BY <1>5, <1>c DEF ScanTooEarly, Leave, Recording
<1>6. ASSUME NEW c \in Calls, Scan(c) PROVE Goal
  <2>1. /\ at[c] = "scan" /\ at' = [at EXCEPT ![c] = "persist"] /\ got[c] = {}
        /\ UNCHANGED <<rows, saved, posted, sets, got>>
    BY <1>6 DEF Scan, Goto, Recorded, GotRecorded
  <2>2. \A d \in Calls : Tf(d)' = Tf(d) /\ (Scanning(d)' <=> Scanning(d))
                         /\ (Recording(d)' <=> (d = c \/ Recording(d)))
    BY <2>1 DEF Tf, Scanning, Recording, Shape
  <2>3. ScansApart'
    BY <1>0, <2>1, <2>2 DEF Exact, ScansApart
  <2>4. Scanning(c) /\ Tf(c) \in Tfs
    BY <2>1, TfDue DEF Scanning, Shape
  <2>5. RowsOf(Tf(c)) = {}
    BY <1>0, <2>1, <2>4 DEF Exact, NoneShown, ScansApart, Scanning, Recording
  <2>6. GotShown'
    BY <1>0, <2>1, <2>2, <2>5 DEF Exact, GotShown, RowsOf, Shown
  <2>7. KeptShown' /\ NoneShown'
    BY <1>0, <2>1, <2>2 DEF Exact, KeptShown, NoneShown, RowsOf
  <2>8. SetsKept'
    BY <1>0, <2>1, SetsKeptStep DEF Shape
  <2> QED
    BY <1>a, <2>1, <2>3, <2>6, <2>7, <2>8 DEF Goal
<1>7. ASSUME NEW c \in Calls, Persist(c) PROVE Goal
  <2>1. /\ Recording(c) /\ todo[c] # <<>> /\ UNCHANGED <<saved, posted, sets, at>>
        /\ Scanning(c) /\ Tf(c) \in Tfs
    BY <1>7, TfDue DEF Persist, PickDone, Recording, Scanning, Shape
  <2>2. PICK pick : pick = Head(todo[c])
    OBVIOUS
  <2>3. PICK list \in Lists : pick \in Listed(list) /\ got[c] \subseteq Listed(list)
    <3>1. PICK list \in Lists : todo[c] \in Seq(Listed(list)) /\ got[c] \subseteq Listed(list)
      BY <2>1 DEF Picked, Recording
    <3> QED
      BY <2>1, <2>2, <3>1
  <2>4. /\ got'[c] = got[c] \union {pick}
        /\ \A d \in Calls \ {c} : got'[d] = got[d]
    BY <1>7, <2>2 DEF Persist, Shape
  <2>5. PICK new : /\ new = Row(Tf(c), pick)
                   /\ rows' = IF \E r \in rows : r.tf = new.tf /\ r.coin = new.coin /\ r.venue = new.venue
                              THEN rows ELSE rows \union {new}
    BY <1>7, <2>2, Zenon DEF Persist
  <2>6. new.tf = Tf(c) /\ new.coin = pick.coin /\ new.venue = pick.venue
    BY <2>5 DEF Row
  <2>7. RowsOf(Tf(c)) = Shown(Tf(c), got[c])
    BY <1>0, <2>1 DEF Exact, GotShown
  <2>8. RowsOf(Tf(c))' = Shown(Tf(c), got'[c])
    <3>1. CASE \E r \in rows : r.tf = new.tf /\ r.coin = new.coin /\ r.venue = new.venue
      <4>1. PICK r \in rows : r.tf = Tf(c) /\ r.coin = pick.coin /\ r.venue = pick.venue
        BY <2>6, <3>1
      <4>2. PICK q \in got[c] : r = Row(Tf(c), q)
        BY <2>7, <4>1 DEF RowsOf, Shown
      <4>3. q.coin = pick.coin /\ q.venue = pick.venue
        BY <4>1, <4>2 DEF Row
      <4>4. q = pick
        BY <2>3, <4>3, OnePickPerCoin
      <4>5. got'[c] = got[c] /\ rows' = rows
        BY <2>4, <2>5, <3>1, <4>4
      <4> QED
        BY <2>1, <2>7, <4>5 DEF RowsOf, Tf
    <3>2. CASE ~ \E r \in rows : r.tf = new.tf /\ r.coin = new.coin /\ r.venue = new.venue
      <4>1. rows' = rows \union {new} /\ Tf(c)' = Tf(c)
        BY <2>1, <2>5, <3>2 DEF Tf
      <4>2. RowsOf(Tf(c))' = RowsOf(Tf(c)) \union {new}
        BY <2>6, <4>1 DEF RowsOf
      <4>3. Shown(Tf(c), got'[c]) = Shown(Tf(c), got[c]) \union {new}
        BY <2>4, <2>5 DEF Shown
      <4> QED
        BY <2>7, <4>2, <4>3
    <3> QED
      BY <3>1, <3>2
  <2>9. \A tf \in Tfs \ {Tf(c)} : RowsOf(tf)' = RowsOf(tf)
    BY <2>5, <2>6 DEF RowsOf
  <2>10. \A d \in Calls : Tf(d)' = Tf(d) /\ (Scanning(d)' <=> Scanning(d))
                          /\ (Recording(d)' <=> Recording(d))
    BY <2>1 DEF Tf, Scanning, Recording
  <2>11. ScansApart'
    BY <1>0, <2>1, <2>10 DEF Exact, ScansApart
  <2>12. saved[Tf(c)] = Unsaved
    BY <1>0, <2>1 DEF Exact, ScansApart
  <2>13. ASSUME NEW d \in Calls, Recording(d) PROVE (RowsOf(Tf(d)) = Shown(Tf(d), got[d]))'
    <3>1. CASE d = c
      BY <2>8, <2>10, <3>1
    <3>2. CASE d # c
      <4>1. Scanning(d) /\ Tf(d) \in Tfs /\ Tf(d) # Tf(c)
        BY <1>0, <2>1, <2>13, <3>2, TfDue DEF Exact, ScansApart, Recording, Scanning, Shape
      <4>2. RowsOf(Tf(d)) = Shown(Tf(d), got[d])
        BY <1>0, <2>13 DEF Exact, GotShown
      <4>3. RowsOf(Tf(d))' = RowsOf(Tf(d))
        BY <2>9, <2>10, <4>1 DEF RowsOf
      <4> QED
        BY <2>4, <2>10, <3>2, <4>2, <4>3
    <3> QED
      BY <3>1, <3>2
  <2>14. GotShown'
    BY <2>10, <2>13 DEF GotShown
  <2>15. KeptShown' /\ NoneShown'
    BY <1>0, <2>1, <2>9, <2>10, <2>12 DEF Exact, KeptShown, NoneShown
  <2>16. SetsKept'
    BY <1>0, <2>1, SetsKeptStep DEF Shape
  <2> QED
    BY <1>a, <2>1, <2>11, <2>14, <2>15, <2>16 DEF Goal
<1>8. ASSUME NEW c \in Calls, PersistFails(c) PROVE Goal
  BY <1>8, <1>d DEF PersistFails, PickDone, Goal
<1>9. ASSUME NEW c \in Calls, Save(c) PROVE Goal
  <2>1. /\ Recording(c) /\ Scanning(c) /\ Tf(c) \in Tfs /\ Len(sets[c]) < Len(Due)
        /\ Have(c, got[c]) /\ got' = [got EXCEPT ![c] = {}] /\ UNCHANGED <<rows, posted>>
        /\ saved' = [saved EXCEPT ![Tf(c)] = got[c]]
    BY <1>9, TfDue DEF Save, Recording, Scanning, Shape
  <2>2. /\ at'[c] \in {"load", "post"} /\ \A d \in Calls \ {c} : at'[d] = at[d] /\ sets'[d] = sets[d] /\ got'[d] = got[d]
    BY <2>1 DEF Have, Goto, Shape
  <2>3. saved[Tf(c)] = Unsaved /\ got[c] # Unsaved /\ RowsOf(Tf(c)) = Shown(Tf(c), got[c])
    BY <1>0, <2>1, GotIsNoMark DEF Exact, ScansApart, GotShown, Recording
  <2>4. saved'[Tf(c)] = got[c] /\ \A tf \in Tfs \ {Tf(c)} : saved'[tf] = saved[tf]
    BY <2>1 DEF Shape
  <2>5. SetsKept'
    BY <1>e, <2>1, <2>3, <2>4
  <2>6. /\ \A d \in Calls : Scanning(d)' => d # c /\ Scanning(d) /\ Tf(d)' = Tf(d) /\ Tf(d) \in Tfs \ {Tf(c)}
        /\ \A d \in Calls : Recording(d)' <=> (d # c /\ Recording(d))
    <3>1. \A d \in Calls : Scanning(d)' => d # c /\ Scanning(d) /\ Tf(d)' = Tf(d)
      BY <2>2 DEF Scanning, Tf
    <3>2. \A d \in Calls : Scanning(d) => Tf(d) \in Tfs
      BY TfDue DEF Scanning, Shape
    <3>3. \A d \in Calls : d # c /\ Scanning(d) => Tf(d) # Tf(c)
      BY <1>0, <2>1 DEF Exact, ScansApart
    <3>4. \A d \in Calls : Recording(d)' <=> (d # c /\ Recording(d))
      BY <2>2 DEF Recording
    <3> QED
      BY <3>1, <3>2, <3>3, <3>4
  <2>7. \A tf \in Tfs : RowsOf(tf)' = RowsOf(tf)
    BY <2>1 DEF RowsOf
  <2>8. KeptShown'
    BY <1>0, <2>3, <2>4, <2>7 DEF Exact, KeptShown
  <2>9. \A d \in Calls : Recording(d)' => Scanning(d)' /\ RowsOf(Tf(d))' = RowsOf(Tf(d))
    BY <2>1, <2>6 DEF Recording, Scanning, RowsOf
  <2>10. GotShown'
    BY <1>0, <2>2, <2>6, <2>9 DEF Exact, GotShown
  <2>11. NoneShown'
    <3> SUFFICES ASSUME NEW tf \in Tfs, saved'[tf] = Unsaved,
                        \A d \in Calls : Recording(d)' => Tf(d)' # tf
                 PROVE  RowsOf(tf)' = {}
      BY DEF NoneShown
    <3>1. tf # Tf(c) /\ saved[tf] = Unsaved
      BY <2>3, <2>4
    <3>2. \A d \in Calls : Recording(d) => Tf(d) # tf
      BY <2>6, <2>9, <3>1
    <3> QED
      BY <1>0, <2>7, <3>1, <3>2 DEF Exact, NoneShown
  <2>12. ScansApart'
    BY <1>0, <2>4, <2>6 DEF Exact, ScansApart
  <2>13. PostKept'
    BY <1>0, <2>1, <2>3, <2>4 DEF Exact, PostKept, Tfs
  <2> QED
    BY <2>5, <2>8, <2>10, <2>11, <2>12, <2>13 DEF Goal
<1>10. ASSUME NEW c \in Calls, PostSent(c) \/ PostFails(c) PROVE Goal
  <2>1. /\ at[c] = "post" /\ UNCHANGED <<rows, saved, sets, got>> /\ posted' \in {posted, sets[c]}
        /\ at'[c] \in {"post", "tweet"} /\ \A d \in Calls \ {c} : at'[d] = at[d]
    BY <1>10 DEF PostSent, PostFails, Goto, Shape
  <2>2. SetsKept'
    BY <1>0, <2>1, SetsKeptStep DEF Shape
  <2>3. PostKept'
    <3>1. Len(sets[c]) = Len(Due)
      BY <2>1 DEF Shape
    <3>2. PICK S : sets[c] \in Seq(S)
      BY DEF Shape
    <3>3. DOMAIN sets[c] = DOMAIN Due
      BY <3>1, <3>2, ClosePublishAssumption
    <3> QED
      BY <1>0, <2>1, <3>3 DEF Exact, PostKept, SetsKept
  <2> QED
    BY <1>b, <2>1, <2>2, <2>3 DEF Goal, Recording
<1>11. ASSUME NEW c \in Calls, TweetFails(c) PROVE Goal
  BY <1>11, <1>d DEF TweetFails, Goal
<1>12. ASSUME NEW c \in Calls, TweetSent(c) PROVE Goal
  BY <1>12, <1>c DEF TweetSent, Leave, Recording, Goal
<1>13. ASSUME NEW c \in Calls, GiveBack(c) PROVE Goal
  BY <1>13, <1>c DEF GiveBack, Leave, Recording, Goal, AtJob, Channels, Ledger!GiveBack,
     Ledger!ReleaseShared, Ledger!ReleaseFile, Ledger!ReleaseNoFile
<1>14. ASSUME NEW c \in Calls, Stop(c) PROVE Goal
  BY <1>14, <1>c DEF Stop, Recording, Goal
<1>15. ASSUME NEW c \in Calls, NEW ch \in Channels, Dispatch(c, ch) \/ DispatchFromFile(c, ch) PROVE Goal
  BY <1>15, <1>d DEF Dispatch, DispatchFromFile, Goal
<1>16. ASSUME NEW c \in Calls, NEW ch \in Channels, DispatchSkipped(c, ch) \/ DispatchRefused(c, ch)
       PROVE  Goal
  BY <1>16, <1>c DEF DispatchSkipped, DispatchRefused, Leave, Recording, Channels, Goal
<1>17. ASSUME NEW tf \in Tfs, Serve(tf) PROVE Goal
  BY <1>17, <1>d DEF Serve, Goal
<1>18. ASSUME UNCHANGED vars PROVE Goal
  BY <1>18, <1>d DEF vars, Goal
<1> HIDE DEF books, locals, day, history
<1>19. ASSUME NEW c \in Calls, Begin(c) \/ Read(c) \/ Compute(c) \/ Send(c) \/ Stop(c) PROVE Goal
  BY <1>1, <1>2, <1>3, <1>4, <1>5, <1>6, <1>7, <1>8, <1>9, <1>10, <1>11, <1>12, <1>13, <1>14,
     <1>19 DEF Read, Compute, Send
<1>20. Goal
  BY <1>15, <1>16, <1>17, <1>18, <1>19 DEF Next
<1> QED
  BY <1>20 DEF Goal

\* (close_publish.close_picks) The published record of a day whose scans were
\* not disturbed is the set that was posted, row by row.
THEOREM RecordIsThePost == Spec => []RowsAreThePost
<1> DEFINE Inv == Shape /\ Recorded /\ Picked /\ AtJob /\ Exact
<1>1. Init => Inv
  BY ShapeInit, RecordedInit, PickedInit, AtJobInit, ExactInit
<1>2. Inv /\ [Next]_vars => Inv'
  BY ShapeStep, RecordedStep, PickedStep, AtJobStep, ExactStep
<1>3. Inv => RowsAreThePost
  BY DEF Exact, RowsAreThePost, PostKept, KeptShown, RowsOf, Shown, Tfs
<1> QED
  BY <1>1, <1>2, <1>3, PTL DEF Spec
-----------------------------------------------------------------------------
(* Enough good calls.                                                      *)

\* a good call has the day's data and runs by itself, ...
Alone ==
    /\ DOMAIN clean = Calls
    /\ \A c \in Calls : clean[c] =>
          Running(c) /\ fresh = Tfs /\ \A d \in Calls \ {c} : ~Running(d)
\* ... has failed at nothing, and scans once and only what is missing;
Honest ==
    \A c \in Calls : clean[c] =>
        pc[c] # "release" /\ (Scanning(c) => ~scanned[c] /\ saved[Tf(c)] = Unsaved)
\* a call that is over has nothing behind it, and a tweet follows its post
Fresh ==
    \A c \in Calls : (at[c] = "out" => ~scanned[c]) /\ (at[c] = "tweet" => effect["post"] > 0)

Kept == {tf \in Tfs : saved[tf] # Unsaved}
\* until the post is out every good call that is over has left a set behind
Counted ==
    /\ good \in Nat
    /\ effect["post"] = 0 =>
          /\ good < Len(Due) /\ good <= Cardinality(Kept)
          /\ \A c \in Calls : clean[c] /\ scanned[c] => good + 1 <= Cardinality(Kept)

Delivery == Alone /\ Honest /\ Fresh /\ Counted

\* There are no more closes than are due.
LEMMA TfsFinite == IsFiniteSet(Tfs) /\ Cardinality(Tfs) <= Len(Due)
<1>1. Len(Due) \in Nat /\ DOMAIN Due = 1..Len(Due)
  BY ClosePublishAssumption
<1>2. Due \in Surjection(DOMAIN Due, Tfs)
  BY ClosePublishAssumption DEF Surjection, Tfs
<1>3. IsFiniteSet(1..Len(Due)) /\ Cardinality(1..Len(Due)) = Len(Due)
  <2>1. 1 \in Int /\ Len(Due) \in Int /\ (IF 1 > Len(Due) THEN 0 ELSE Len(Due) - 1 + 1) = Len(Due)
    BY <1>1
  <2> QED
    BY <2>1, FS_Interval
<1> QED
  BY <1>1, <1>2, <1>3, FS_Surjection

\* As long as one set is missing there are fewer than that.
LEMMA KeptSize ==
    ASSUME NEW K \in SUBSET Tfs
    PROVE  /\ IsFiniteSet(K) /\ Cardinality(K) \in Nat
           /\ K # Tfs => Cardinality(K) < Len(Due)
<1>1. Len(Due) \in Nat /\ Cardinality(Tfs) \in Nat
  BY TfsFinite, FS_CardinalityType, ClosePublishAssumption
<1>2. /\ IsFiniteSet(K) /\ Cardinality(K) <= Cardinality(Tfs)
      /\ (Cardinality(Tfs) = Cardinality(K) => Tfs = K)
  BY TfsFinite, FS_Subset
<1>3. Cardinality(K) \in Nat
  BY <1>2, FS_CardinalityType
<1> QED
  BY <1>1, <1>2, <1>3, TfsFinite

\* No good call has been made at first.
LEMMA DeliveryInit == Init => Delivery
<1> SUFFICES ASSUME Init PROVE Delivery
  OBVIOUS
<1>1. Cardinality(Kept) \in Nat /\ 0 < Len(Due)
  BY KeptSize, ClosePublishAssumption DEF Kept
<1> QED
  BY <1>1 DEF Init, Delivery, Alone, Honest, Fresh, Counted, Scanning, Channels, Ledger!Init

\* The post is never taken back.
LEMMA EffectGrows ==
    ASSUME LP!IInv, [Next]_vars
    PROVE  effect["post"] \in Nat /\ effect'["post"] \in Nat /\ effect["post"] <= effect'["post"]
<1>1. effect \in [Channels -> 0..MaxEffect] /\ MaxEffect \in Nat
  BY ClosePublishAssumption DEF LP!IInv, LP!TypeOK
<1>2. effect' \in [Channels -> 0..MaxEffect]
  BY LedgerInvStep DEF LP!IInv, LP!TypeOK
<1>3. ASSUME NEW c \in Calls, Ledger!ActSucceeds(c) \/ Ledger!ActFails(c)
      PROVE  effect["post"] <= effect'["post"]
  BY <1>1, <1>3 DEF Ledger!ActSucceeds, Ledger!ActFails, Channels
<1> QED
  BY <1>1, <1>2, <1>3, EffectStep DEF Channels

\* No set that is kept is lost.
LEMMA KeptGrows ==
    ASSUME Shape, Picked, [Next]_vars
    PROVE  /\ Cardinality(Kept) \in Nat /\ Cardinality(Kept') \in Nat
           /\ Cardinality(Kept) <= Cardinality(Kept')
<1> USE DEF books, locals, day, history
<1>1. ASSUME NEW c \in Calls, Save(c) PROVE Kept \subseteq Kept'
  <2>1. got[c] # Unsaved /\ saved' = [saved EXCEPT ![Tf(c)] = got[c]]
    BY <1>1, GotIsNoMark DEF Save
  <2> QED
    BY <2>1 DEF Kept, Shape
<1>2. ASSUME NEW c \in Calls, Begin(c) \/ Read(c) \/ ScanTooEarly(c) \/ Scan(c) \/ Persist(c)
             \/ PersistFails(c) \/ PersistReplyLost(c) \/ SaveFile(c) \/ Send(c) \/ Stop(c)
      PROVE  UNCHANGED saved
  BY <1>2 DEF Begin, Read, LoadHit, LoadMiss, LoadFile, ScanTooEarly, Scan, Persist, PersistFails,
       PersistReplyLost, PickDone, SaveFile, Send, PostSent, PostFails, TweetSent, TweetFails,
       GiveBack, Stop
<1>3. ASSUME NEW c \in Calls, NEW ch \in Channels,
             \/ Dispatch(c, ch) \/ DispatchFromFile(c, ch)
             \/ DispatchSkipped(c, ch) \/ DispatchRefused(c, ch)
      PROVE  UNCHANGED saved
  BY <1>3 DEF Dispatch, DispatchFromFile, DispatchSkipped, DispatchRefused
<1>4. ASSUME NEW tf \in Tfs, Serve(tf) PROVE UNCHANGED saved
  BY <1>4 DEF Serve
<1>5. UNCHANGED vars => UNCHANGED saved
  BY DEF vars
<1>6. UNCHANGED saved => Kept \subseteq Kept'
  BY DEF Kept
<1> HIDE DEF books, locals, day, history
<1>7. Kept \subseteq Kept'
  BY <1>1, <1>2, <1>3, <1>4, <1>5, <1>6 DEF Next, Compute
<1>8. Kept \in SUBSET Tfs /\ Kept' \in SUBSET Tfs
  BY DEF Kept
<1>9. IsFiniteSet(Kept') /\ Cardinality(Kept) \in Nat /\ Cardinality(Kept') \in Nat
  BY <1>8, KeptSize
<1> QED
  BY <1>7, <1>9, FS_Subset

\* What a step of call c leaves of the good calls: all but c are as they
\* were, and c is good still or has been spoilt.
OneCall(c) ==
    /\ Running(c) /\ fresh' = fresh
    /\ \A d \in Calls \ {c} : at'[d] = at[d]
    /\ clean' \in {clean, [clean EXCEPT ![c] = FALSE]}

\* A good call that has taken a step is the one call that runs.
LEMMA GoodCall ==
    ASSUME Alone, NEW c \in Calls, OneCall(c), NEW d \in Calls, clean'[d]
    PROVE  d = c /\ clean' = clean /\ clean[c] /\ \A e \in Calls \ {c} : ~Running(e)
<1>1. clean[d]
  BY DEF OneCall, Alone
<1>2. d = c
  BY <1>1 DEF OneCall, Alone
<1>3. clean' = clean
  BY <1>2 DEF OneCall, Alone
<1> QED
  BY <1>1, <1>2, <1>3 DEF Alone

\* ... and it is still that if it has not ended.
LEMMA AloneOneCall ==
    ASSUME Alone, NEW c \in Calls, OneCall(c), at'[c] = "out" => ~clean'[c]
    PROVE  Alone'
<1>1. DOMAIN clean' = Calls
  BY DEF OneCall, Alone
<1>2. ASSUME NEW d \in Calls, clean'[d]
      PROVE  Running(d)' /\ fresh' = Tfs /\ \A e \in Calls \ {d} : ~Running(e)'
  <2>1. d = c /\ clean[c] /\ \A e \in Calls \ {c} : ~Running(e)
    BY <1>2, GoodCall
  <2> QED
    BY <1>2, <2>1 DEF OneCall, Alone, Running
<1> QED
  BY <1>1, <1>2 DEF Alone, Tfs

\* A step that ends no good call has left it as honest as it was, unless it
\* begins to scan or gives a claim back.
LEMMA HonestOneCall ==
    ASSUME Alone, Honest, NEW c \in Calls, OneCall(c),
           clean'[c] => /\ pc'[c] # "release"
                        /\ Scanning(c)' => (~scanned'[c] /\ saved'[Tf(c)'] = Unsaved)
    PROVE  Honest'
<1>1. ASSUME NEW d \in Calls, clean'[d] PROVE d = c
  BY <1>1, GoodCall
<1> QED
  BY <1>1 DEF Honest

\* Until the post is out the count is kept by a step that ends no good call
\* and makes none of them more than it was.
LEMMA CountedOneCall ==
    ASSUME Counted, Cardinality(Kept) \in Nat, Cardinality(Kept') \in Nat,
           Cardinality(Kept) <= Cardinality(Kept'),
           effect["post"] \in Nat, effect'["post"] \in Nat, effect["post"] <= effect'["post"],
           good' = good,
           effect'["post"] = 0 =>
              \A c \in Calls : clean'[c] /\ scanned'[c] =>
                 (clean[c] /\ scanned[c]) \/ good + 1 <= Cardinality(Kept')
    PROVE  Counted'
<1>1. good \in Nat
  BY DEF Counted
<1>2. CASE effect'["post"] = 0
  <2>1. effect["post"] = 0
    BY <1>2
  <2> QED
    BY <1>1, <1>2, <2>1 DEF Counted
<1>3. CASE effect'["post"] # 0
  BY <1>1, <1>3 DEF Counted
<1> QED
  BY <1>2, <1>3

\* The post is counted.
LEMMA EffectNat == LP!IInv => DOMAIN effect = Channels /\ effect["post"] \in Nat
BY ClosePublishAssumption DEF LP!IInv, LP!TypeOK, Channels

\* A good call that ends without having posted leaves one more set behind,
\* whatever other calls did before.
LEMMA DeliveryStep ==
    Shape /\ Picked /\ AtJob /\ LP!IInv /\ Delivery /\ [Next]_vars => Delivery'
<1> SUFFICES ASSUME Shape, Picked, AtJob, LP!IInv, Delivery, [Next]_vars PROVE Delivery'
  OBVIOUS
<1> DEFINE Card == Cardinality(Kept)
           e == effect["post"]
<1>n. /\ e \in Nat /\ e' \in Nat /\ e <= e' /\ Card \in Nat /\ Card' \in Nat /\ Card <= Card'
      /\ good \in Nat
  BY EffectGrows, KeptGrows DEF Delivery, Counted
<1>d. Alone /\ Honest /\ Fresh /\ Counted
  BY DEF Delivery
<1> HIDE DEF Card, e
<1> USE DEF books, locals, day, history
\* a step of a call that goes on
<1>a. ASSUME NEW c \in Calls, OneCall(c), good' = good, at'[c] # "out",
             \A d \in Calls \ {c} : scanned'[d] = scanned[d],
             at'[c] = "tweet" => at[c] = "tweet" \/ e' > 0,
             clean'[c] =>
                 /\ pc'[c] # "release"
                 /\ Scanning(c)' => (~scanned'[c] /\ saved'[Tf(c)'] = Unsaved)
                 /\ scanned'[c] => scanned[c] \/ e' > 0 \/ good + 1 <= Card'
      PROVE  Delivery'
  <2>1. Alone'
    BY <1>a, <1>d, AloneOneCall
  <2>2. Honest'
    BY <1>a, <1>d, HonestOneCall
  <2>3. Fresh'
    <3>1. ASSUME NEW d \in Calls, d # c
          PROVE  (at'[d] = "out" => ~scanned'[d]) /\ (at'[d] = "tweet" => e' > 0)
      BY <1>a, <1>d, <1>n, <3>1 DEF OneCall, Fresh, e
    <3>2. (at'[c] = "out" => ~scanned'[c]) /\ (at'[c] = "tweet" => e' > 0)
      BY <1>a, <1>d, <1>n DEF Fresh, e
    <3> QED
      BY <3>1, <3>2 DEF Fresh, e
  <2>4. ASSUME e' = 0, NEW d \in Calls, clean'[d], scanned'[d]
        PROVE  (clean[d] /\ scanned[d]) \/ good + 1 <= Card'
    BY <1>a, <1>d, <2>4, GoodCall
  <2>5. Counted'
    BY <1>a, <1>d, <1>n, <2>4, CountedOneCall DEF Card, e
  <2> QED
    BY <2>1, <2>2, <2>3, <2>5 DEF Delivery
\* a step in which a call ends
<1>b. ASSUME NEW c \in Calls, OneCall(c), End(c), ~clean'[c], good' \in Nat,
             e' > 0 \/ good' = good \/ (good' = good + 1 /\ good + 1 <= Card /\ good + 1 < Len(Due))
      PROVE  Delivery'
  <2>1. at'[c] = "out" /\ ~scanned'[c] /\ \A d \in Calls \ {c} : scanned'[d] = scanned[d]
    BY <1>b DEF End, Goto, Shape
  <2>2. Alone'
    BY <1>b, <1>d, AloneOneCall
  <2>3. Honest'
    BY <1>b, <1>d, HonestOneCall
  <2>4. Fresh'
    <3>1. ASSUME NEW d \in Calls, d # c
          PROVE  (at'[d] = "out" => ~scanned'[d]) /\ (at'[d] = "tweet" => e' > 0)
      BY <1>b, <1>d, <1>n, <2>1, <3>1 DEF OneCall, Fresh, e
    <3> QED
      BY <2>1, <3>1 DEF Fresh, e
  <2>5. ASSUME NEW d \in Calls, clean'[d] PROVE FALSE
    BY <1>b, <1>d, <2>5, GoodCall
  <2>6. ASSUME e' = 0 PROVE e = 0 /\ good' < Len(Due) /\ good' <= Card'
    <3>1. e = 0 /\ good < Len(Due) /\ good <= Card
      BY <1>n, <1>d, <2>6 DEF Counted, e, Card
    <3> QED
      BY <1>b, <1>n, <2>6, <3>1, ClosePublishAssumption
  <2>7. Counted'
    BY <1>b, <2>5, <2>6 DEF Counted, e, Card
  <2> QED
    BY <2>2, <2>3, <2>4, <2>7 DEF Delivery
<1>c. ASSUME NEW c \in Calls, at[c] # "out", UNCHANGED fresh, UNCHANGED at, Fail(c),
             scanned' = scanned
      PROVE  Delivery'
  <2>1. OneCall(c) /\ good' = good /\ ~clean'[c]
    BY <1>c, <1>d DEF OneCall, Fail, Spoil, Alone, Running
  <2> QED
    BY <1>a, <1>c, <2>1
<1>1. ASSUME NEW c \in Calls, Begin(c) PROVE Delivery'
  <2>1. /\ at' = [at EXCEPT ![c] = "load"] /\ at[c] = "out" /\ UNCHANGED <<fresh, scanned, good, effect, saved, pc>>
        /\ clean' = [d \in Calls |-> d = c /\ fresh = Tfs /\ \A f \in Calls : ~Running(f)]
    BY <1>1 DEF Begin, Goto, Running, ledger
  <2>2. ~scanned[c]
    BY <1>d, <2>1 DEF Fresh
  <2>3. ASSUME NEW d \in Calls, clean'[d]
        PROVE  d = c /\ fresh = Tfs /\ \A f \in Calls : ~Running(f)
    BY <2>1, <2>3
  <2>4. Alone'
    <3>1. DOMAIN clean' = Calls
      BY <2>1
    <3>2. ASSUME NEW d \in Calls, clean'[d]
          PROVE  Running(d)' /\ fresh' = Tfs /\ \A f \in Calls \ {d} : ~Running(f)'
      BY <2>1, <2>3, <3>2 DEF Running, Shape
    <3> QED
      BY <3>1, <3>2 DEF Alone, Tfs
  <2>5. Honest'
    <3>1. at'[c] = "load"
      BY <2>1 DEF Shape
    <3>2. clean'[c] => pc'[c] # "release"
      BY <2>1 DEF AtJob, Channels
    <3> QED
      BY <2>3, <3>1, <3>2 DEF Honest, Scanning
  <2>6. Fresh'
    BY <1>d, <2>1 DEF Fresh, Shape
  <2>7. \A d \in Calls : clean'[d] => ~scanned'[d]
    BY <2>1, <2>2, <2>3
  <2>8. Counted'
    <3>1. Kept' = Kept
      BY <2>1 DEF Kept
    <3> QED
      BY <1>d, <2>1, <2>7, <3>1 DEF Counted
  <2> QED
    BY <2>4, <2>5, <2>6, <2>8 DEF Delivery
<1>2. ASSUME NEW c \in Calls, LoadHit(c) PROVE Delivery'
  <2>1. /\ at[c] = "load" /\ UNCHANGED <<fresh, scanned, clean, good, pc>>
        /\ at'[c] \in {"post", "load"} /\ \A d \in Calls \ {c} : at'[d] = at[d]
    BY <1>2 DEF LoadHit, Have, Goto, ledger, Shape
  <2>2. OneCall(c) /\ pc[c] # "release"
    BY <2>1 DEF OneCall, Running, AtJob, Channels
  <2> QED
    BY <1>a, <2>1, <2>2 DEF Scanning
<1>3. ASSUME NEW c \in Calls, LoadMiss(c) PROVE Delivery'
  <2>1. at[c] = "load" /\ saved[Tf(c)] = Unsaved /\ ToScan(c) /\ UNCHANGED <<fresh, saved, effect, pc>>
    BY <1>3 DEF LoadMiss, ledger
  <2>2. pc[c] # "release" /\ Tf(c) \in Tfs
    BY <2>1, TfDue DEF AtJob, Channels, Shape
  <2>3. CASE scanned[c]
    <3>1. Leave(c) /\ OneCall(c)
      BY <2>1, <2>3 DEF ToScan, Leave, End, Goto, OneCall, Running, Shape
    <3>2. End(c) /\ ~clean'[c]
      BY <3>1, <1>d DEF Leave, Alone
    <3>3. ~clean[c] => good' = good
      BY <3>1 DEF Leave
    <3>4. Kept # Tfs /\ Kept \in SUBSET Tfs
      BY <2>1, <2>2 DEF Kept
    <3>5. Card < Len(Due)
      BY <3>4, KeptSize DEF Card
    <3>6. clean[c] /\ e = 0 => good + 1 <= Card
      BY <1>d, <2>3 DEF Counted, e, Card
    <3>7. good' = good \/ good' = good + 1
      BY <3>1 DEF Leave
    <3>8. e' = e
      BY <2>1 DEF e
    <3>9. good' \in Nat
      BY <3>7, <1>n
    <3>10. e' > 0 \/ good' = good \/ (good' = good + 1 /\ good + 1 <= Card /\ good + 1 < Len(Due))
      BY <1>n, <3>3, <3>5, <3>6, <3>7, <3>8, ClosePublishAssumption
    <3> QED
      BY <1>b, <3>1, <3>2, <3>9, <3>10
  <2>4. CASE ~scanned[c]
    <3>1. /\ at' = [at EXCEPT ![c] = "scan"] /\ UNCHANGED <<scanned, sets, clean, good>>
      BY <2>1, <2>4 DEF ToScan, Goto
    <3>2. OneCall(c) /\ at'[c] = "scan" /\ Tf(c)' = Tf(c)
      BY <2>1, <3>1 DEF OneCall, Running, Tf, Shape
    <3> QED
      BY <1>a, <2>1, <2>2, <2>4, <3>1, <3>2
  <2> QED
    BY <2>3, <2>4
<1>4. ASSUME NEW c \in Calls, LoadFile(c) PROVE Delivery'
  <2>1. /\ at[c] = "load" /\ Fail(c) /\ UNCHANGED <<fresh>> /\ \A d \in Calls \ {c} : at'[d] = at[d]
    BY <1>4 DEF LoadFile, Have, End, Goto, Shape
  <2>2. OneCall(c) /\ good' = good /\ ~clean'[c]
    BY <2>1, <1>d DEF OneCall, Fail, Spoil, Running, Alone
  <2>3. CASE End(c)
    BY <1>b, <1>n, <2>2, <2>3
  <2>4. CASE ~End(c)
    <3>1. scanned' = scanned /\ at'[c] \in {"load", "post", "scan"}
      BY <1>4, <2>4 DEF LoadFile, Have, Goto, Shape
    <3> QED
      BY <1>a, <2>2, <3>1
  <2> QED
    BY <2>3, <2>4
<1>5. ASSUME NEW c \in Calls, ScanTooEarly(c) PROVE Delivery'
  <2>1. at[c] = "scan" /\ Tf(c) \notin fresh /\ Leave(c) /\ UNCHANGED <<fresh, effect>>
    BY <1>5 DEF ScanTooEarly, ledger
  <2>2. Tf(c) \in Tfs
    BY <2>1, TfDue DEF Shape
  <2>3. ~clean[c]
    BY <1>d, <2>1, <2>2 DEF Alone
  <2>4. OneCall(c) /\ End(c) /\ ~clean'[c] /\ good' = good
    BY <2>1, <2>3, <1>d DEF Leave, End, Goto, OneCall, Running, Shape, Alone
  <2> QED
    BY <1>b, <1>n, <2>4
<1>6. ASSUME NEW c \in Calls, Scan(c) PROVE Delivery'
  <2>1. /\ at[c] = "scan" /\ at' = [at EXCEPT ![c] = "persist"] /\ Tf(c)' = Tf(c)
        /\ UNCHANGED <<fresh, scanned, clean, good, saved, pc>>
    BY <1>6 DEF Scan, Goto, ledger, Tf
  <2>2. OneCall(c) /\ at'[c] = "persist" /\ \A d \in Calls \ {c} : scanned'[d] = scanned[d]
    BY <2>1 DEF OneCall, Running, Shape
  <2>3. clean[c] => pc[c] # "release" /\ ~scanned[c] /\ saved[Tf(c)] = Unsaved
    BY <1>d, <2>1 DEF Honest, Scanning
  <2>4. clean'[c] => /\ pc'[c] # "release"
                     /\ Scanning(c)' => (~scanned'[c] /\ saved'[Tf(c)'] = Unsaved)
                     /\ scanned'[c] => scanned[c] \/ good + 1 <= Card'
    BY <2>1, <2>3
  <2> QED
    BY <1>a, <2>1, <2>2, <2>4
<1>7. ASSUME NEW c \in Calls, Persist(c) PROVE Delivery'
  <2>1. /\ at[c] = "persist" /\ Tf(c)' = Tf(c)
        /\ UNCHANGED <<at, fresh, scanned, clean, good, saved, pc>>
    BY <1>7 DEF Persist, PickDone, ledger, Tf
  <2>2. OneCall(c)
    BY <2>1 DEF OneCall, Running
  <2>3. clean[c] => pc[c] # "release" /\ ~scanned[c] /\ saved[Tf(c)] = Unsaved
    BY <1>d, <2>1 DEF Honest, Scanning
  <2> QED
    BY <1>a, <2>1, <2>2, <2>3
<1>8. ASSUME NEW c \in Calls, PersistFails(c) \/ PersistReplyLost(c) PROVE Delivery'
  <2>1. at[c] = "persist" /\ UNCHANGED <<at, fresh, scanned>> /\ Fail(c)
    BY <1>8 DEF PersistFails, PersistReplyLost, PickDone
  <2> QED
    BY <1>c, <2>1
<1>9. ASSUME NEW c \in Calls, Save(c) PROVE Delivery'
  <2>1. /\ at[c] = "persist" /\ got[c] # Unsaved /\ saved' = [saved EXCEPT ![Tf(c)] = got[c]]
        /\ UNCHANGED <<fresh, clean, good, pc>> /\ scanned' = [scanned EXCEPT ![c] = TRUE]
        /\ at'[c] \in {"load", "post"} /\ \A d \in Calls \ {c} : at'[d] = at[d]
    BY <1>9, GotIsNoMark DEF Save, ledger, Have, Goto, Shape
  <2>2. OneCall(c) /\ \A d \in Calls \ {c} : scanned'[d] = scanned[d]
    BY <2>1 DEF OneCall, Running
  <2>3. Tf(c) \in Tfs
    BY <2>1, TfDue DEF Shape
  <2>4. clean[c] => pc[c] # "release" /\ Tf(c) \notin Kept
    BY <1>d, <2>1 DEF Honest, Scanning, Kept
  <2>5. Kept' = Kept \union {Tf(c)}
    BY <2>1, <2>3 DEF Kept, Shape
  <2>6. Kept \in SUBSET Tfs
    BY DEF Kept
  <2>7. IsFiniteSet(Kept)
    BY <2>6, KeptSize
  <2>8. Tf(c) \notin Kept => Card' = Card + 1
    BY <2>5, <2>7, FS_AddElement DEF Card
  <2>9. clean[c] => e > 0 \/ good + 1 <= Card'
    BY <1>d, <1>n, <2>4, <2>8 DEF Counted, e, Card
  <2>10. clean[c] => e' > 0 \/ good + 1 <= Card'
    BY <1>n, <2>9
  <2> QED
    BY <1>a, <2>1, <2>2, <2>4, <2>10 DEF Scanning
<1>10. ASSUME NEW c \in Calls, SaveFile(c) PROVE Delivery'
  <2>1. /\ at[c] = "persist" /\ Fail(c) /\ UNCHANGED fresh /\ at'[c] \in {"load", "post"}
        /\ \A d \in Calls \ {c} : at'[d] = at[d] /\ scanned'[d] = scanned[d]
    BY <1>10 DEF SaveFile, Have, Goto, Shape
  <2>2. OneCall(c) /\ good' = good /\ ~clean'[c]
    BY <2>1, <1>d DEF OneCall, Fail, Spoil, Running, Alone
  <2> QED
    BY <1>a, <2>1, <2>2
<1>11. ASSUME NEW c \in Calls, PostSent(c) PROVE Delivery'
  <2>1. /\ at[c] = "post" /\ at' = [at EXCEPT ![c] = "tweet"] /\ Ledger!ActSucceeds(c)
        /\ UNCHANGED <<fresh, scanned, clean, good>>
    BY <1>11 DEF PostSent, Goto
  <2>2. job[c] = "post" /\ pc'[c] = "idle"
    BY <2>1 DEF AtJob, Ledger!ActSucceeds, Ledger!Goto
  <2>3. effect'["post"] = effect["post"] + 1
    BY <2>1, <2>2, EffectNat DEF Ledger!ActSucceeds, Channels
  <2>4. e' > 0
    BY <1>n, <2>3 DEF e
  <2>5. OneCall(c) /\ at'[c] = "tweet"
    BY <2>1 DEF OneCall, Running, Shape
  <2> QED
    BY <1>a, <2>1, <2>2, <2>4, <2>5 DEF Scanning
<1>12. ASSUME NEW c \in Calls, PostFails(c) \/ TweetFails(c) PROVE Delivery'
  <2>1. at[c] # "out" /\ UNCHANGED <<fresh, at, scanned>> /\ Fail(c)
    BY <1>12 DEF PostFails, TweetFails
  <2> QED
    BY <1>c, <2>1
<1>13. ASSUME NEW c \in Calls, TweetSent(c) PROVE Delivery'
  <2>1. at[c] = "tweet" /\ Leave(c) /\ UNCHANGED fresh
    BY <1>13 DEF TweetSent
  <2>2. e' > 0
    BY <1>d, <1>n, <2>1 DEF Fresh, e
  <2>3. OneCall(c) /\ End(c) /\ ~clean'[c] /\ good' \in Nat
    BY <1>d, <1>n, <2>1 DEF Leave, End, Goto, OneCall, Running, Shape, Alone
  <2> QED
    BY <1>b, <2>2, <2>3
<1>14. ASSUME NEW c \in Calls, GiveBack(c) PROVE Delivery'
  <2>1. pc[c] = "release" /\ Leave(c) /\ UNCHANGED fresh
    BY <1>14 DEF GiveBack, Ledger!GiveBack, Ledger!ReleaseShared, Ledger!ReleaseFile,
       Ledger!ReleaseNoFile
  <2>2. at[c] # "out" /\ ~clean[c]
    BY <1>d, <2>1 DEF AtJob, Channels, Honest
  <2>3. OneCall(c) /\ End(c) /\ ~clean'[c] /\ good' = good
    BY <1>d, <2>1, <2>2 DEF Leave, End, Goto, OneCall, Running, Shape, Alone
  <2> QED
    BY <1>b, <1>n, <2>3
<1>15. ASSUME NEW c \in Calls, Stop(c) PROVE Delivery'
  <2>1. Running(c) /\ End(c) /\ Fail(c) /\ UNCHANGED fresh
    BY <1>15 DEF Stop
  <2>2. OneCall(c) /\ ~clean'[c] /\ good' = good
    BY <1>d, <2>1 DEF Fail, Spoil, End, Goto, OneCall, Shape, Alone
  <2> QED
    BY <1>b, <1>n, <2>1, <2>2
<1>16. ASSUME NEW c \in Calls, NEW ch \in Channels, Dispatch(c, ch) PROVE Delivery'
  <2>1. /\ at[c] = ch /\ pc[c] = "idle" /\ pc' = [pc EXCEPT ![c] = "act"]
        /\ UNCHANGED <<fresh, at, scanned, clean, good>>
    BY <1>16 DEF Dispatch, Claim, Ledger!ClaimShared, Ledger!Won, Ledger!Goto
  <2>2. OneCall(c) /\ at'[c] \in {"post", "tweet"} /\ pc'[c] # "release"
    BY <2>1 DEF OneCall, Running, Channels, AtJob
  <2> QED
    BY <1>a, <2>1, <2>2 DEF Scanning
<1>17. ASSUME NEW c \in Calls, NEW ch \in Channels, DispatchFromFile(c, ch) PROVE Delivery'
  <2>1. at[c] # "out" /\ UNCHANGED <<fresh, at, scanned>> /\ Fail(c)
    BY <1>17 DEF DispatchFromFile, Channels
  <2> QED
    BY <1>c, <2>1
<1>18. ASSUME NEW c \in Calls, NEW ch \in Channels, DispatchSkipped(c, ch) PROVE Delivery'
  <2>1. at[c] = ch /\ End(c) /\ UNCHANGED <<fresh, effect>>
    BY <1>18 DEF DispatchSkipped, Leave, ledger
  <2>2. CASE Leave(c) /\ effect[ch] > 0
    <3>1. e > 0
      BY <1>d, <2>1, <2>2 DEF Fresh, Channels, e
    <3>2. OneCall(c) /\ ~clean'[c] /\ good' \in Nat
      BY <1>d, <1>n, <2>1, <2>2 DEF Leave, End, Goto, OneCall, Running, Shape, Alone, Channels
    <3> QED
      BY <1>b, <1>n, <2>1, <3>1, <3>2
  <2>3. CASE Spoil(c)
    <3>1. OneCall(c) /\ ~clean'[c] /\ good' = good
      BY <1>d, <2>1, <2>3 DEF Spoil, End, Goto, OneCall, Running, Shape, Alone, Channels
    <3> QED
      BY <1>b, <1>n, <2>1, <3>1
  <2> QED
    BY <1>18, <2>2, <2>3 DEF DispatchSkipped, Fail
<1>22. ASSUME NEW c \in Calls, NEW ch \in Channels, DispatchRefused(c, ch) PROVE Delivery'
  <2>1. at[c] = ch /\ End(c) /\ Spoil(c) /\ UNCHANGED <<fresh, effect>>
    BY <1>22 DEF DispatchRefused, Fail, Ledger!ClaimRefused
  <2>2. OneCall(c) /\ ~clean'[c] /\ good' = good
    BY <1>d, <2>1 DEF Spoil, End, Goto, OneCall, Running, Shape, Alone, Channels
  <2> QED
    BY <1>b, <1>n, <2>1, <2>2
<1>19. ASSUME NEW tf \in Tfs, Serve(tf) PROVE Delivery'
  <2>1. fresh # Tfs /\ UNCHANGED <<at, scanned, clean, good, effect, pc, saved, sets>>
    BY <1>19 DEF Serve, ledger
  <2>2. \A d \in Calls : ~clean[d]
    BY <1>d, <2>1 DEF Alone
  <2>3. Kept' = Kept
    BY <2>1 DEF Kept
  <2> QED
    BY <1>d, <2>1, <2>2, <2>3 DEF Delivery, Alone, Honest, Fresh, Counted
<1>20. ASSUME UNCHANGED vars PROVE Delivery'
  <2>1. UNCHANGED <<fresh, at, scanned, clean, good, effect, pc, saved, sets>>
    BY <1>20 DEF vars, ledger
  <2>2. Kept' = Kept
    BY <2>1 DEF Kept
  <2> QED
    BY <1>d, <2>1, <2>2 DEF Delivery, Alone, Honest, Fresh, Counted, Running, Scanning, Tf, Tfs
<1> HIDE DEF books, locals, day, history
<1>21. ASSUME NEW c \in Calls, Begin(c) \/ Read(c) \/ Compute(c) \/ Send(c) \/ Stop(c)
       PROVE  Delivery'
  BY <1>1, <1>2, <1>3, <1>4, <1>5, <1>6, <1>7, <1>8, <1>9, <1>10, <1>11, <1>12, <1>13, <1>14,
     <1>15, <1>21 DEF Read, Compute, Send
<1> QED
  BY <1>16, <1>17, <1>18, <1>19, <1>20, <1>21, <1>22 DEF Next

\* (close_publish.close_picks: a call per set, then the post) As many good
\* calls as closes are due deliver the post, whatever went wrong before,
\* between and after them.
THEOREM DeliveredInTime == Spec => []DeliveredAfterGoodCalls
<1> DEFINE Inv == Shape /\ Recorded /\ Picked /\ AtJob /\ LP!IInv /\ Delivery
<1>1. Init => Inv
  BY ShapeInit, RecordedInit, PickedInit, AtJobInit, LedgerInvInit, DeliveryInit
<1>2. Inv /\ [Next]_vars => Inv'
  BY ShapeStep, RecordedStep, PickedStep, AtJobStep, LedgerInvStep, DeliveryStep
<1>3. Inv => DeliveredAfterGoodCalls
  <2> SUFFICES ASSUME Inv, good = Len(Due), effect["post"] = 0 PROVE FALSE
    BY EffectNat DEF DeliveredAfterGoodCalls
  <2> QED
    BY ClosePublishAssumption DEF Delivery, Counted
<1> QED
  BY <1>1, <1>2, <1>3, PTL DEF Spec

-----------------------------------------------------------------------------
(***************************************************************************)
(* The gates before a publication, for every read.                         *)
(***************************************************************************)
SP == INSTANCE SignalPolicy

\* a strength in tenths of a per cent
Strengths == 0..1000

\* calibrate_confidence moves no signal across the publication gate: what it
\* returns is no stronger than what it was given and passes the strength floor
\* exactly when that did, and a chased entry or one whose two time frames are far
\* apart never stays in the confirmed tier.
THEOREM CalibrationKeepsTheGate ==
    ASSUME NEW strength \in Strengths, NEW h1 \in Strengths \union {SP!NoStrength},
           NEW h2 \in Strengths \union {SP!NoStrength}, NEW chased \in BOOLEAN
    PROVE  LET c == SP!Calibrate(strength, h1, h2, chased) IN
           /\ c <= strength
           /\ c >= SP!MIN_ADJUSTED_STRENGTH <=> strength >= SP!MIN_ADJUSTED_STRENGTH
           /\ chased => c < SP!CONFIRMED_TIER_FLOOR
           /\ SP!NoStrength \notin {h1, h2} /\ SP!Distance(h1, h2) >= SP!TF_SPLIT_GAP =>
                 c < SP!CONFIRMED_TIER_FLOOR
<1> DEFINE spread == SP!Distance(h1, h2)
           split == SP!NoStrength \notin {h1, h2} /\ spread >= SP!TF_SPLIT_GAP
           capped == IF chased \/ split THEN SP!Lesser(strength, SP!TIER_DEMOTE_CAP) ELSE strength
           docked == IF split THEN SP!Round(2 * capped - (spread - SP!TF_SPLIT_GAP), 2) ELSE capped
<1>1. spread \in Int
  BY DEF SP!Distance, Strengths, SP!NoStrength
<1>2. capped \in Int /\ capped <= strength /\ (chased \/ split => capped <= SP!TIER_DEMOTE_CAP)
  BY DEF SP!Lesser, SP!TIER_DEMOTE_CAP, Strengths
<1> HIDE DEF spread, capped
<1>3. docked \in Int /\ docked <= capped
  <2> SUFFICES ASSUME split PROVE SP!Round(2 * capped - (spread - SP!TF_SPLIT_GAP), 2) \in Int
                       /\ SP!Round(2 * capped - (spread - SP!TF_SPLIT_GAP), 2) <= capped
    BY <1>2
  <2> PICK n \in Int : n = 2 * capped - (spread - SP!TF_SPLIT_GAP)
    BY <1>1, <1>2 DEF SP!TF_SPLIT_GAP
  <2>1. n <= 2 * capped
    BY <1>1, <1>2 DEF SP!TF_SPLIT_GAP
  <2> QED
    BY <1>2, <2>1 DEF SP!Round
<1>4. SP!Calibrate(strength, h1, h2, chased) =
         IF strength >= SP!MIN_ADJUSTED_STRENGTH THEN SP!Greater(docked, SP!MIN_ADJUSTED_STRENGTH) ELSE docked
  BY DEF SP!Calibrate, capped, spread
<1> HIDE DEF docked
<1> QED
  BY <1>2, <1>3, <1>4 DEF SP!Greater, SP!MIN_ADJUSTED_STRENGTH, SP!CONFIRMED_TIER_FLOOR, SP!TIER_DEMOTE_CAP, Strengths, spread

\* What lies ahead of something ahead lies ahead.
LEMMA BothAhead ==
    ASSUME NEW side \in {1, -1}, NEW a \in Int, NEW b \in Int, NEW c \in Int,
           side * (a - b) > 0, side * (b - c) > 0
    PROVE  side * (a - c) > 0
<1>1. CASE side = 1
  BY <1>1
<1>2. CASE side = -1
  BY <1>2
<1> QED
  BY <1>1, <1>2

\* A read the gates of signal_policy let through can be traded.  It reaches the
\* strength floor, the stop is on the losing side and every target on the winning
\* side of the entry; no target is behind the live price, although the gate only
\* looks at the first; and the reward is at least one and a half times the risk.
THEOREM PassedIsSound ==
    ASSUME NEW read, NEW strength \in Int, SP!Gates(read, strength) = "ok",
           read.entry \in Int, read.sl \in Int, read.rr \in Int, read.live \in Int, read.signal \in Int,
           read.tps \in Seq(Int)
    PROVE  LET live == SP!LiveOf(read)
               side == SP!Sign(read.direction)
           IN  /\ strength >= SP!MIN_ADJUSTED_STRENGTH
               /\ side * (read.entry - read.sl) > 0
               /\ \A n \in DOMAIN read.tps :
                     /\ side * (read.tps[n] - read.entry) > 0
                     /\ live > 0 => side * (read.tps[n] - live) > 0
               /\ 2 * SP!Distance(SP!Reward(read.tps), read.entry) >= 3 * SP!Distance(read.sl, read.entry)
<1> PICK tps \in Seq(Int) : tps = read.tps
  OBVIOUS
<1> DEFINE live == SP!LiveOf(read)
           side == SP!Sign(read.direction)
<1>1. live \in Int /\ side \in {1, -1}
  BY DEF SP!LiveOf, SP!Sign
<1>2. /\ strength >= SP!MIN_ADJUSTED_STRENGTH
      /\ SP!Geometry(read.direction, read.entry, read.sl, tps, read.rr) = "ok"
      /\ 1 \notin SP!TargetsBehind(read.direction, tps, live)
  BY DEF SP!Gates, SP!MIN_ADJUSTED_STRENGTH
<1>3. /\ SP!WellShaped(read.direction, read.entry, read.sl, tps)
      /\ ~(100 * SP!Distance(SP!Reward(tps), read.entry) < SP!MIN_RR * SP!Distance(read.sl, read.entry))
  BY <1>2 DEF SP!Geometry
<1>4. /\ side * (read.entry - read.sl) > 0 /\ tps # <<>>
      /\ \A n \in DOMAIN tps : tps[n] > 0 /\ side * (tps[n] - read.entry) > 0
      /\ \A n \in DOMAIN tps : n > 1 => side * (tps[n] - tps[n - 1]) > 0
  BY <1>3 DEF SP!WellShaped
<1>5. PICK len \in Nat : len = Len(tps) /\ DOMAIN tps = 1..len /\ len > 0
  BY <1>4
<1>6. ASSUME live > 0 PROVE \A n \in 1..len : side * (tps[n] - live) > 0
  <2> HIDE DEF side, live
  <2> DEFINE X == {m \in 0..len : \A n \in 1..m : side * (tps[n] - live) > 0}
  <2>1. side * (tps[1] - live) > 0
    <3>1. tps[1] \in Int /\ 1 \in DOMAIN tps /\ tps[1] > 0
      BY <1>4, <1>5
    <3>2. ~(side * (tps[1] - live) <= 0)
      BY <1>1, <1>2, <1>6, <3>1 DEF SP!TargetsBehind, side
    <3> QED
      BY <1>1, <3>1, <3>2
  <2>2. 0 \in X
    OBVIOUS
  <2>3. ASSUME NEW m \in 0..(len - 1), m \in X PROVE m + 1 \in X
    <3>1. CASE m = 0
      BY <1>5, <2>1, <3>1
    <3>2. CASE m > 0
      <4>1. m + 1 \in 1..len /\ m \in 1..len /\ (m + 1) - 1 = m
        BY <3>2
      <4>2. side * (tps[m] - live) > 0
        BY <2>3, <4>1
      <4>3. side * (tps[m + 1] - tps[m]) > 0
        <5>1. m + 1 \in DOMAIN tps /\ m + 1 > 1
          BY <1>5, <3>2, <4>1
        <5> QED
          BY <1>4, <4>1, <5>1
      <4>4. tps[m] \in Int /\ tps[m + 1] \in Int
        BY <1>5, <4>1
      <4>5. side * (tps[m + 1] - live) > 0
        BY <1>1, <4>2, <4>3, <4>4, BothAhead
      <4> QED
        BY <2>3, <4>5
    <3> QED
      BY <3>1, <3>2
  <2> HIDE DEF X
  <2>4. len \in X
    BY <2>2, <2>3, Rules!UpTo
  <2> QED
    BY <2>4 DEF X
<1>7. 2 * SP!Distance(SP!Reward(tps), read.entry) >= 3 * SP!Distance(read.sl, read.entry)
  <2>1. SP!Reward(tps) \in Int
    BY <1>5 DEF SP!Reward
  <2> PICK reward \in Int, risk \in Int :
          reward = SP!Distance(SP!Reward(tps), read.entry) /\ risk = SP!Distance(read.sl, read.entry)
    BY <2>1 DEF SP!Distance
  <2> QED
    BY <1>3 DEF SP!MIN_RR
<1> QED
  BY <1>2, <1>4, <1>5, <1>6, <1>7

-----------------------------------------------------------------------------
(***************************************************************************)
(* The picks of a close, for every ranking.  The walk over the ranks is a  *)
(* fold, so what it has done after i of them (Walked) is carried from one  *)
(* rank to the next: which ranks are taken and which put aside, and that   *)
(* while the list is not full every rank is one or the other.              *)
(***************************************************************************)

\* the picks of a list that move with Bitcoin and point in one direction
OfAKind(picks, dir) == {k \in DOMAIN picks : picks[k].corr /\ picks[k].direction = dir}

\* A list has finitely many of a kind.
LEMMA KindIsFinite ==
    ASSUME NEW S, NEW picks \in Seq(S), NEW dir
    PROVE  IsFiniteSet(OfAKind(picks, dir)) /\ Cardinality(OfAKind(picks, dir)) \in Nat
<1>1. PICK n \in Nat : n = Len(picks) /\ DOMAIN picks = 1..n
  OBVIOUS
<1>2. IsFiniteSet(1..n)
  BY FS_Interval
<1>3. OfAKind(picks, dir) \subseteq 1..n
  BY <1>1 DEF OfAKind
<1> QED
  BY <1>2, <1>3, FS_Subset, FS_CardinalityType

\* A longer list holds no fewer of a kind.
LEMMA KindGrows ==
    ASSUME NEW S, NEW short \in Seq(S), NEW long \in Seq(S), NEW dir,
           Len(short) <= Len(long), \A k \in 1..Len(short) : long[k] = short[k]
    PROVE  Cardinality(OfAKind(short, dir)) <= Cardinality(OfAKind(long, dir))
<1>1. OfAKind(short, dir) \subseteq OfAKind(long, dir)
  BY DEF OfAKind
<1> QED
  BY <1>1, KindIsFinite, FS_Subset

\* ThirdOfAKind counts the picks of the kind.
LEMMA ThirdIs ==
    ASSUME NEW picks, NEW c, c.corr \in BOOLEAN
    PROVE  ThirdOfAKind(picks, c) <=> c.corr /\ Cardinality(OfAKind(picks, c.direction)) >= 2
  BY DEF ThirdOfAKind, OfAKind

\* One more pick is one more of its kind and none of another.
LEMMA KindOfAppend ==
    ASSUME NEW S, NEW picks \in Seq(S), NEW c \in S, c.corr \in BOOLEAN, NEW dir
    PROVE  Cardinality(OfAKind(Append(picks, c), dir)) =
              Cardinality(OfAKind(picks, dir)) + (IF c.corr /\ c.direction = dir THEN 1 ELSE 0)
<1> DEFINE more == Append(picks, c)
<1>1. PICK n \in Nat : n = Len(picks) /\ DOMAIN picks = 1..n
  OBVIOUS
<1>2. DOMAIN more = 1..(n + 1) /\ more[n + 1] = c /\ \A k \in 1..n : more[k] = picks[k]
  BY <1>1
<1> HIDE DEF more
<1>3. n + 1 \notin OfAKind(picks, dir)
  BY <1>1 DEF OfAKind
<1>6. IsFiniteSet(OfAKind(picks, dir)) /\ Cardinality(OfAKind(picks, dir)) \in Nat
  BY KindIsFinite
<1>4. CASE c.corr /\ c.direction = dir
  <2>1. OfAKind(more, dir) = OfAKind(picks, dir) \union {n + 1}
    BY <1>1, <1>2, <1>4 DEF OfAKind
  <2>2. Cardinality(OfAKind(more, dir)) = Cardinality(OfAKind(picks, dir)) + 1
    BY <1>3, <1>6, <2>1, FS_AddElement
  <2> QED
    BY <1>4, <2>2 DEF more
<1>5. CASE ~(c.corr /\ c.direction = dir)
  <2>1. OfAKind(more, dir) = OfAKind(picks, dir)
    BY <1>1, <1>2, <1>5 DEF OfAKind
  <2> QED
    BY <1>5, <1>6, <2>1 DEF more
<1> QED
  BY <1>4, <1>5

\* P tells at which of the first i ranks each of the listed candidates stands.
Places(list, ranked, P, i) ==
    /\ P \in [1..Len(list) -> 1..i]
    /\ \A k \in 1..Len(list) : list[k] = ranked[P[k]]
    /\ \A k, l \in 1..Len(list) : P[k] = P[l] => k = l

\* A list grown by the candidate of the next rank still has its places.
LEMMA PlacesOfAppend ==
    ASSUME NEW S, NEW list \in Seq(S), NEW ranked, NEW i \in Nat, NEW P, Places(list, ranked, P, i),
           ranked[i + 1] \in S
    PROVE  \E Q : /\ Places(Append(list, ranked[i + 1]), ranked, Q, i + 1)
                  /\ \A k \in 1..Len(list) : Q[k] = P[k]
                  /\ Q[Len(list) + 1] = i + 1
<1>1. PICK n \in Nat : n = Len(list)
  OBVIOUS
<1> DEFINE more == Append(list, ranked[i + 1])
           Q == [k \in 1..(n + 1) |-> IF k = n + 1 THEN i + 1 ELSE P[k]]
<1>2. Len(more) = n + 1 /\ more[n + 1] = ranked[i + 1] /\ \A k \in 1..n : more[k] = list[k]
  BY <1>1
<1>3. \A k \in 1..n : P[k] \in 1..i
  BY <1>1 DEF Places
<1>4. Q \in [1..(n + 1) -> 1..(i + 1)]
  BY <1>3
<1>5. Q[n + 1] = i + 1 /\ \A k \in 1..n : Q[k] = P[k]
  OBVIOUS
<1> HIDE DEF Q, more
<1>6. \A k \in 1..(n + 1) : more[k] = ranked[Q[k]]
  BY <1>1, <1>2, <1>5 DEF Places
<1>7. \A k, l \in 1..(n + 1) : Q[k] = Q[l] => k = l
  <2> TAKE k, l \in 1..(n + 1)
  <2>1. CASE k = n + 1 /\ l = n + 1
    BY <2>1
  <2>2. CASE k = n + 1 /\ l \in 1..n
    BY <1>3, <1>5, <2>2
  <2>3. CASE k \in 1..n /\ l = n + 1
    BY <1>3, <1>5, <2>3
  <2>4. CASE k \in 1..n /\ l \in 1..n
    BY <1>1, <1>5, <2>4 DEF Places
  <2> QED
    BY <2>1, <2>2, <2>3, <2>4
<1>8. Places(more, ranked, Q, i + 1)
  BY <1>2, <1>4, <1>6, <1>7 DEF Places
<1> QED
  BY <1>1, <1>5, <1>8 DEF more

\* what is ranked; corr tells whether the coin moves with Bitcoin
Candidates(C) == \A c \in C : c.corr \in BOOLEAN

\* What the walk over the first i ranks has taken and put aside.
Aside(C, ranked, topN, top, deferred, i) ==
    /\ top \in Seq(C) /\ deferred \in Seq(C)
    /\ Len(top) <= topN /\ Len(top) + Len(deferred) <= i
    /\ \A dir : Cardinality(OfAKind(top, dir)) <= 2
    /\ \E P, D : /\ Places(top, ranked, P, i) /\ Places(deferred, ranked, D, i)
                 /\ \A k \in 1..Len(top), l \in 1..Len(deferred) : P[k] # D[l]
    /\ Len(top) < topN =>
          /\ Len(top) + Len(deferred) = i
          /\ \A j \in 1..i : \/ \E k \in 1..Len(top) : top[k] = ranked[j]
                             \/ ThirdOfAKind(top, ranked[j])

Walked(C, ranked, topN, acc, i) ==
    \E top, deferred \in Seq(C) :
        acc = [top |-> top, deferred |-> deferred] /\ Aside(C, ranked, topN, top, deferred, i)

\* Places among the first ranks are places among more of them.
LEMMA PlacesGrow ==
    ASSUME NEW list, NEW ranked, NEW P, NEW i \in Nat, Places(list, ranked, P, i)
    PROVE  Places(list, ranked, P, i + 1)
<1>1. P \in [1..Len(list) -> 1..(i + 1)]
  BY DEF Places
<1> QED
  BY <1>1 DEF Places

\* One candidate of select_publishable: taken, put aside or, when the list is
\* full, passed over.
LEMMA TakeWalks ==
    ASSUME NEW C, Candidates(C), NEW ranked \in Seq(C), NEW topN \in Nat, NEW i \in 0..(Len(ranked) - 1),
           NEW acc, Walked(C, ranked, topN, acc, i)
    PROVE  Walked(C, ranked, topN, Take(acc, ranked[i + 1], topN), i + 1)
<1>0. i \in Nat /\ i + 1 \in DOMAIN ranked
  OBVIOUS
<1> PICK c \in C : c = ranked[i + 1]
  BY <1>0
<1> PICK top \in Seq(C), deferred \in Seq(C) :
        acc = [top |-> top, deferred |-> deferred] /\ Aside(C, ranked, topN, top, deferred, i)
  BY DEF Walked
<1>1. PICK P, D : /\ Places(top, ranked, P, i) /\ Places(deferred, ranked, D, i)
                  /\ \A k \in 1..Len(top), l \in 1..Len(deferred) : P[k] # D[l]
  BY DEF Aside
<1>2. c.corr \in BOOLEAN
  BY DEF Candidates
<1> PICK a \in Nat, b \in Nat : a = Len(top) /\ b = Len(deferred)
  OBVIOUS
<1>3. a <= topN /\ a + b <= i /\ \A dir : Cardinality(OfAKind(top, dir)) <= 2
  BY DEF Aside
<1>4. a < topN => /\ a + b = i
                  /\ \A j \in 1..i : \/ \E k \in 1..Len(top) : top[k] = ranked[j]
                                     \/ ThirdOfAKind(top, ranked[j])
  BY DEF Aside
<1>9. acc = [top |-> top, deferred |-> deferred] /\ acc.top = top /\ acc.deferred = deferred
  OBVIOUS
<1>10. \A x : /\ [acc EXCEPT !.top = x] = [top |-> x, deferred |-> deferred]
              /\ [acc EXCEPT !.deferred = x] = [top |-> top, deferred |-> x]
  BY <1>9
<1>8. Take(acc, c, topN) =
         IF a >= topN THEN acc
         ELSE IF ThirdOfAKind(top, c) THEN [top |-> top, deferred |-> Append(deferred, c)]
         ELSE [top |-> Append(top, c), deferred |-> deferred]
  BY <1>9, <1>10 DEF Take
<1>5. CASE a >= topN
  <2>1. Take(acc, c, topN) = acc
    BY <1>5, <1>8
  <2>2. Places(top, ranked, P, i + 1) /\ Places(deferred, ranked, D, i + 1)
    BY <1>0, <1>1, PlacesGrow
  <2>3. ~(a < topN) /\ a + b <= i + 1
    BY <1>0, <1>3, <1>5
  <2>4. Aside(C, ranked, topN, top, deferred, i + 1)
    <3>1. /\ Len(top) <= topN /\ Len(top) + Len(deferred) <= i + 1 /\ ~(Len(top) < topN)
          /\ \A dir : Cardinality(OfAKind(top, dir)) <= 2
      BY <1>3, <2>3
    <3>2. \E F, G : /\ Places(top, ranked, F, i + 1) /\ Places(deferred, ranked, G, i + 1)
                    /\ \A k \in 1..Len(top), l \in 1..Len(deferred) : F[k] # G[l]
      BY <1>1, <2>2
    <3> QED
      BY <3>1, <3>2, Zenon DEF Aside
  <2> QED
    BY <2>1, <2>4 DEF Walked
<1>6. CASE a < topN /\ ThirdOfAKind(top, c)
  <2>0. Append(deferred, c) \in Seq(C)
    OBVIOUS
  <2> PICK waits \in Seq(C) : waits = Append(deferred, c)
    BY <2>0
  <2>1. Take(acc, c, topN) = [top |-> top, deferred |-> waits]
    BY <1>6, <1>8
  <2>2. PICK E : /\ Places(waits, ranked, E, i + 1)
                 /\ \A k \in 1..Len(deferred) : E[k] = D[k]
                 /\ E[Len(deferred) + 1] = i + 1
    BY <1>0, <1>1, PlacesOfAppend
  <2>3. Places(top, ranked, P, i + 1)
    BY <1>0, <1>1, PlacesGrow
  <2>4. Len(waits) = b + 1
    OBVIOUS
  <2>5. \A k \in 1..Len(top), l \in 1..Len(waits) : P[k] # E[l]
    <3> TAKE k \in 1..Len(top), l \in 1..Len(waits)
    <3>1. P[k] \in 1..i
      BY <1>1 DEF Places
    <3>2. CASE l \in 1..b
      BY <1>1, <2>2, <3>2
    <3>3. CASE l = b + 1
      BY <1>0, <2>2, <3>1, <3>3
    <3> QED
      BY <2>4, <3>2, <3>3
  <2>6. a + Len(waits) = i + 1 /\ a + Len(waits) <= i + 1
    BY <1>0, <1>4, <1>6, <2>4
  <2>7. \A j \in 1..(i + 1) : \/ \E k \in 1..Len(top) : top[k] = ranked[j]
                              \/ ThirdOfAKind(top, ranked[j])
    <3> TAKE j \in 1..(i + 1)
    <3>1. CASE j = i + 1
      BY <1>6, <3>1
    <3>2. CASE j \in 1..i
      BY <1>4, <1>6, <3>2
    <3> QED
      BY <1>0, <3>1, <3>2
  <2>8. Aside(C, ranked, topN, top, waits, i + 1)
    <3>1. \E F, G : /\ Places(top, ranked, F, i + 1) /\ Places(waits, ranked, G, i + 1)
                    /\ \A k \in 1..Len(top), l \in 1..Len(waits) : F[k] # G[l]
      BY <2>2, <2>3, <2>5
    <3> QED
      BY <1>3, <2>6, <2>7, <3>1 DEF Aside
  <2> QED
    BY <2>1, <2>8 DEF Walked
<1>7. CASE a < topN /\ ~ThirdOfAKind(top, c)
  <2>0. Append(top, c) \in Seq(C)
    OBVIOUS
  <2> PICK taken \in Seq(C) : taken = Append(top, c)
    BY <2>0
  <2>1. Take(acc, c, topN) = [top |-> taken, deferred |-> deferred]
    BY <1>7, <1>8
  <2>2. PICK Q : /\ Places(taken, ranked, Q, i + 1)
                 /\ \A k \in 1..Len(top) : Q[k] = P[k]
                 /\ Q[Len(top) + 1] = i + 1
    BY <1>0, <1>1, PlacesOfAppend
  <2>3. Places(deferred, ranked, D, i + 1)
    BY <1>0, <1>1, PlacesGrow
  <2>4. Len(taken) = a + 1 /\ taken[a + 1] = c /\ \A k \in 1..a : taken[k] = top[k]
    OBVIOUS
  <2>5. \A k \in 1..Len(taken), l \in 1..Len(deferred) : Q[k] # D[l]
    <3> TAKE k \in 1..Len(taken), l \in 1..Len(deferred)
    <3>1. D[l] \in 1..i
      BY <1>1 DEF Places
    <3>2. CASE k \in 1..a
      BY <1>1, <2>2, <3>2
    <3>3. CASE k = a + 1
      BY <1>0, <2>2, <3>1, <3>3
    <3> QED
      BY <2>4, <3>2, <3>3
  <2>6. Len(taken) + b = i + 1 /\ Len(taken) + b <= i + 1 /\ Len(taken) <= topN
    BY <1>0, <1>4, <1>7, <2>4
  <2>7. \A dir : Cardinality(OfAKind(taken, dir)) <= 2
    <3> TAKE dir
    <3>1. Cardinality(OfAKind(taken, dir)) =
              Cardinality(OfAKind(top, dir)) + (IF c.corr /\ c.direction = dir THEN 1 ELSE 0)
      BY <1>2, KindOfAppend
    <3>2. Cardinality(OfAKind(top, dir)) \in Nat /\ Cardinality(OfAKind(top, dir)) <= 2
      BY <1>3, KindIsFinite
    <3>3. c.corr /\ c.direction = dir => ~(Cardinality(OfAKind(top, dir)) >= 2)
      <4>1. ThirdOfAKind(top, c) <=> c.corr /\ Cardinality(OfAKind(top, c.direction)) >= 2
        BY <1>2, ThirdIs
      <4> QED
        BY <1>7, <4>1
    <3> QED
      BY <3>1, <3>2, <3>3
  <2>8. \A j \in 1..(i + 1) : \/ \E k \in 1..Len(taken) : taken[k] = ranked[j]
                              \/ ThirdOfAKind(taken, ranked[j])
    <3> TAKE j \in 1..(i + 1)
    <3>1. CASE j = i + 1
      BY <2>4, <3>1
    <3>2. ASSUME j \in 1..i, NEW k \in 1..Len(top), top[k] = ranked[j]
          PROVE  \E l \in 1..Len(taken) : taken[l] = ranked[j]
      BY <2>4, <3>2
    <3>3. ASSUME j \in 1..i, ThirdOfAKind(top, ranked[j]) PROVE ThirdOfAKind(taken, ranked[j])
      <4>1. ranked[j] \in C /\ ranked[j].corr \in BOOLEAN
        BY <3>3 DEF Candidates
      <4>2. Len(top) <= Len(taken)
        BY <2>4
      <4>3. Cardinality(OfAKind(top, ranked[j].direction)) <= Cardinality(OfAKind(taken, ranked[j].direction))
        BY <2>4, <4>2, KindGrows
      <4>4. /\ Cardinality(OfAKind(top, ranked[j].direction)) \in Nat
            /\ Cardinality(OfAKind(taken, ranked[j].direction)) \in Nat
        BY KindIsFinite
      <4> QED
        BY <3>3, <4>1, <4>3, <4>4, ThirdIs
    <3>4. CASE j \in 1..i
      BY <1>4, <1>7, <3>2, <3>3, <3>4
    <3> QED
      BY <1>0, <3>1, <3>4
  <2>9. Aside(C, ranked, topN, taken, deferred, i + 1)
    <3>1. \E F, G : /\ Places(taken, ranked, F, i + 1) /\ Places(deferred, ranked, G, i + 1)
                    /\ \A k \in 1..Len(taken), l \in 1..Len(deferred) : F[k] # G[l]
      BY <2>2, <2>3, <2>5
    <3>2. /\ Len(taken) <= topN /\ Len(taken) + Len(deferred) <= i + 1
          /\ Len(taken) + Len(deferred) = i + 1
      BY <2>6
    <3> QED
      BY <2>7, <2>8, <3>1, <3>2, Zenon DEF Aside
  <2> QED
    BY <2>1, <2>9 DEF Walked
<1> QED
  BY <1>5, <1>6, <1>7

\* After the last rank the walk has looked at every candidate.
LEMMA GreedyWalks ==
    ASSUME NEW C, Candidates(C), NEW ranked \in Seq(C), NEW topN \in Nat
    PROVE  Walked(C, ranked, topN, Greedy(ranked, topN)[Len(ranked)], Len(ranked))
<1> DEFINE after == Greedy(ranked, topN)
           X == {i \in 0..Len(ranked) : Walked(C, ranked, topN, after[i], i)}
<1>1. PICK n \in Nat : n = Len(ranked)
  OBVIOUS
<1>2. 0 \in X
  <2>1. after[0] = [top |-> <<>>, deferred |-> <<>>]
    BY GreedyDef
  <2>2. Places(<<>>, ranked, <<>>, 0)
    BY DEF Places
  <2>3. \A dir : OfAKind(<<>>, dir) = {}
    BY DEF OfAKind
  <2>4. \A dir : Cardinality(OfAKind(<<>>, dir)) <= 2
    <3>1. Cardinality({}) = 0
      BY FS_EmptySet
    <3>2. Cardinality({}) <= 2
      BY <3>1
    <3> QED
      BY <2>3, <3>2
  <2>5. <<>> \in Seq(C) /\ Len(<<>>) = 0
    OBVIOUS
  <2>6. Aside(C, ranked, topN, <<>>, <<>>, 0)
    BY <2>2, <2>4, <2>5 DEF Aside
  <2>7. Walked(C, ranked, topN, after[0], 0)
    BY <2>1, <2>5, <2>6 DEF Walked
  <2> QED
    BY <1>1, <2>7
<1>3. ASSUME NEW i \in 0..(n - 1), i \in X PROVE i + 1 \in X
  <2>1. i + 1 \in 1..Len(ranked) /\ (i + 1) - 1 = i /\ i + 1 \in 0..Len(ranked)
    BY <1>1
  <2>2. after[i + 1] = Take(after[i], ranked[i + 1], topN)
    BY <2>1, GreedyDef
  <2> HIDE DEF after
  <2>3. Walked(C, ranked, topN, after[i + 1], i + 1)
    BY <1>1, <1>3, <2>2, TakeWalks
  <2> QED
    BY <2>1, <2>3
<1> HIDE DEF X
<1>4. n \in X
  BY <1>1, <1>2, <1>3, Rules!UpTo
<1> QED
  BY <1>1, <1>4 DEF X

\* select_publishable, for every ranking and every number asked for: the list is
\* as long as it can be and holds no candidate twice, and when it has more than
\* two of a kind (moving with Bitcoin, in one direction), every candidate is in
\* it or is itself a third of a kind: none was left out for the sake of the
\* third.
THEOREM ThirdsWaitForAll ==
    ASSUME NEW C, Candidates(C), NEW ranked \in Seq(C), NEW topN \in Nat
    PROVE  LET picks == SelectPublishable(ranked, topN) IN
           /\ picks \in Seq(C)
           /\ Len(picks) = IF Len(ranked) < topN THEN Len(ranked) ELSE topN
           /\ \E P : Places(picks, ranked, P, Len(ranked))
           /\ (\E dir : Cardinality(OfAKind(picks, dir)) > 2) =>
                 \A j \in 1..Len(ranked) :
                    \/ \E k \in 1..Len(picks) : picks[k] = ranked[j]
                    \/ ThirdOfAKind(picks, ranked[j])
<1> PICK n \in Nat : n = Len(ranked)
  OBVIOUS
<1> PICK top \in Seq(C), deferred \in Seq(C) :
        /\ Greedy(ranked, topN)[Len(ranked)] = [top |-> top, deferred |-> deferred]
        /\ Aside(C, ranked, topN, top, deferred, n)
  BY GreedyWalks DEF Walked
<1> PICK a \in Nat, b \in Nat : a = Len(top) /\ b = Len(deferred)
  OBVIOUS
<1>0. top \o deferred \in Seq(C)
  OBVIOUS
<1> PICK all \in Seq(C) : all = top \o deferred
  BY <1>0
<1>1. Len(all) = a + b /\ (\A k \in 1..a : all[k] = top[k]) /\ \A k \in (a + 1)..(a + b) : all[k] = deferred[k - a]
  OBVIOUS
<1> DEFINE m == IF a + b < topN THEN a + b ELSE topN
<1>2. m \in Nat /\ m <= a + b /\ m <= topN
  OBVIOUS
<1> PICK picks : picks = SubSeq(all, 1, m)
  OBVIOUS
<1>3. picks = SelectPublishable(ranked, topN)
  BY <1>1 DEF SelectPublishable
<1>4. /\ picks \in Seq(C) /\ Len(picks) = m /\ \A k \in 1..m : picks[k] = all[k]
  BY <1>1, <1>2
<1>5. /\ a <= topN /\ a + b <= n /\ \A dir : Cardinality(OfAKind(top, dir)) <= 2
      /\ a < topN => /\ a + b = n
                     /\ \A j \in 1..n : \/ \E k \in 1..Len(top) : top[k] = ranked[j]
                                        \/ ThirdOfAKind(top, ranked[j])
  BY DEF Aside
<1>6. m = IF n < topN THEN n ELSE topN
  <2>1. a + b <= n /\ (a < topN => a + b = n)
    BY <1>5
  <2>2. a <= a + b /\ m = IF a + b < topN THEN a + b ELSE topN
    OBVIOUS
  <2> HIDE DEF m
  <2>3. CASE a + b < topN
    BY <2>1, <2>2, <2>3
  <2>4. CASE a + b >= topN
    BY <2>1, <2>2, <2>4
  <2> QED
    BY <2>3, <2>4
<1>7. a <= m /\ \A k \in 1..a : picks[k] = top[k]
  BY <1>1, <1>4, <1>5
<1>8. \E P : Places(picks, ranked, P, n)
  <2> PICK P, D : /\ Places(top, ranked, P, n) /\ Places(deferred, ranked, D, n)
                  /\ \A k \in 1..Len(top), l \in 1..Len(deferred) : P[k] # D[l]
    BY DEF Aside
  <2> DEFINE Q == [k \in 1..m |-> IF k <= a THEN P[k] ELSE D[k - a]]
  <2>1. \A k \in 1..m : \/ k \in 1..a /\ Q[k] = P[k]
                        \/ k > a /\ k - a \in 1..b /\ Q[k] = D[k - a]
    <3> TAKE k \in 1..m
    <3>1. Q[k] = IF k <= a THEN P[k] ELSE D[k - a]
      OBVIOUS
    <3> HIDE DEF Q, m
    <3>2. k \in Nat /\ 0 < k /\ k <= a + b
      BY <1>2
    <3>3. CASE k <= a
      <4>1. Q[k] = P[k]
        BY <3>1, <3>3
      <4>2. k \in 1..a
        BY <3>2, <3>3
      <4> QED
        BY <4>1, <4>2
    <3>4. CASE ~(k <= a)
      BY <3>1, <3>2, <3>4
    <3> QED
      BY <3>3, <3>4
  <2>2. /\ \A k \in 1..a : P[k] \in 1..n /\ top[k] = ranked[P[k]]
        /\ \A k \in 1..b : D[k] \in 1..n /\ deferred[k] = ranked[D[k]]
        /\ \A k, l \in 1..a : P[k] = P[l] => k = l
        /\ \A k, l \in 1..b : D[k] = D[l] => k = l
        /\ \A k \in 1..a, l \in 1..b : P[k] # D[l]
    BY DEF Places
  <2>3. \A k \in 1..m : Q[k] \in 1..n
    BY <2>1, <2>2
  <2>4. Q \in [1..m -> 1..n]
    BY <2>3
  <2> HIDE DEF Q
  <2>5. \A k \in 1..m : picks[k] = ranked[Q[k]]
    <3> TAKE k \in 1..m
    <3>1. CASE k \in 1..a /\ Q[k] = P[k]
      BY <1>7, <2>2, <3>1
    <3>2. CASE k > a /\ k - a \in 1..b /\ Q[k] = D[k - a]
      <4>1. picks[k] = all[k] /\ k \in (a + 1)..(a + b)
        BY <1>2, <1>4, <3>2
      <4>2. picks[k] = deferred[k - a]
        BY <1>1, <4>1
      <4> QED
        BY <2>2, <3>2, <4>2
    <3> QED
      BY <2>1, <3>1, <3>2
  <2>6. \A k, l \in 1..m : Q[k] = Q[l] => k = l
    <3> SUFFICES ASSUME NEW k \in 1..m, NEW l \in 1..m, Q[k] = Q[l] PROVE k = l
      OBVIOUS
    <3>1. CASE k \in 1..a /\ Q[k] = P[k]
      <4>1. CASE l \in 1..a /\ Q[l] = P[l]
        <5>1. P[k] = P[l] /\ k \in 1..a /\ l \in 1..a
          BY <3>1, <4>1
        <5>2. \A i, j \in 1..a : P[i] = P[j] => i = j
          BY <2>2
        <5> QED
          BY <5>1, <5>2
      <4>2. CASE l > a /\ l - a \in 1..b /\ Q[l] = D[l - a]
        BY <2>2, <3>1, <4>2
      <4> QED
        BY <2>1, <4>1, <4>2
    <3>2. CASE k > a /\ k - a \in 1..b /\ Q[k] = D[k - a]
      <4>1. CASE l \in 1..a /\ Q[l] = P[l]
        BY <2>2, <3>2, <4>1
      <4>2. CASE l > a /\ l - a \in 1..b /\ Q[l] = D[l - a]
        <5>1. k - a = l - a
          BY <2>2, <3>2, <4>2
        <5> QED
          BY <5>1
      <4> QED
        BY <2>1, <4>1, <4>2
    <3> QED
      BY <2>1, <3>1, <3>2
  <2>7. Places(picks, ranked, Q, n)
    BY <1>4, <2>4, <2>5, <2>6 DEF Places
  <2> QED
    BY <2>7
<1>9. ASSUME NEW dir, Cardinality(OfAKind(picks, dir)) > 2, NEW j \in 1..n
      PROVE  \/ \E k \in 1..Len(picks) : picks[k] = ranked[j]
             \/ ThirdOfAKind(picks, ranked[j])
  <2>1. a < topN
    <3> SUFFICES ASSUME a >= topN PROVE FALSE
      OBVIOUS
    <3>1. a = m
      BY <1>2, <1>5, <1>7
    <3>2. OfAKind(picks, dir) = OfAKind(top, dir)
      BY <1>4, <1>7, <3>1 DEF OfAKind
    <3>3. Cardinality(OfAKind(top, dir)) <= 2 /\ Cardinality(OfAKind(top, dir)) \in Nat
      BY <1>5, KindIsFinite
    <3> QED
      BY <1>9, <3>2, <3>3
  <2>2. ASSUME NEW k \in 1..Len(top), top[k] = ranked[j]
        PROVE  \E l \in 1..Len(picks) : picks[l] = ranked[j]
    BY <1>2, <1>4, <1>7, <2>2
  <2>3. ASSUME ThirdOfAKind(top, ranked[j]) PROVE ThirdOfAKind(picks, ranked[j])
    <3>1. ranked[j] \in C /\ ranked[j].corr \in BOOLEAN
      BY <1>9 DEF Candidates
    <3>2. Len(top) <= Len(picks) /\ \A k \in 1..Len(top) : picks[k] = top[k]
      BY <1>4, <1>7
    <3>3. Cardinality(OfAKind(top, ranked[j].direction)) <= Cardinality(OfAKind(picks, ranked[j].direction))
      BY <1>4, <3>2, KindGrows
    <3>4. /\ Cardinality(OfAKind(top, ranked[j].direction)) \in Nat
          /\ Cardinality(OfAKind(picks, ranked[j].direction)) \in Nat
      BY <1>4, KindIsFinite
    <3> QED
      BY <2>3, <3>1, <3>3, <3>4, ThirdIs
  <2> QED
    BY <1>5, <2>1, <2>2, <2>3
<1> QED
  BY <1>3, <1>4, <1>6, <1>8, <1>9

-----------------------------------------------------------------------------
(***************************************************************************)
(* The slot of the 4H publication, for any number of requests, any scans   *)
(* and any stops: a step is one of a few effects on the slot (StepIs),     *)
(* and each of them keeps the invariant SlotInv.                           *)
(***************************************************************************)
SB == INSTANCE SlotPublish

\* A record with the fields of a slot; pc, scan and recs are by request
IsSlot(st, R) ==
    /\ st = [batch |-> st.batch, rows |-> st.rows, earlier |-> st.earlier, marker |-> st.marker,
             boosted |-> st.boosted, audit |-> st.audit, post |-> st.post,
             version |-> st.version, pc |-> st.pc, scan |-> st.scan, recs |-> st.recs]
    /\ st.pc = [r \in R |-> st.pc[r]] /\ st.scan = [r \in R |-> st.scan[r]]
    /\ st.recs = [r \in R |-> st.recs[r]]

\* What a step may change besides the step of its request: nothing that the
\* slot's promise is about.
Moves(st, s, r, step) ==
    /\ s.pc = [st.pc EXCEPT ![r] = step] /\ s.earlier = st.earlier
    /\ s.scan = st.scan /\ s.recs = st.recs
SameStore(st, s) == s.batch = st.batch /\ s.rows = st.rows /\ s.marker = st.marker
SamePost(st, s) == s.post = st.post

Goes(st, s, r, step) ==
    /\ Moves(st, s, r, step) /\ SameStore(st, s) /\ SamePost(st, s)
    /\ \/ step \in {"look", "scan", "boost", "freeze", "aside", "over", "failed"}
       \/ step \in {"remark", "mark"} /\ st.batch # {} /\ SB!TheBatch(st).done
       \/ step = "audit" /\ st.pc[r] = "mark"
       \/ step = "resume" /\ st.batch # {}
       \/ step = "claim" /\ st.pc[r] = "check"
Freezes(st, s, r, step) ==
    /\ Moves(st, s, r, step) /\ SamePost(st, s) /\ s.rows = st.rows /\ s.marker = st.marker
    /\ step = "resume" /\ st.batch = {}
    /\ \E p \in st.scan[r] : s.batch = {[payload |-> p, version |-> st.version, done |-> FALSE]}
Completes(st, s, r, step) ==
    /\ Moves(st, s, r, step) /\ SamePost(st, s) /\ s.marker = st.marker
    /\ step \in {"remark", "mark"} /\ st.batch # {} /\ ~SB!TheBatch(st).done
    /\ s.batch = {[SB!TheBatch(st) EXCEPT !.done = TRUE]}
    /\ s.rows = st.rows \union {row \in SB!RowsOf(SB!TheBatch(st).payload) : row \notin st.earlier}
Marks(st, s, r, step) ==
    /\ Moves(st, s, r, step) /\ SamePost(st, s) /\ s.batch = st.batch /\ s.rows = st.rows
    /\ st.pc[r] \in {"remark", "mark"} /\ step = IF st.pc[r] = "mark" THEN "audit" ELSE "over"
    /\ s.marker = {SB!TheBatch(st).payload.watch}
Scans(st, s, r, step, scans) ==
    /\ s.pc = [st.pc EXCEPT ![r] = "gate"] /\ s.earlier = st.earlier /\ s.recs = st.recs
    /\ SameStore(st, s) /\ SamePost(st, s) /\ step = "gate"
    /\ \E p \in scans : s.scan = [st.scan EXCEPT ![r] = {p}]
Reads(st, s, r, step) ==
    /\ s.pc = [st.pc EXCEPT ![r] = step] /\ s.earlier = st.earlier /\ s.scan = st.scan
    /\ SameStore(st, s) /\ SamePost(st, s)
    /\ s.recs = [st.recs EXCEPT ![r] = SB!Visible(st)]
    /\ step \in IF SB!Visible(st) = {} THEN {"over"} ELSE {"check", "pressing"}
Tells(st, s, r, step) ==
    /\ Moves(st, s, r, step) /\ SameStore(st, s)
    /\ \E o \in SB!Outcomes(st, r) : s.post = o[1] /\ step = o[2]

Effect(st, s, r, step, scans) ==
    \/ Goes(st, s, r, step) \/ Freezes(st, s, r, step) \/ Completes(st, s, r, step)
    \/ Marks(st, s, r, step) \/ Scans(st, s, r, step, scans) \/ Reads(st, s, r, step)
    \/ Tells(st, s, r, step)

\* A request's move changes its step alone.
LEMMA GotoIs ==
    ASSUME NEW R, NEW st, IsSlot(st, R), NEW r \in R, NEW step, NEW s, s = SB!Goto(st, r, step)
    PROVE  /\ IsSlot(s, R) /\ s.pc = [st.pc EXCEPT ![r] = step]
           /\ s.batch = st.batch /\ s.rows = st.rows /\ s.earlier = st.earlier /\ s.marker = st.marker
           /\ s.post = st.post /\ s.version = st.version
           /\ s.scan = st.scan /\ s.recs = st.recs
  BY DEF IsSlot, SB!Goto

\* resume writes the whole of an undone batch and marks it done, or nothing.
LEMMA ResumeIs ==
    ASSUME NEW R, NEW st, IsSlot(st, R), NEW r \in R, NEW after \in {"remark", "mark"}, st.batch # {},
           SB!TheBatch(st).done \in BOOLEAN, NEW s \in SB!Resume(st, r, after)
    PROVE  IsSlot(s, R) /\ \E step : Goes(st, s, r, step) \/ Completes(st, s, r, step)
<1> DEFINE b == SB!TheBatch(st)
           written == [st EXCEPT !.rows = @ \union {row \in SB!RowsOf(b.payload) : row \notin st.earlier},
                                 !.batch = {[b EXCEPT !.done = TRUE]}]
<1>1. /\ IsSlot(written, R) /\ written.pc = st.pc /\ written.earlier = st.earlier
      /\ written.marker = st.marker /\ written.post = st.post
      /\ written.scan = st.scan /\ written.recs = st.recs
      /\ written.batch = {[b EXCEPT !.done = TRUE]}
      /\ written.rows = st.rows \union {row \in SB!RowsOf(b.payload) : row \notin st.earlier}
  <2> DEFINE more == st.rows \union {row \in SB!RowsOf(b.payload) : row \notin st.earlier}
             done == {[b EXCEPT !.done = TRUE]}
  <2>1. written = [st EXCEPT !.rows = more, !.batch = done]
    OBVIOUS
  <2> HIDE DEF more, done, written, b
  <2>2. /\ IsSlot(written, R) /\ written.pc = st.pc /\ written.earlier = st.earlier
        /\ written.marker = st.marker /\ written.post = st.post
        /\ written.scan = st.scan /\ written.recs = st.recs
        /\ written.batch = done /\ written.rows = more
    BY <2>1 DEF IsSlot
  <2> QED
    BY <2>2 DEF more, done
<1>2. \/ s = SB!Goto(st, r, "failed")
      \/ b.done /\ s = SB!Goto(st, r, after)
      \/ ~b.done /\ s = SB!Goto(written, r, after)
  BY DEF SB!Resume
<1> HIDE DEF written, b
<1>3. CASE s = SB!Goto(st, r, "failed")
  <2>1. IsSlot(s, R) /\ Goes(st, s, r, "failed")
    BY <1>3, GotoIs DEF Goes, Moves, SameStore, SamePost
  <2> QED
    BY <2>1
<1>4. CASE b.done /\ s = SB!Goto(st, r, after)
  <2>1. IsSlot(s, R) /\ Goes(st, s, r, after)
    BY <1>4, GotoIs DEF Goes, Moves, SameStore, SamePost, b
  <2> QED
    BY <2>1
<1>5. CASE ~b.done /\ s = SB!Goto(written, r, after)
  <2>1. /\ IsSlot(s, R) /\ s.pc = [written.pc EXCEPT ![r] = after]
        /\ s.batch = written.batch /\ s.rows = written.rows /\ s.earlier = written.earlier
        /\ s.marker = written.marker /\ s.post = written.post
        /\ s.scan = written.scan /\ s.recs = written.recs
    BY <1>1, <1>5, GotoIs
  <2>2. Completes(st, s, r, after)
    BY <1>1, <1>5, <2>1 DEF Completes, Moves, SamePost, b
  <2> QED
    BY <2>1, <2>2
<1> QED
  BY <1>2, <1>3, <1>4, <1>5

\* s is the slot st with these values, and its requests where they were.
Holding(s, st, R, batch, filed, marker, post, scan, recs) ==
    /\ IsSlot(s, R) /\ s.pc = st.pc /\ s.earlier = st.earlier
    /\ s.batch = batch /\ s.rows = filed /\ s.marker = marker /\ s.post = post
    /\ s.scan = scan /\ s.recs = recs

\* One assignment to the slot changes nothing else of it.
LEMMA AlsoIs ==
    ASSUME NEW R, NEW st, IsSlot(st, R), NEW x
    PROVE  /\ Holding([st EXCEPT !.batch = x], st, R,
                      x, st.rows, st.marker, st.post, st.scan, st.recs)
           /\ Holding([st EXCEPT !.marker = x], st, R,
                      st.batch, st.rows, x, st.post, st.scan, st.recs)
           /\ Holding([st EXCEPT !.boosted = x], st, R,
                      st.batch, st.rows, st.marker, st.post, st.scan, st.recs)
           /\ Holding([st EXCEPT !.audit = x], st, R,
                      st.batch, st.rows, st.marker, st.post, st.scan, st.recs)
           /\ Holding([st EXCEPT !.post = x], st, R,
                      st.batch, st.rows, st.marker, x, st.scan, st.recs)
           /\ x = [r \in R |-> x[r]] =>
                 /\ Holding([st EXCEPT !.scan = x], st, R,
                            st.batch, st.rows, st.marker, st.post, x, st.recs)
                 /\ Holding([st EXCEPT !.recs = x], st, R,
                            st.batch, st.rows, st.marker, st.post, st.scan, x)
<1>1. Holding([st EXCEPT !.batch = x], st, R,
              x, st.rows, st.marker, st.post, st.scan, st.recs)
  BY DEF IsSlot, Holding
<1>2. Holding([st EXCEPT !.marker = x], st, R,
              st.batch, st.rows, x, st.post, st.scan, st.recs)
  BY DEF IsSlot, Holding
<1>3. Holding([st EXCEPT !.boosted = x], st, R,
              st.batch, st.rows, st.marker, st.post, st.scan, st.recs)
  BY DEF IsSlot, Holding
<1>4. Holding([st EXCEPT !.audit = x], st, R,
              st.batch, st.rows, st.marker, st.post, st.scan, st.recs)
  BY DEF IsSlot, Holding
<1>5. Holding([st EXCEPT !.post = x], st, R,
              st.batch, st.rows, st.marker, x, st.scan, st.recs)
  BY DEF IsSlot, Holding
<1>7. ASSUME x = [r \in R |-> x[r]]
      PROVE  Holding([st EXCEPT !.scan = x], st, R,
                     st.batch, st.rows, st.marker, st.post, x, st.recs)
  BY <1>7 DEF IsSlot, Holding
<1>8. ASSUME x = [r \in R |-> x[r]]
      PROVE  Holding([st EXCEPT !.recs = x], st, R,
                     st.batch, st.rows, st.marker, st.post, st.scan, x)
  BY <1>8 DEF IsSlot, Holding
<1> QED
  BY <1>1, <1>2, <1>3, <1>4, <1>5, <1>7, <1>8

\* And the request moves on.
LEMMA ThenGoto ==
    ASSUME NEW R, NEW st, NEW w, NEW batch, NEW filed, NEW marker, NEW post,
           NEW scan, NEW recs, Holding(w, st, R, batch, filed, marker, post, scan, recs),
           NEW r \in R, NEW step, NEW s, s = SB!Goto(w, r, step)
    PROVE  /\ IsSlot(s, R) /\ s.pc = [st.pc EXCEPT ![r] = step] /\ s.earlier = st.earlier
           /\ s.batch = batch /\ s.rows = filed /\ s.marker = marker /\ s.post = post
           /\ s.scan = scan /\ s.recs = recs
  BY GotoIs DEF Holding

\* What a publisher's step does (api_cron_publish).
LEMMA PublishIs ==
    ASSUME NEW R, NEW scans, NEW st, IsSlot(st, R), NEW r \in R,
           st.batch # {} => SB!TheBatch(st).done \in BOOLEAN,
           NEW s \in SB!Publish(st, r, scans)
    PROVE  IsSlot(s, R) /\ \E step : Effect(st, s, r, step, scans)
<1>1. CASE st.pc[r] = "recover" /\ st.batch = {}
  <2>1. s = SB!Goto(st, r, "look")
    BY <1>1 DEF SB!Publish
  <2>2. IsSlot(s, R) /\ Goes(st, s, r, "look")
    BY <2>1, GotoIs DEF Goes, Moves, SameStore, SamePost
  <2> QED
    BY <2>2 DEF Effect
<1>2. CASE st.pc[r] = "recover" /\ st.batch # {}
  <2>1. s \in SB!Resume(st, r, "remark")
    BY <1>2 DEF SB!Publish
  <2> QED
    BY <1>2, <2>1, ResumeIs DEF Effect
<1>3. CASE st.pc[r] = "remark"
  <2>1. \E w \in {st, [st EXCEPT !.marker = {SB!TheBatch(st).payload.watch}]} : s = SB!Goto(w, r, "over")
    BY <1>3 DEF SB!Publish
  <2>2. CASE s = SB!Goto(st, r, "over")
    <3>1. IsSlot(s, R) /\ Goes(st, s, r, "over")
      BY <2>2, GotoIs DEF Goes, Moves, SameStore, SamePost
    <3> QED
      BY <3>1 DEF Effect
  <2>3. CASE s = SB!Goto([st EXCEPT !.marker = {SB!TheBatch(st).payload.watch}], r, "over")
    <3> PICK x : x = {SB!TheBatch(st).payload.watch}
      OBVIOUS
    <3>1. Holding([st EXCEPT !.marker = x], st, R,
                  st.batch, st.rows, x, st.post, st.scan, st.recs)
      BY AlsoIs
    <3>2. IsSlot(s, R) /\ Marks(st, s, r, "over")
      BY <1>3, <2>3, <3>1, ThenGoto DEF Marks, Moves, SamePost
    <3> QED
      BY <3>2 DEF Effect
  <2> QED
    BY <2>1, <2>2, <2>3
<1>4. CASE st.pc[r] = "look"
  <2>1. PICK step \in {"scan", "over", "failed"} : s = SB!Goto(st, r, step)
    BY <1>4 DEF SB!Publish
  <2>2. IsSlot(s, R) /\ Goes(st, s, r, step)
    BY <2>1, GotoIs DEF Goes, Moves, SameStore, SamePost
  <2> QED
    BY <2>2 DEF Effect
<1>5. CASE st.pc[r] = "scan"
  <2>1. PICK p \in scans : s = SB!Goto([st EXCEPT !.scan[r] = {p}], r, "gate")
    BY <1>5 DEF SB!Publish
  <2> PICK x : x = [st.scan EXCEPT ![r] = {p}]
    OBVIOUS
  <2>2. x = [q \in R |-> x[q]]
    BY DEF IsSlot
  <2>3. Holding([st EXCEPT !.scan = x], st, R,
                st.batch, st.rows, st.marker, st.post, x, st.recs)
    BY <2>2, AlsoIs
  <2>4. [st EXCEPT !.scan[r] = {p}] = [st EXCEPT !.scan = x]
    OBVIOUS
  <2> PICK w : w = [st EXCEPT !.scan = x]
    OBVIOUS
  <2>5. Holding(w, st, R, st.batch, st.rows, st.marker, st.post, x, st.recs)
        /\ s = SB!Goto(w, r, "gate")
    BY <2>1, <2>3, <2>4
  <2>6. /\ IsSlot(s, R) /\ s.pc = [st.pc EXCEPT ![r] = "gate"] /\ s.earlier = st.earlier
        /\ s.batch = st.batch /\ s.rows = st.rows /\ s.marker = st.marker /\ s.post = st.post /\ s.scan = x /\ s.recs = st.recs
    BY <2>5, ThenGoto
  <2>7. IsSlot(s, R) /\ Scans(st, s, r, "gate", scans)
    BY <2>6 DEF Scans, SameStore, SamePost
  <2> QED
    BY <2>7 DEF Effect
<1>6. st.pc[r] \in {"recover", "remark", "look", "scan"}
  BY DEF SB!Publish
<1> QED
  BY <1>1, <1>2, <1>3, <1>4, <1>5, <1>6

\* A step that leaves the slot as it is but for the notes kept beside it.
LEMMA NoteIs ==
    ASSUME NEW R, NEW scans, NEW st, IsSlot(st, R), NEW r \in R, NEW w,
           Holding(w, st, R, st.batch, st.rows, st.marker, st.post, st.scan, st.recs),
           NEW step \in {"look", "scan", "boost", "freeze", "aside", "over", "failed"},
           NEW s, s = SB!Goto(w, r, step)
    PROVE  IsSlot(s, R) /\ \E to : Effect(st, s, r, to, scans)
<1>1. /\ IsSlot(s, R) /\ s.pc = [st.pc EXCEPT ![r] = step] /\ s.earlier = st.earlier
      /\ s.batch = st.batch /\ s.rows = st.rows /\ s.marker = st.marker /\ s.post = st.post /\ s.scan = st.scan /\ s.recs = st.recs
  BY ThenGoto
<1>2. Goes(st, s, r, step)
  BY <1>1 DEF Goes, Moves, SameStore, SamePost
<1> QED
  BY <1>1, <1>2 DEF Effect

\* What a step of the scan's recording does (_compute_recommendations).
LEMMA RecordIs ==
    ASSUME NEW R, NEW scans, NEW st, IsSlot(st, R), NEW r \in R,
           st.batch # {} => SB!TheBatch(st).done \in BOOLEAN,
           st.pc[r] = "resume" => st.batch # {}, NEW s \in SB!Record(st, r)
    PROVE  IsSlot(s, R) /\ \E step : Effect(st, s, r, step, scans)
<1>0. st.scan[r] # {}
  BY DEF SB!Record
<1> DEFINE own == CHOOSE p \in st.scan[r] : TRUE
<1>1. own \in st.scan[r]
  BY <1>0
<1>2. Holding(st, st, R, st.batch, st.rows, st.marker, st.post, st.scan, st.recs)
  BY DEF Holding
<1>3. CASE st.pc[r] = "gate"
  <2>1. \E step \in {"boost", "aside"} : s = SB!Goto(st, r, step)
    BY <1>0, <1>3 DEF SB!Record
  <2> QED
    BY <1>2, <2>1, NoteIs
<1>4. CASE st.pc[r] = "boost"
  <2>1. \/ s = SB!Goto(st, r, "freeze")
        \/ s = SB!Goto([st EXCEPT !.boosted = own.boosted], r, "freeze")
    BY <1>0, <1>4 DEF SB!Record
  <2> HIDE DEF own
  <2>2. \A x : Holding([st EXCEPT !.boosted = x], st, R,
                       st.batch, st.rows, st.marker, st.post, st.scan, st.recs)
    BY AlsoIs
  <2>3. PICK w : /\ Holding(w, st, R, st.batch, st.rows, st.marker, st.post, st.scan, st.recs)
                 /\ s = SB!Goto(w, r, "freeze")
    BY <1>2, <2>1, <2>2
  <2> QED
    BY <2>3, NoteIs
<1>5. CASE st.pc[r] = "freeze"
  <2>1. s = SB!Goto(SB!Freeze(st, r), r, "resume") \/ s = SB!Goto(st, r, "failed")
    BY <1>0, <1>5 DEF SB!Record
  <2>2. CASE s = SB!Goto(SB!Freeze(st, r), r, "resume") /\ st.batch = {}
    <3> PICK x : x = {[payload |-> own, version |-> st.version, done |-> FALSE]}
      OBVIOUS
    <3> PICK w : w = [st EXCEPT !.batch = x]
      OBVIOUS
    <3>1. SB!Freeze(st, r) = w
      BY <2>2 DEF SB!Freeze
    <3>2. s = SB!Goto(w, r, "resume")
      BY <2>2, <3>1
    <3> HIDE DEF own
    <3>3. Holding(w, st, R, x, st.rows, st.marker, st.post, st.scan, st.recs)
      BY AlsoIs
    <3>4. /\ IsSlot(s, R) /\ s.pc = [st.pc EXCEPT ![r] = "resume"] /\ s.earlier = st.earlier
          /\ s.batch = x /\ s.rows = st.rows /\ s.marker = st.marker /\ s.post = st.post /\ s.scan = st.scan /\ s.recs = st.recs
      BY <3>2, <3>3, ThenGoto
    <3>5. Freezes(st, s, r, "resume")
      BY <1>1, <2>2, <3>4 DEF Freezes, Moves, SamePost
    <3> QED
      BY <3>4, <3>5 DEF Effect
  <2>3. CASE s = SB!Goto(SB!Freeze(st, r), r, "resume") /\ st.batch # {}
    <3>1. SB!Freeze(st, r) = st
      BY <2>3 DEF SB!Freeze
    <3>2. IsSlot(s, R) /\ Goes(st, s, r, "resume")
      BY <2>3, <3>1, GotoIs DEF Goes, Moves, SameStore, SamePost
    <3> QED
      BY <3>2 DEF Effect
  <2>4. CASE s = SB!Goto(st, r, "failed")
    BY <1>2, <2>4, NoteIs
  <2> QED
    BY <2>1, <2>2, <2>3, <2>4
<1>6. CASE st.pc[r] = "resume"
  <2>1. s \in SB!Resume(st, r, "mark")
    BY <1>0, <1>6 DEF SB!Record
  <2> QED
    BY <1>6, <2>1, ResumeIs DEF Effect
<1>7. CASE st.pc[r] = "mark"
  <2> PICK x : x = {SB!TheBatch(st).payload.watch}
    OBVIOUS
  <2>1. s = SB!Goto(st, r, "audit") \/ s = SB!Goto([st EXCEPT !.marker = x], r, "audit")
    BY <1>0, <1>7 DEF SB!Record
  <2>2. CASE s = SB!Goto(st, r, "audit")
    <3>1. IsSlot(s, R) /\ Goes(st, s, r, "audit")
      BY <1>7, <2>2, GotoIs DEF Goes, Moves, SameStore, SamePost
    <3> QED
      BY <3>1 DEF Effect
  <2>3. CASE s = SB!Goto([st EXCEPT !.marker = x], r, "audit")
    <3> PICK w : w = [st EXCEPT !.marker = x]
      OBVIOUS
    <3>1. Holding(w, st, R, st.batch, st.rows, x, st.post, st.scan, st.recs)
      BY AlsoIs
    <3>2. /\ IsSlot(s, R) /\ s.pc = [st.pc EXCEPT ![r] = "audit"] /\ s.earlier = st.earlier
          /\ s.batch = st.batch /\ s.rows = st.rows /\ s.marker = x /\ s.post = st.post /\ s.scan = st.scan /\ s.recs = st.recs
      BY <2>3, <3>1, ThenGoto
    <3>3. Marks(st, s, r, "audit")
      BY <1>7, <3>2 DEF Marks, Moves, SamePost
    <3> QED
      BY <3>2, <3>3 DEF Effect
  <2> QED
    BY <2>1, <2>2, <2>3
<1>8. CASE st.pc[r] \in {"aside", "audit"}
  <2>1. \E chosen : s = SB!Goto(st, r, "over") \/ s = SB!Goto(SB!Audited(st, own, chosen), r, "over")
    BY <1>0, <1>8 DEF SB!Record
  <2> HIDE DEF own
  <2>2. \A chosen : \E x : SB!Audited(st, own, chosen) = [st EXCEPT !.audit = x]
    BY DEF SB!Audited
  <2>3. \A x : Holding([st EXCEPT !.audit = x], st, R,
                       st.batch, st.rows, st.marker, st.post, st.scan, st.recs)
    BY AlsoIs
  <2>4. PICK w : /\ Holding(w, st, R, st.batch, st.rows, st.marker, st.post, st.scan, st.recs)
                 /\ s = SB!Goto(w, r, "over")
    BY <1>2, <2>1, <2>2, <2>3
  <2> QED
    BY <2>4, NoteIs
<1>9. st.pc[r] \in {"gate", "boost", "freeze", "resume", "mark", "aside", "audit"}
  BY <1>0 DEF SB!Record
<1> QED
  BY <1>3, <1>4, <1>5, <1>6, <1>7, <1>8, <1>9

\* What a notifier's step does (_notify_persisted_slot with
\* _dispatch_once, api_telegram_send).
LEMMA NotifyIs ==
    ASSUME NEW R, NEW scans, NEW st, IsSlot(st, R), NEW r \in R, NEW s \in SB!Notify(st, r)
    PROVE  IsSlot(s, R) /\ \E step : Effect(st, s, r, step, scans)
<1>1. Holding(st, st, R, st.batch, st.rows, st.marker, st.post, st.scan, st.recs)
  BY DEF Holding
<1>2. CASE s = SB!Goto(st, r, "failed") \/ s = SB!Goto(st, r, "over")
  BY <1>1, <1>2, NoteIs
<1>3. CASE st.pc[r] \in {"read", "press"} /\ s # SB!Goto(st, r, "failed")
  <2> PICK seen : seen = SB!Visible(st)
    OBVIOUS
  <2> PICK step : step = IF seen = {} THEN "over" ELSE IF st.pc[r] = "read" THEN "check" ELSE "pressing"
    OBVIOUS
  <2> PICK x : x = [st.recs EXCEPT ![r] = seen]
    OBVIOUS
  <2> PICK w : w = [st EXCEPT !.recs = x]
    OBVIOUS
  <2>1. s = SB!Goto([st EXCEPT !.recs[r] = seen], r, step)
    BY <1>3 DEF SB!Notify
  <2>2. [st EXCEPT !.recs[r] = seen] = w
    OBVIOUS
  <2>3. s = SB!Goto(w, r, step)
    BY <2>1, <2>2
  <2>4. x = [q \in R |-> x[q]]
    BY DEF IsSlot
  <2>5. Holding(w, st, R, st.batch, st.rows, st.marker, st.post, st.scan, x)
    BY <2>4, AlsoIs
  <2>6. /\ IsSlot(s, R) /\ s.pc = [st.pc EXCEPT ![r] = step] /\ s.earlier = st.earlier
        /\ s.batch = st.batch /\ s.rows = st.rows /\ s.marker = st.marker /\ s.post = st.post /\ s.scan = st.scan /\ s.recs = x
    BY <2>3, <2>5, ThenGoto
  <2>7. Reads(st, s, r, step)
    BY <2>6 DEF Reads, SameStore, SamePost
  <2> QED
    BY <2>6, <2>7 DEF Effect
<1>4. CASE st.pc[r] = "check" /\ s = SB!Goto(st, r, "claim")
  <2>1. IsSlot(s, R) /\ Goes(st, s, r, "claim")
    BY <1>4, GotoIs DEF Goes, Moves, SameStore, SamePost
  <2> QED
    BY <2>1 DEF Effect
<1>5. CASE \E o \in SB!Outcomes(st, r) : s = SB!Goto([st EXCEPT !.post = o[1]], r, o[2])
  <2> PICK o \in SB!Outcomes(st, r) : s = SB!Goto([st EXCEPT !.post = o[1]], r, o[2])
    BY <1>5
  <2>1. PICK x, step : x = o[1] /\ step = o[2]
    OBVIOUS
  <2>2. PICK w : Holding(w, st, R, st.batch, st.rows, st.marker, x, st.scan, st.recs) /\ s = SB!Goto(w, r, step)
    BY <2>1, AlsoIs
  <2>3. /\ IsSlot(s, R) /\ s.pc = [st.pc EXCEPT ![r] = step] /\ s.earlier = st.earlier
        /\ s.batch = st.batch /\ s.rows = st.rows /\ s.marker = st.marker /\ s.post = x
        /\ s.scan = st.scan /\ s.recs = st.recs
    BY <2>2, ThenGoto
  <2>4. Tells(st, s, r, step)
    BY <2>1, <2>3 DEF Tells, Moves, SameStore
  <2> QED
    BY <2>3, <2>4 DEF Effect
<1>6. \/ st.pc[r] \in {"read", "press"}
      \/ st.pc[r] = "check" /\ s = SB!Goto(st, r, "claim")
      \/ \E o \in SB!Outcomes(st, r) : s = SB!Goto([st EXCEPT !.post = o[1]], r, o[2])
      \/ s = SB!Goto(st, r, "failed") \/ s = SB!Goto(st, r, "over")
  BY DEF SB!Notify
<1> QED
  BY <1>2, <1>3, <1>4, <1>5, <1>6

\* Between the steps of the requests a request that has ended may be made again,
\* and another version may be deployed.
Between(st, s) ==
    \/ \E v \in Nat : s = [st EXCEPT !.version = v]
    \/ \E r \in DOMAIN st.pc : \E step \in {"recover", "read", "press"} :
          /\ SB!Halted(st.pc[r])
          /\ s = [SB!Goto(st, r, step) EXCEPT !.scan[r] = {}, !.recs[r] = {}]
SlotNext(st, s, scans) == s \in SB!SlotSteps(st, scans) \/ Between(st, s)

\* the rows a scan leaves: those the slot before has not recorded
Leaves(p, earlier) == {row \in SB!RowsOf(p) : row \notin earlier}
\* a batch, and the steps that come only after it is done, and those of a
\* notifier that holds what it read
Frozen(p, v, d) == [payload |-> p, version |-> v, done |-> d]
AfterDone == {"remark", "mark", "audit"}
Notifying == {"check", "claim", "send", "pressing"}

\* The slot before its batch is written: nothing is visible.
Unwritten(st, R) ==
    /\ st.rows = {} /\ st.marker = {}
    /\ \A r \in R : st.pc[r] \notin AfterDone
\* and what is so of its batch
WholeBatch(st, R, scans, earlier) ==
    \/ st.batch = {} /\ Unwritten(st, R) /\ \A r \in R : st.pc[r] # "resume"
    \/ \E p \in scans : \E v : st.batch = {Frozen(p, v, FALSE)} /\ Unwritten(st, R)
    \/ \E p \in scans : \E v :
          /\ st.batch = {Frozen(p, v, TRUE)} /\ st.rows = Leaves(p, earlier)
          /\ st.marker \subseteq {p.watch}

\* The post's record, when all that was sent is V; and how many more may be sent
\* than have been excused: one when the key is free.
PostOf(V) == [claimed : BOOLEAN, sent : Seq({V}), excused : Nat]
Owed(post) == Len(post.sent) + (IF post.claimed THEN 0 ELSE 1) - post.excused
\* the requests that hold the key
Senders(st, R) == {r \in R : st.pc[r] = "send"}

\* The post: what is sent is all that is visible, whoever is on the way to it holds
\* just that, and a free key or a request about to send is allowed for.
PostWhole(st, R) ==
    /\ st.post \in PostOf(SB!Visible(st)) /\ (st.post.sent # <<>> => SB!Visible(st) # {})
    /\ Owed(st.post) + Cardinality(Senders(st, R)) <= 1
    /\ \A r \in R : st.pc[r] \in Notifying => st.recs[r] # {} /\ st.recs[r] = SB!Visible(st)

\* The invariant of the slot.
SlotInv(st, R, scans, earlier) ==
    /\ IsFiniteSet(R) /\ IsSlot(st, R) /\ st.earlier = earlier /\ \A r \in R : st.scan[r] \subseteq scans
    /\ WholeBatch(st, R, scans, earlier) /\ PostWhole(st, R)

\* The one batch of a slot.
LEMMA TheBatchIs ==
    ASSUME NEW st, NEW p, NEW v, NEW d, st.batch = {Frozen(p, v, d)}
    PROVE  /\ SB!TheBatch(st) = Frozen(p, v, d) /\ SB!TheBatch(st).payload = p
           /\ SB!TheBatch(st).done = d /\ SB!TheBatch(st).version = v /\ st.batch # {}
  BY DEF SB!TheBatch, Frozen

\* Of one that is done,
LEMMA WrittenIs ==
    ASSUME NEW st, NEW p, NEW v, st.batch = {Frozen(p, v, TRUE)}
    PROVE  SB!TheBatch(st).payload = p /\ SB!TheBatch(st).done /\ st.batch # {}
<1>1. SB!TheBatch(st) = Frozen(p, v, TRUE)
  BY DEF SB!TheBatch
<1>2. Frozen(p, v, TRUE).payload = p
  BY DEF Frozen
<1>3. Frozen(p, v, TRUE).done
  BY DEF Frozen
<1> QED
  BY <1>1, <1>2, <1>3

\* and of one that is not.
LEMMA UnwrittenIs ==
    ASSUME NEW st, NEW p, NEW v, st.batch = {Frozen(p, v, FALSE)}
    PROVE  /\ SB!TheBatch(st) = Frozen(p, v, FALSE) /\ SB!TheBatch(st).payload = p
           /\ ~SB!TheBatch(st).done
  BY DEF SB!TheBatch, Frozen

\* A step is one of the effects.
LEMMA StepIs ==
    ASSUME NEW R, NEW scans, NEW earlier, NEW st, SlotInv(st, R, scans, earlier),
           NEW s \in SB!SlotSteps(st, scans)
    PROVE  IsSlot(s, R) /\ \E r \in R : \E step : Effect(st, s, r, step, scans)
<1>1. DOMAIN st.pc = R /\ IsSlot(st, R)
  BY DEF SlotInv, IsSlot
<1>2. st.batch # {} => SB!TheBatch(st).done \in BOOLEAN
  <2>1. ASSUME st.batch # {} PROVE \E p, v : \E d \in BOOLEAN : st.batch = {Frozen(p, v, d)}
    BY <2>1 DEF SlotInv, WholeBatch
  <2>2. ASSUME NEW p, NEW v, NEW d \in BOOLEAN, st.batch = {Frozen(p, v, d)}
        PROVE  SB!TheBatch(st).done \in BOOLEAN
    <3>1. SB!TheBatch(st).done = d
      BY <2>2, TheBatchIs
    <3> QED
      BY <3>1
  <2> QED
    BY <2>1, <2>2
<1>3. \A r \in R : st.pc[r] = "resume" => st.batch # {}
  BY DEF SlotInv, WholeBatch
<1>4. PICK r \in R : \/ s \in SB!Publish(st, r, scans) \/ s \in SB!Record(st, r)
                      \/ s \in SB!Notify(st, r) \/ s = SB!Goto(st, r, "failed")
  BY <1>1 DEF SB!SlotSteps
<1>5. CASE s \in SB!Publish(st, r, scans)
  BY <1>1, <1>2, <1>5, PublishIs
<1>6. CASE s \in SB!Record(st, r)
  BY <1>1, <1>2, <1>3, <1>6, RecordIs
<1>7. CASE s \in SB!Notify(st, r)
  BY <1>1, <1>7, NotifyIs
<1>8. CASE s = SB!Goto(st, r, "failed")
  <2>1. Holding(st, st, R, st.batch, st.rows, st.marker, st.post, st.scan, st.recs)
    BY <1>1 DEF Holding
  <2> QED
    BY <1>1, <1>8, <2>1, NoteIs
<1> QED
  BY <1>4, <1>5, <1>6, <1>7, <1>8

\* A step that leaves the batch and what is written keeps the promise, if it goes
\* on only where that is allowed.
LEMMA WholeStays ==
    ASSUME NEW R, NEW scans, NEW earlier, NEW st, IsSlot(st, R), WholeBatch(st, R, scans, earlier),
           NEW s, SameStore(st, s), NEW r \in R, NEW step, s.pc = [st.pc EXCEPT ![r] = step],
           step \in AfterDone => st.batch # {} /\ SB!TheBatch(st).done,
           step = "resume" => st.batch # {}
    PROVE  WholeBatch(s, R, scans, earlier)
<1>1. \A q \in R : s.pc[q] = IF q = r THEN step ELSE st.pc[q]
  BY DEF IsSlot
<1>2. s.batch = st.batch /\ s.rows = st.rows /\ s.marker = st.marker
  BY DEF SameStore
<1>3. CASE st.batch = {} /\ Unwritten(st, R) /\ \A q \in R : st.pc[q] # "resume"
  BY <1>1, <1>2, <1>3 DEF WholeBatch, Unwritten
<1>4. CASE \E p \in scans : \E v : st.batch = {Frozen(p, v, FALSE)} /\ Unwritten(st, R)
  <2>1. PICK p, v : p \in scans /\ st.batch = {Frozen(p, v, FALSE)} /\ Unwritten(st, R)
    BY <1>4
  <2>2. step \notin AfterDone
    <3>1. ~SB!TheBatch(st).done
      BY <2>1, UnwrittenIs
    <3> QED
      BY <3>1
  <2>3. Unwritten(s, R)
    BY <1>1, <1>2, <2>1, <2>2 DEF Unwritten
  <2> QED
    BY <1>2, <2>1, <2>3 DEF WholeBatch
<1>5. CASE \E p \in scans : \E v :
              /\ st.batch = {Frozen(p, v, TRUE)} /\ st.rows = Leaves(p, earlier)
              /\ st.marker \subseteq {p.watch}
  BY <1>2, <1>5 DEF WholeBatch
<1> QED
  BY <1>3, <1>4, <1>5 DEF WholeBatch

\* The parts of a post, and what it allows for.
LEMMA PostIs ==
    ASSUME NEW V, NEW p \in PostOf(V)
    PROVE  /\ p = [claimed |-> p.claimed, sent |-> p.sent, excused |-> p.excused]
           /\ p.claimed \in BOOLEAN /\ p.sent \in Seq({V}) /\ p.excused \in Nat
           /\ Len(p.sent) \in Nat /\ Owed(p) \in Int
<1>1. p.claimed \in BOOLEAN /\ p.sent \in Seq({V}) /\ p.excused \in Nat
  BY DEF PostOf
<1>2. p = [claimed |-> p.claimed, sent |-> p.sent, excused |-> p.excused]
  BY DEF PostOf
<1>3. Len(p.sent) \in Nat
  BY <1>1
<1>4. (IF p.claimed THEN 0 ELSE 1) \in 0..1
  OBVIOUS
<1>5. Owed(p) \in Int
  BY <1>1, <1>3, <1>4 DEF Owed
<1> QED
  BY <1>1, <1>2, <1>3, <1>5

\* What a post owes when its key is taken, or changes hands in any way.
LEMMA ClaimIs ==
    ASSUME NEW V, NEW p \in PostOf(V), NEW c \in BOOLEAN
    PROVE  /\ [p EXCEPT !.claimed = c] \in PostOf(V) /\ [p EXCEPT !.claimed = c].sent = p.sent
           /\ Owed([p EXCEPT !.claimed = c]) <= Owed(p) + 1
           /\ c = p.claimed \/ c => Owed([p EXCEPT !.claimed = c]) <= Owed(p)
           /\ c /\ ~p.claimed => Owed([p EXCEPT !.claimed = c]) = Owed(p) - 1
<1> PICK q : q = [p EXCEPT !.claimed = c]
  OBVIOUS
<1>0. p = [claimed |-> p.claimed, sent |-> p.sent, excused |-> p.excused]
  BY PostIs
<1>1. q = [claimed |-> c, sent |-> p.sent, excused |-> p.excused]
  BY <1>0
<1>2. q \in PostOf(V) /\ q.sent = p.sent /\ q.excused = p.excused /\ q.claimed = c
  BY <1>1, PostIs DEF PostOf
<1> PICK l, x : l = Len(p.sent) /\ x = p.excused
  OBVIOUS
<1> PICK f : f = IF p.claimed THEN 0 ELSE 1
  OBVIOUS
<1> PICK g : g = IF c THEN 0 ELSE 1
  OBVIOUS
<1>3. l \in Nat /\ x \in Nat /\ Owed(p) = l + f - x /\ Owed(q) = l + g - x
  BY <1>2, PostIs DEF Owed
<1>4. f \in 0..1 /\ g \in 0..1
  OBVIOUS
<1>5. (c = p.claimed \/ c => g <= f) /\ (c /\ ~p.claimed => g = 0 /\ f = 1)
  OBVIOUS
<1>6. Owed(q) <= Owed(p) + 1 /\ (g <= f => Owed(q) <= Owed(p)) /\ (g = 0 /\ f = 1 => Owed(q) = Owed(p) - 1)
  BY <1>3, <1>4
<1> QED
  BY <1>2, <1>5, <1>6

\* What a claim, a send and a press may leave of the post.
LEMMA OutcomeIs ==
    ASSUME NEW V, NEW post \in PostOf(V)
    PROVE  /\ \A o \in SB!Claiming(post) :
                  /\ o[1] \in PostOf(V) /\ o[2] \in {"over", "send"} /\ o[1].sent = post.sent
                  /\ Owed(o[1]) + (IF o[2] = "send" THEN 1 ELSE 0) <= Owed(post)
           /\ \A o \in SB!Sending(post, V) :
                  o[1] \in PostOf(V) /\ o[2] \in {"over", "failed"} /\ Owed(o[1]) <= Owed(post) + 1
           /\ \A o \in SB!Pressing(post, V) :
                  o[1] \in PostOf(V) /\ o[2] \in {"over", "failed"} /\ Owed(o[1]) <= Owed(post)
<1>1. ASSUME NEW p \in PostOf(V)
      PROVE  /\ SB!Told(p, V) \in PostOf(V) /\ Owed(SB!Told(p, V)) = Owed(p) + 1
             /\ SB!Excused(p) \in PostOf(V) /\ Owed(SB!Excused(p)) = Owed(p) - 1
             /\ SB!Excused(p).sent = p.sent /\ Owed(p) \in Int
  <2> PICK m, k : m = Append(p.sent, V) /\ k = p.excused + 1
    OBVIOUS
  <2>1. m \in Seq({V}) /\ Len(m) = Len(p.sent) + 1 /\ k \in Nat
    BY PostIs
  <2>0. p = [claimed |-> p.claimed, sent |-> p.sent, excused |-> p.excused]
    BY PostIs
  <2>2. SB!Told(p, V) = [claimed |-> p.claimed, sent |-> m, excused |-> p.excused]
    <3>1. SB!Told(p, V) = [p EXCEPT !.sent = m]
      BY DEF SB!Told
    <3> HIDE DEF SB!Told
    <3> QED
      BY <2>0, <3>1
  <2>3. SB!Excused(p) = [claimed |-> p.claimed, sent |-> p.sent, excused |-> k]
    BY <2>0 DEF SB!Excused
  <2>8. SB!Excused(p).sent = p.sent
    BY <2>3
  <2>9. Owed(p) \in Int
    BY PostIs
  <2>4. SB!Told(p, V) \in PostOf(V) /\ SB!Excused(p) \in PostOf(V)
    BY <2>1, <2>2, <2>3, PostIs DEF PostOf
  <2> PICK f : f = IF p.claimed THEN 0 ELSE 1
    OBVIOUS
  <2>5. f \in 0..1
    OBVIOUS
  <2>6. /\ Owed(p) = Len(p.sent) + f - p.excused /\ Owed(SB!Told(p, V)) = Len(m) + f - p.excused
        /\ Owed(SB!Excused(p)) = Len(p.sent) + f - k
    BY <2>2, <2>3 DEF Owed
  <2>7. /\ Owed(SB!Told(p, V)) = Owed(p) + 1 /\ Owed(SB!Excused(p)) = Owed(p) - 1
    <3>1. Len(p.sent) \in Nat /\ p.excused \in Nat
      BY PostIs
    <3> HIDE DEF Owed
    <3> QED
      BY <2>1, <2>5, <2>6, <3>1
  <2> QED
    BY <2>4, <2>7, <2>8, <2>9
<1>2. ASSUME NEW p \in PostOf(V)
      PROVE  /\ \A q \in SB!MaybeClaimed(p) : q \in PostOf(V) /\ q.sent = p.sent /\ Owed(q) <= Owed(p)
             /\ \A q \in SB!MaybeReleased(p) : q \in PostOf(V) /\ Owed(q) <= Owed(p) + 1
  <2>1. p.claimed \in BOOLEAN
    BY PostIs
  <2>2. ASSUME NEW q \in SB!MaybeClaimed(p) PROVE q \in PostOf(V) /\ q.sent = p.sent /\ Owed(q) <= Owed(p)
    <3>1. PICK c \in {p.claimed, TRUE} : q = [p EXCEPT !.claimed = c]
      BY <2>2 DEF SB!MaybeClaimed
    <3>2. c \in BOOLEAN /\ (c = p.claimed \/ c)
      BY <2>1
    <3> QED
      BY <3>1, <3>2, ClaimIs
  <2>3. ASSUME NEW q \in SB!MaybeReleased(p) PROVE q \in PostOf(V) /\ Owed(q) <= Owed(p) + 1
    <3>1. PICK c \in {p.claimed, FALSE} : q = [p EXCEPT !.claimed = c]
      BY <2>3 DEF SB!MaybeReleased
    <3>2. c \in BOOLEAN
      BY <2>1
    <3> QED
      BY <3>1, <3>2, ClaimIs
  <2> QED
    BY <2>2, <2>3
<1>3. ASSUME NEW o \in SB!Claiming(post)
      PROVE  /\ o[1] \in PostOf(V) /\ o[2] \in {"over", "send"} /\ o[1].sent = post.sent
             /\ Owed(o[1]) + (IF o[2] = "send" THEN 1 ELSE 0) <= Owed(post)
  <2>0. Owed(post) \in Int
    BY PostIs
  <2>1. CASE o = <<[post EXCEPT !.claimed = TRUE], IF post.claimed THEN "over" ELSE "send">>
    <3> PICK x : x = [post EXCEPT !.claimed = TRUE]
      OBVIOUS
    <3>1. x \in PostOf(V) /\ x.sent = post.sent /\ Owed(x) <= Owed(post)
      BY ClaimIs
    <3>4. Owed(x) \in Int
      BY <3>1, PostIs
    <3>2. CASE post.claimed
      <4>1. o = <<x, "over">>
        BY <2>1, <3>2
      <4>2. o[1] = x /\ o[2] = "over"
        BY <4>1
      <4>3. Owed(x) + 0 <= Owed(post)
        BY <2>0, <3>1, <3>4
      <4> QED
        BY <3>1, <4>2, <4>3
    <3>3. CASE ~post.claimed
      <4>1. Owed(x) = Owed(post) - 1
        BY <3>3, ClaimIs
      <4>2. o = <<x, "send">>
        BY <2>1, <3>3
      <4>3. o[1] = x /\ o[2] = "send"
        BY <4>2
      <4>4. Owed(x) + 1 <= Owed(post)
        BY <2>0, <3>4, <4>1
      <4> QED
        BY <3>1, <4>3, <4>4
    <3> QED
      BY <3>2, <3>3
  <2>2. CASE \E p \in SB!MaybeClaimed(post) : o = <<p, "over">>
    BY <1>1, <1>2, <2>2
  <2>3. CASE \E p \in SB!MaybeClaimed(post) : o = <<SB!Excused(p), "send">>
    BY <1>1, <1>2, <2>3
  <2> QED
    BY <2>1, <2>2, <2>3 DEF SB!Claiming
<1>4. ASSUME NEW o \in SB!Sending(post, V)
      PROVE  o[1] \in PostOf(V) /\ o[2] \in {"over", "failed"} /\ Owed(o[1]) <= Owed(post) + 1
  <2>1. CASE o = <<SB!Told(post, V), "over">>
    BY <1>1, <2>1
  <2>2. CASE \E p \in SB!MaybeReleased(post) : o = <<p, "failed">>
    BY <1>2, <2>2
  <2>3. CASE \E p \in SB!MaybeReleased(SB!Excused(SB!Told(post, V))) : o = <<p, "failed">>
    <3> PICK x : x = SB!Excused(SB!Told(post, V))
      OBVIOUS
    <3>1. x \in PostOf(V) /\ Owed(x) = Owed(post)
      BY <1>1
    <3>2. PICK p \in SB!MaybeReleased(x) : o = <<p, "failed">>
      BY <2>3
    <3> QED
      BY <1>2, <3>1, <3>2
  <2> QED
    BY <2>1, <2>2, <2>3 DEF SB!Sending
<1>5. ASSUME NEW o \in SB!Pressing(post, V)
      PROVE  o[1] \in PostOf(V) /\ o[2] \in {"over", "failed"} /\ Owed(o[1]) <= Owed(post)
  <2> PICK x : x = SB!Excused(SB!Told(post, V))
    OBVIOUS
  <2>1. x \in PostOf(V) /\ Owed(x) = Owed(post) /\ Owed(post) \in Int
    BY <1>1
  <2>2. CASE \E p \in SB!MaybeClaimed(x) : o = <<p, "over">>
    BY <1>1, <1>2, <2>1, <2>2
  <2>3. CASE o = <<post, "failed">> \/ o = <<x, "failed">>
    BY <2>1, <2>3
  <2> QED
    BY <2>2, <2>3 DEF SB!Pressing
<1> QED
  BY <1>3, <1>4, <1>5

\* Who is about to send, after one request has moved.
LEMMA SendersAre ==
    ASSUME NEW R, IsFiniteSet(R), NEW st, IsSlot(st, R), NEW s, NEW r \in R, NEW step,
           s.pc = [st.pc EXCEPT ![r] = step]
    PROVE  /\ Cardinality(Senders(st, R)) \in Nat
           /\ Cardinality(Senders(s, R)) = Cardinality(Senders(st, R))
                  - (IF st.pc[r] = "send" THEN 1 ELSE 0) + (IF step = "send" THEN 1 ELSE 0)
<1>1. \A q \in R : s.pc[q] = IF q = r THEN step ELSE st.pc[q]
  BY DEF IsSlot
<1>2. Senders(s, R) = (Senders(st, R) \ {r}) \union (IF step = "send" THEN {r} ELSE {})
  BY <1>1 DEF Senders
<1>3. IsFiniteSet(Senders(st, R)) /\ (r \in Senders(st, R) <=> st.pc[r] = "send")
  BY FS_Subset DEF Senders
<1> DEFINE rest == Senders(st, R) \ {r}
<1>4. /\ IsFiniteSet(rest) /\ Cardinality(rest) \in Nat /\ Cardinality(Senders(st, R)) \in Nat
      /\ Cardinality(rest) = Cardinality(Senders(st, R)) - (IF st.pc[r] = "send" THEN 1 ELSE 0)
  <2>1. IsFiniteSet(rest) /\ Cardinality(rest) \in Nat /\ Cardinality(Senders(st, R)) \in Nat
    BY <1>3, FS_Subset, FS_CardinalityType
  <2>2. CASE r \in Senders(st, R)
    BY <1>3, <2>1, <2>2, FS_RemoveElement
  <2>3. CASE r \notin Senders(st, R)
    <3>1. rest = Senders(st, R)
      BY <2>3
    <3> HIDE DEF rest
    <3> QED
      BY <1>3, <2>1, <2>3, <3>1
  <2> QED
    BY <2>2, <2>3
<1>5. r \notin rest /\ (step = "send" => Senders(s, R) = rest \union {r}) /\ (step # "send" => Senders(s, R) = rest)
  BY <1>2
<1> HIDE DEF rest
<1>6. step = "send" => Cardinality(Senders(s, R)) = Cardinality(rest) + 1
  BY <1>4, <1>5, FS_AddElement
<1> QED
  BY <1>4, <1>5, <1>6

\* A request that goes elsewhere than to send leaves no more senders.
LEMMA FewerSenders ==
    ASSUME NEW R, IsFiniteSet(R), NEW st, IsSlot(st, R), NEW s, NEW r \in R, NEW step,
           s.pc = [st.pc EXCEPT ![r] = step], step # "send"
    PROVE  /\ Cardinality(Senders(s, R)) \in Int /\ Cardinality(Senders(st, R)) \in Nat
           /\ Cardinality(Senders(s, R)) <= Cardinality(Senders(st, R))
<1>1. /\ Cardinality(Senders(st, R)) \in Nat
      /\ Cardinality(Senders(s, R)) = Cardinality(Senders(st, R))
             - (IF st.pc[r] = "send" THEN 1 ELSE 0) + (IF step = "send" THEN 1 ELSE 0)
  BY SendersAre
<1> QED
  BY <1>1

\* A step that tells nobody keeps the post's part, if whoever comes nearer to the
\* post holds what is visible.
LEMMA PostStays ==
    ASSUME NEW R, IsFiniteSet(R), NEW st, IsSlot(st, R), PostWhole(st, R),
           NEW s, s.rows = st.rows, SamePost(st, s), s.recs = st.recs,
           NEW r \in R, NEW step, s.pc = [st.pc EXCEPT ![r] = step],
           step \in Notifying => step = "claim" /\ st.pc[r] = "check"
    PROVE  PostWhole(s, R)
<1>1. \A q \in R : s.pc[q] = IF q = r THEN step ELSE st.pc[q]
  BY DEF IsSlot
<1>2. SB!Visible(s) = SB!Visible(st) /\ s.post = st.post
  BY DEF SB!Visible, SamePost
<1>3. step # "send"
  BY DEF Notifying
<1>4. Cardinality(Senders(s, R)) \in Int /\ Cardinality(Senders(s, R)) <= Cardinality(Senders(st, R))
  BY <1>3, FewerSenders
<1>5. Owed(st.post) \in Int /\ Cardinality(Senders(st, R)) \in Nat
  <2>1. Owed(st.post) \in Int
    BY PostIs DEF PostWhole
  <2> QED
    BY <1>3, <2>1, FewerSenders
<1>6. Owed(s.post) + Cardinality(Senders(s, R)) <= 1
  BY <1>2, <1>4, <1>5 DEF PostWhole
<1>7. \A q \in R : s.pc[q] \in Notifying => s.recs[q] # {} /\ s.recs[q] = SB!Visible(s)
  BY <1>1, <1>2 DEF PostWhole, Notifying
<1> QED
  BY <1>2, <1>6, <1>7 DEF PostWhole

\* With nothing sent and no request near the post its part holds.
LEMMA Unsent ==
    ASSUME NEW R, NEW s, s.post \in [claimed : BOOLEAN, sent : {<<>>}, excused : Nat],
           \A q \in R : s.pc[q] \notin Notifying
    PROVE  PostWhole(s, R)
<1>1. Senders(s, R) = {}
  BY DEF Senders, Notifying
<1>2. Cardinality(Senders(s, R)) = 0
  BY <1>1, FS_EmptySet
<1>3. s.post \in PostOf(SB!Visible(s)) /\ s.post.sent = <<>>
  <2>1. <<>> \in Seq({SB!Visible(s)})
    OBVIOUS
  <2> QED
    BY <2>1 DEF PostOf
<1>4. Owed(s.post) + 0 <= 1
  <2>1. Len(s.post.sent) = 0 /\ s.post.excused \in Nat
    BY <1>3
  <2>2. (IF s.post.claimed THEN 0 ELSE 1) \in 0..1
    OBVIOUS
  <2> QED
    BY <2>1, <2>2 DEF Owed
<1> QED
  BY <1>2, <1>3, <1>4 DEF PostWhole

\* What the post's steps leave is whole again.
LEMMA TellsKeeps ==
    ASSUME NEW R, IsFiniteSet(R), NEW st, IsSlot(st, R), PostWhole(st, R),
           NEW s, NEW r \in R, NEW step, Tells(st, s, r, step)
    PROVE  PostWhole(s, R) /\ step \in {"over", "failed", "send"}
<1>1. PICK o \in SB!Outcomes(st, r) : s.post = o[1] /\ step = o[2]
  BY DEF Tells
<1>2. PICK V, p : V = SB!Visible(st) /\ p = st.post
  OBVIOUS
<1>3. SB!Visible(s) = V /\ s.recs = st.recs /\ s.pc = [st.pc EXCEPT ![r] = step]
  BY <1>2 DEF Tells, Moves, SameStore, SB!Visible
<1>4. p \in PostOf(V) /\ Owed(p) \in Int /\ Owed(p) + Cardinality(Senders(st, R)) <= 1
  BY <1>2, PostIs DEF PostWhole
<1>5. \/ st.pc[r] = "claim" /\ o \in SB!Claiming(p)
      \/ st.pc[r] = "send" /\ o \in SB!Sending(p, st.recs[r])
      \/ st.pc[r] = "pressing" /\ o \in SB!Pressing(p, st.recs[r])
  BY <1>2 DEF SB!Outcomes
<1>6. st.recs[r] = V /\ V # {}
  BY <1>2, <1>5 DEF PostWhole, Notifying
<1>7. /\ o[1] \in PostOf(V) /\ step \in {"over", "failed", "send"}
      /\ st.pc[r] = "claim" => Owed(o[1]) + (IF step = "send" THEN 1 ELSE 0) <= Owed(p)
      /\ st.pc[r] = "send" => step # "send" /\ Owed(o[1]) <= Owed(p) + 1
      /\ st.pc[r] = "pressing" => step # "send" /\ Owed(o[1]) <= Owed(p)
  BY <1>1, <1>4, <1>5, <1>6, OutcomeIs
<1>8. Owed(o[1]) \in Int
  BY <1>7, PostIs
<1>9. Owed(o[1]) + Cardinality(Senders(s, R)) <= 1
  <2>1. /\ Cardinality(Senders(st, R)) \in Nat
        /\ Cardinality(Senders(s, R)) = Cardinality(Senders(st, R))
              - (IF st.pc[r] = "send" THEN 1 ELSE 0) + (IF step = "send" THEN 1 ELSE 0)
    BY <1>3, SendersAre
  <2> QED
    BY <1>4, <1>5, <1>7, <1>8, <2>1
<1>10. \A q \in R : s.pc[q] = IF q = r THEN step ELSE st.pc[q]
  BY <1>3 DEF IsSlot
<1>11. \A q \in R : s.pc[q] \in Notifying => s.recs[q] # {} /\ s.recs[q] = SB!Visible(s)
  BY <1>2, <1>3, <1>6, <1>10 DEF PostWhole
<1> QED
  BY <1>1, <1>3, <1>6, <1>7, <1>9, <1>11 DEF PostWhole

\* Every effect keeps the invariant.
LEMMA EffectKeeps ==
    ASSUME NEW R, NEW scans, NEW earlier, NEW st, SlotInv(st, R, scans, earlier),
           NEW s, IsSlot(s, R), NEW r \in R, NEW step, Effect(st, s, r, step, scans)
    PROVE  SlotInv(s, R, scans, earlier)
<1> USE DEF SlotInv
<1>1. CASE Goes(st, s, r, step)
  <2>1. step \in AfterDone => st.batch # {} /\ SB!TheBatch(st).done
    <3>1. ASSUME st.pc[r] = "mark" PROVE st.batch # {} /\ SB!TheBatch(st).done
      <4>1. PICK p, v : st.batch = {Frozen(p, v, TRUE)}
        BY <3>1 DEF WholeBatch, Unwritten, AfterDone
      <4> QED
        BY <4>1, WrittenIs
    <3> QED
      BY <1>1, <3>1 DEF Goes, AfterDone
  <2>2. step = "resume" => st.batch # {}
    BY <1>1 DEF Goes
  <2>3. step \in Notifying => step = "claim" /\ st.pc[r] = "check"
    BY <1>1 DEF Goes, Notifying
  <2>4. Moves(st, s, r, step) /\ SameStore(st, s) /\ SamePost(st, s)
    BY <1>1 DEF Goes
  <2>5. WholeBatch(s, R, scans, earlier)
    BY <2>1, <2>2, <2>4, WholeStays DEF Moves
  <2>6. PostWhole(s, R)
    BY <2>3, <2>4, PostStays DEF Moves, SameStore
  <2> QED
    BY <2>4, <2>5, <2>6 DEF Moves
<1>2. CASE Freezes(st, s, r, step)
  <2>1. /\ Moves(st, s, r, step) /\ SamePost(st, s) /\ s.rows = st.rows /\ s.marker = st.marker
        /\ step = "resume"
    BY <1>2 DEF Freezes
  <2>2. PICK p \in scans : s.batch = {Frozen(p, st.version, FALSE)}
    BY <1>2 DEF Freezes, Frozen
  <2>3. Unwritten(st, R)
    BY <1>2 DEF Freezes, WholeBatch
  <2>4. \A q \in R : s.pc[q] = IF q = r THEN step ELSE st.pc[q]
    BY <2>1 DEF Moves, IsSlot
  <2>5. Unwritten(s, R)
    BY <2>1, <2>3, <2>4 DEF Unwritten, AfterDone
  <2>6. WholeBatch(s, R, scans, earlier)
    BY <2>2, <2>5 DEF WholeBatch
  <2>7. PostWhole(s, R)
    BY <2>1, PostStays DEF Moves, Notifying
  <2> QED
    BY <2>1, <2>6, <2>7 DEF Moves
<1>3. CASE Completes(st, s, r, step)
  <2>1. Moves(st, s, r, step) /\ SamePost(st, s) /\ s.marker = st.marker /\ step \in {"remark", "mark"}
    BY <1>3 DEF Completes
  <2>2. PICK p, v : p \in scans /\ st.batch = {Frozen(p, v, FALSE)} /\ Unwritten(st, R)
    <3>1. ASSUME NEW p, NEW v, st.batch = {Frozen(p, v, TRUE)} PROVE FALSE
      <4>1. SB!TheBatch(st).done
        BY <3>1, WrittenIs
      <4> QED
        BY <1>3, <4>1 DEF Completes
    <3> QED
      BY <1>3, <3>1 DEF Completes, WholeBatch
  <2>3. SB!TheBatch(st) = Frozen(p, v, FALSE) /\ SB!TheBatch(st).payload = p
    BY <2>2, UnwrittenIs
  <2>4. s.batch = {Frozen(p, v, TRUE)}
    BY <1>3, <2>3 DEF Completes, Frozen
  <2>5. s.rows = Leaves(p, earlier)
    BY <1>3, <2>2, <2>3 DEF Completes, Unwritten, Leaves
  <2>6. s.marker \subseteq {p.watch}
    BY <2>1, <2>2 DEF Unwritten
  <2>7. WholeBatch(s, R, scans, earlier)
    BY <2>2, <2>4, <2>5, <2>6 DEF WholeBatch
  <2>8. \A q \in R : s.pc[q] = IF q = r THEN step ELSE st.pc[q]
    BY <2>1 DEF Moves, IsSlot
  <2>9. SB!Visible(st) = {}
    BY <2>2 DEF Unwritten, SB!Visible
  <2>10. /\ s.post \in [claimed : BOOLEAN, sent : {<<>>}, excused : Nat]
         /\ \A q \in R : st.pc[q] \notin Notifying
    BY <2>1, <2>9 DEF PostWhole, PostOf, SamePost
  <2>11. \A q \in R : s.pc[q] \notin Notifying
    BY <2>1, <2>8, <2>10 DEF Notifying
  <2>12. PostWhole(s, R)
    BY <2>10, <2>11, Unsent
  <2> QED
    BY <2>1, <2>7, <2>12 DEF Moves
<1>4. CASE Marks(st, s, r, step)
  <2>1. /\ Moves(st, s, r, step) /\ SamePost(st, s) /\ s.batch = st.batch /\ s.rows = st.rows
        /\ st.pc[r] \in AfterDone /\ step \in {"audit", "over"} /\ s.marker = {SB!TheBatch(st).payload.watch}
    BY <1>4 DEF Marks, AfterDone
  <2>2. PICK p, v : p \in scans /\ st.batch = {Frozen(p, v, TRUE)} /\ st.rows = Leaves(p, earlier)
    BY <2>1 DEF WholeBatch, Unwritten
  <2>3. SB!TheBatch(st).payload = p
    BY <2>2, WrittenIs
  <2>4. WholeBatch(s, R, scans, earlier)
    BY <2>1, <2>2, <2>3 DEF WholeBatch
  <2>5. PostWhole(s, R)
    BY <2>1, PostStays DEF Moves, Notifying
  <2> QED
    BY <2>1, <2>4, <2>5 DEF Moves
<1>5. CASE Scans(st, s, r, step, scans)
  <2>1. /\ s.pc = [st.pc EXCEPT ![r] = "gate"] /\ s.earlier = st.earlier /\ s.recs = st.recs
        /\ SameStore(st, s) /\ SamePost(st, s)
    BY <1>5 DEF Scans
  <2>2. PICK p \in scans : s.scan = [st.scan EXCEPT ![r] = {p}]
    BY <1>5 DEF Scans
  <2>3. \A q \in R : s.scan[q] \subseteq scans
    BY <2>2 DEF IsSlot
  <2>4. WholeBatch(s, R, scans, earlier)
    BY <2>1, WholeStays DEF AfterDone
  <2>5. PostWhole(s, R)
    BY <2>1, PostStays DEF Notifying, SameStore
  <2> QED
    BY <2>1, <2>3, <2>4, <2>5
<1>6. CASE Reads(st, s, r, step)
  <2>1. /\ s.pc = [st.pc EXCEPT ![r] = step] /\ s.earlier = st.earlier /\ s.scan = st.scan
        /\ SameStore(st, s) /\ SamePost(st, s)
        /\ s.recs = [st.recs EXCEPT ![r] = SB!Visible(st)]
        /\ step \in IF SB!Visible(st) = {} THEN {"over"} ELSE {"check", "pressing"}
    BY <1>6 DEF Reads
  <2>2. WholeBatch(s, R, scans, earlier)
    BY <2>1, WholeStays DEF AfterDone
  <2>3. SB!Visible(s) = SB!Visible(st) /\ s.post = st.post
    BY <2>1 DEF SB!Visible, SamePost, SameStore
  <2>4. /\ \A q \in R \ {r} : s.pc[q] = st.pc[q] /\ s.recs[q] = st.recs[q]
        /\ s.pc[r] = step /\ s.recs[r] = SB!Visible(st)
    BY <2>1 DEF IsSlot
  <2>5. PostWhole(s, R)
    <3>1. step # "send"
      BY <2>1
    <3>2. /\ Cardinality(Senders(s, R)) \in Int /\ Cardinality(Senders(st, R)) \in Nat
          /\ Cardinality(Senders(s, R)) <= Cardinality(Senders(st, R))
      BY <2>1, <3>1, FewerSenders
    <3>3. Owed(st.post) \in Int /\ Owed(st.post) + Cardinality(Senders(st, R)) <= 1
      BY PostIs DEF PostWhole
    <3>4. Owed(s.post) + Cardinality(Senders(s, R)) <= 1
      BY <2>3, <3>2, <3>3
    <3>5. \A q \in R : s.pc[q] \in Notifying => s.recs[q] # {} /\ s.recs[q] = SB!Visible(s)
      BY <2>1, <2>3, <2>4 DEF PostWhole, Notifying
    <3> QED
      BY <2>3, <3>4, <3>5 DEF PostWhole
  <2> QED
    BY <2>1, <2>2, <2>5
<1>7. CASE Tells(st, s, r, step)
  <2>1. Moves(st, s, r, step) /\ SameStore(st, s)
    BY <1>7 DEF Tells
  <2>2. PostWhole(s, R) /\ step \in {"over", "failed", "send"}
    BY <1>7, TellsKeeps
  <2>3. WholeBatch(s, R, scans, earlier)
    BY <2>1, <2>2, WholeStays DEF AfterDone, Moves
  <2> QED
    BY <2>1, <2>2, <2>3 DEF Moves
<1> QED
  BY <1>1, <1>2, <1>3, <1>4, <1>5, <1>6, <1>7 DEF Effect

\* So do a deployment and a request made again.
LEMMA BetweenKeeps ==
    ASSUME NEW R, NEW scans, NEW earlier, NEW st, SlotInv(st, R, scans, earlier), NEW s, Between(st, s)
    PROVE  SlotInv(s, R, scans, earlier)
<1> USE DEF SlotInv
<1>1. ASSUME NEW v, s = [st EXCEPT !.version = v] PROVE SlotInv(s, R, scans, earlier)
  <2>1. /\ IsSlot(s, R) /\ s.pc = st.pc /\ s.earlier = st.earlier /\ s.batch = st.batch
        /\ s.rows = st.rows /\ s.marker = st.marker /\ s.post = st.post /\ s.scan = st.scan
        /\ s.recs = st.recs
    BY <1>1 DEF IsSlot
  <2>2. WholeBatch(s, R, scans, earlier)
    BY <2>1 DEF WholeBatch, Unwritten
  <2>3. PostWhole(s, R)
    BY <2>1 DEF PostWhole, Senders, SB!Visible
  <2> QED
    BY <2>1, <2>2, <2>3
<1>2. ASSUME NEW r \in R, NEW step \in {"recover", "read", "press"},
             s = [SB!Goto(st, r, step) EXCEPT !.scan[r] = {}, !.recs[r] = {}]
      PROVE  SlotInv(s, R, scans, earlier)
  <2> PICK w : w = SB!Goto(st, r, step)
    OBVIOUS
  <2>1. /\ IsSlot(w, R) /\ w.pc = [st.pc EXCEPT ![r] = step]
        /\ w.batch = st.batch /\ w.rows = st.rows /\ w.earlier = st.earlier /\ w.marker = st.marker
        /\ w.post = st.post /\ w.scan = st.scan /\ w.recs = st.recs
    BY GotoIs
  <2> PICK x : x = [w.scan EXCEPT ![r] = {}]
    OBVIOUS
  <2> PICK y : y = [w.recs EXCEPT ![r] = {}]
    OBVIOUS
  <2>2. s = [w EXCEPT !.scan = x, !.recs = y]
    BY <1>2
  <2>3. x = [q \in R |-> x[q]] /\ y = [q \in R |-> y[q]]
    BY <2>1 DEF IsSlot
  <2>4. /\ IsSlot(s, R) /\ s.pc = w.pc /\ s.earlier = w.earlier /\ s.batch = w.batch
        /\ s.rows = w.rows /\ s.marker = w.marker /\ s.post = w.post /\ s.scan = x
        /\ s.recs = y
    BY <2>1, <2>2, <2>3 DEF IsSlot
  <2>5. /\ \A q \in R \ {r} : s.pc[q] = st.pc[q] /\ s.recs[q] = st.recs[q] /\ s.scan[q] = st.scan[q]
        /\ s.pc[r] = step /\ s.scan[r] = {}
    BY <2>1, <2>4 DEF IsSlot
  <2>6. SameStore(st, s) /\ s.pc = [st.pc EXCEPT ![r] = step]
    BY <2>1, <2>4 DEF SameStore
  <2>7. WholeBatch(s, R, scans, earlier)
    BY <2>6, WholeStays DEF AfterDone
  <2>8. SB!Visible(s) = SB!Visible(st) /\ s.post = st.post
    BY <2>1, <2>4 DEF SB!Visible
  <2>9. PostWhole(s, R)
    <3>1. /\ Cardinality(Senders(s, R)) \in Int /\ Cardinality(Senders(st, R)) \in Nat
          /\ Cardinality(Senders(s, R)) <= Cardinality(Senders(st, R))
      BY <2>6, FewerSenders
    <3>2. Owed(st.post) \in Int /\ Owed(st.post) + Cardinality(Senders(st, R)) <= 1
      BY PostIs DEF PostWhole
    <3>3. Owed(s.post) + Cardinality(Senders(s, R)) <= 1
      BY <2>8, <3>1, <3>2
    <3>4. \A q \in R : s.pc[q] \in Notifying => s.recs[q] # {} /\ s.recs[q] = SB!Visible(s)
      BY <2>5, <2>8 DEF PostWhole, Notifying
    <3> QED
      BY <2>8, <3>3, <3>4 DEF PostWhole
  <2>10. \A q \in R : s.scan[q] \subseteq scans
    BY <2>5
  <2> QED
    BY <2>1, <2>4, <2>7, <2>9, <2>10
<1>3. DOMAIN st.pc = R
  BY DEF IsSlot
<1>4. CASE \E v : s = [st EXCEPT !.version = v]
  BY <1>1, <1>4
<1>5. CASE \E r \in DOMAIN st.pc : \E step \in {"recover", "read", "press"} :
              s = [SB!Goto(st, r, step) EXCEPT !.scan[r] = {}, !.recs[r] = {}]
  <2>1. PICK r \in R, step \in {"recover", "read", "press"} :
              s = [SB!Goto(st, r, step) EXCEPT !.scan[r] = {}, !.recs[r] = {}]
    BY <1>3, <1>5
  <2> QED
    BY <1>2, <2>1
<1>6. \/ \E v : s = [st EXCEPT !.version = v]
      \/ \E r \in DOMAIN st.pc : \E step \in {"recover", "read", "press"} :
            s = [SB!Goto(st, r, step) EXCEPT !.scan[r] = {}, !.recs[r] = {}]
  BY DEF Between
<1> HIDE DEF SlotInv
<1> QED
  BY <1>4, <1>5, <1>6

\* So does every step of the slot.
LEMMA SlotNextKeeps ==
    ASSUME NEW R, NEW scans, NEW earlier, NEW st, SlotInv(st, R, scans, earlier),
           NEW s, SlotNext(st, s, scans)
    PROVE  SlotInv(s, R, scans, earlier)
<1>1. CASE s \in SB!SlotSteps(st, scans)
  <2>1. PICK r, step : r \in R /\ IsSlot(s, R) /\ Effect(st, s, r, step, scans)
    BY <1>1, StepIs
  <2> QED
    BY <2>1, EffectKeeps
<1>2. CASE Between(st, s)
  BY <1>2, BetweenKeeps
<1> QED
  BY <1>1, <1>2 DEF SlotNext

\* A slot whose requests have yet to begin.
LEMMA SlotStarts ==
    ASSUME NEW R, IsFiniteSet(R), NEW scans, NEW earlier, NEW start \in [R -> {"recover", "read", "press"}]
    PROVE  SlotInv(SB!Shared(earlier, start), R, scans, earlier)
<1> DEFINE st == SB!Shared(earlier, start)
<1>1. /\ st.pc = start /\ st.earlier = earlier /\ st.batch = {} /\ st.rows = {} /\ st.marker = {}
      /\ st.post = [claimed |-> FALSE, sent |-> <<>>, excused |-> 0]
      /\ st.scan = [r \in DOMAIN start |-> {}] /\ st.recs = [r \in DOMAIN start |-> {}]
  BY DEF SB!Shared
<1>2. IsSlot(st, R)
  <2>1. DOMAIN start = R
    OBVIOUS
  <2> QED
    BY <2>1 DEF IsSlot, SB!Shared
<1> HIDE DEF st
<1>3. \A r \in R : st.pc[r] \in {"recover", "read", "press"} /\ st.scan[r] = {} /\ st.scan[r] \subseteq scans
  BY <1>1
<1>4. WholeBatch(st, R, scans, earlier)
  BY <1>1, <1>3 DEF WholeBatch, Unwritten, AfterDone
<1>5. PostWhole(st, R)
  <2>1. st.post \in [claimed : BOOLEAN, sent : {<<>>}, excused : Nat]
    BY <1>1
  <2>2. \A r \in R : st.pc[r] \notin Notifying
    BY <1>3 DEF Notifying
  <2> QED
    BY <2>1, <2>2, Unsent
<1>6. SlotInv(st, R, scans, earlier)
  BY <1>1, <1>2, <1>3, <1>4, <1>5 DEF SlotInv
<1> QED
  BY <1>6 DEF st

\* What is written once stays as it is.
LEMMA WrittenStays ==
    ASSUME NEW R, NEW scans, NEW earlier, NEW st, SlotInv(st, R, scans, earlier),
           NEW s, SlotNext(st, s, scans), st.rows # {}
    PROVE  s.rows = st.rows
<1>1. PICK p, v : st.batch = {Frozen(p, v, TRUE)}
  BY DEF SlotInv, WholeBatch, Unwritten
<1>2. CASE s \in SB!SlotSteps(st, scans)
  <2>1. PICK r, step : r \in R /\ Effect(st, s, r, step, scans)
    BY <1>2, StepIs
  <2>2. ~Completes(st, s, r, step)
    BY <1>1, WrittenIs DEF Completes
  <2> QED
    BY <2>1, <2>2 DEF Effect, Goes, Freezes, Marks, Scans, Reads, Tells, SameStore
<1>3. CASE Between(st, s)
  <2>1. IsSlot(st, R)
    BY DEF SlotInv
  <2>2. CASE \E new : s = [st EXCEPT !.version = new]
    BY <2>1, <2>2 DEF IsSlot
  <2>3. ASSUME NEW r, NEW step, s = [SB!Goto(st, r, step) EXCEPT !.scan[r] = {}, !.recs[r] = {}]
        PROVE  s.rows = st.rows
    <3> PICK x : x = [st.pc EXCEPT ![r] = step]
      OBVIOUS
    <3> PICK w : w = [st EXCEPT !.pc = x]
      OBVIOUS
    <3>1. DOMAIN w = DOMAIN st /\ w.rows = st.rows
      BY <2>1 DEF IsSlot
    <3>2. s = [w EXCEPT !.scan[r] = {}, !.recs[r] = {}]
      BY <2>3 DEF SB!Goto
    <3>3. "rows" \in DOMAIN w
      BY <2>1, <3>1 DEF IsSlot
    <3> QED
      BY <3>1, <3>2, <3>3
  <2> QED
    BY <1>3, <2>2, <2>3 DEF Between
<1> QED
  BY <1>2, <1>3 DEF SlotNext

\* In every run of a slot, whatever the requests' scans saw, wherever they stop,
\* fail or are made again, and whatever is deployed meanwhile: what is visible is
\* all that one scan leaves (freeze and resume), the marker is of that scan, what is
\* written stays, every post is of all that is visible, and one goes out, and one
\* more at most for every press of the button, every post that arrived and was
\* reported as failed and every claim that a file answered for the KV
\* (_dispatch_once, api_telegram_send, telegram.send_message, kv.claim).
THEOREM SlotIsWhole ==
    ASSUME NEW R, IsFiniteSet(R), NEW scans, NEW earlier, NEW start \in [R -> {"recover", "read", "press"}],
           NEW n \in Nat, NEW run, run[0] = SB!Shared(earlier, start),
           \A i \in 0..(n - 1) : SlotNext(run[i], run[i + 1], scans)
    PROVE  \A i \in 0..n :
               /\ run[i].rows # {} \/ run[i].marker # {} =>
                      \E p \in scans : /\ \E v : run[i].batch = {Frozen(p, v, TRUE)}
                                        /\ run[i].rows = Leaves(p, earlier)
                                        /\ run[i].marker \subseteq {p.watch}
               /\ run[i].post.sent \in Seq({SB!Visible(run[i])})
               /\ Len(run[i].post.sent) <= 1 + run[i].post.excused
               /\ i < n /\ run[i].rows # {} => run[i + 1].rows = run[i].rows
<1> DEFINE Good == {i \in 0..n : SlotInv(run[i], R, scans, earlier)}
<1>1. 0 \in Good
  BY SlotStarts
<1>2. ASSUME NEW i \in 0..(n - 1), i \in Good PROVE i + 1 \in Good
  <2>1. SlotInv(run[i + 1], R, scans, earlier)
    BY <1>2, SlotNextKeeps
  <2> QED
    BY <2>1
<1> HIDE DEF Good
<1>3. \A i \in 0..n : i \in Good
  BY <1>1, <1>2, Rules!UpTo
<1> QED
  <2> SUFFICES ASSUME NEW i \in 0..n, SlotInv(run[i], R, scans, earlier)
               PROVE  /\ run[i].rows # {} \/ run[i].marker # {} =>
                             \E p \in scans : /\ \E v : run[i].batch = {Frozen(p, v, TRUE)}
                                               /\ run[i].rows = Leaves(p, earlier)
                                               /\ run[i].marker \subseteq {p.watch}
                      /\ run[i].post.sent \in Seq({SB!Visible(run[i])})
                      /\ Len(run[i].post.sent) <= 1 + run[i].post.excused
                      /\ i < n /\ run[i].rows # {} => run[i + 1].rows = run[i].rows
    BY <1>3 DEF Good
  <2>0. i < n /\ run[i].rows # {} => run[i + 1].rows = run[i].rows
    <3> SUFFICES ASSUME i < n, run[i].rows # {} PROVE run[i + 1].rows = run[i].rows
      OBVIOUS
    <3>1. i \in 0..(n - 1)
      OBVIOUS
    <3> QED
      BY <3>1, WrittenStays
  <2> PICK st : st = run[i]
    OBVIOUS
  <2>1. WholeBatch(st, R, scans, earlier) /\ PostWhole(st, R)
    BY DEF SlotInv
  <2>2. ASSUME st.rows # {} \/ st.marker # {}
        PROVE  \E p \in scans : /\ \E v : st.batch = {Frozen(p, v, TRUE)}
                                 /\ st.rows = Leaves(p, earlier) /\ st.marker \subseteq {p.watch}
    BY <2>1, <2>2 DEF WholeBatch, Unwritten
  <2>3. st.post.sent \in Seq({SB!Visible(st)}) /\ Len(st.post.sent) <= 1 + st.post.excused
    <3>1. Cardinality(Senders(st, R)) \in Nat
      <4>1. IsFiniteSet(Senders(st, R))
        BY FS_Subset DEF SlotInv, Senders
      <4> QED
        BY <4>1, FS_CardinalityType
    <3>2. /\ st.post.sent \in Seq({SB!Visible(st)}) /\ st.post.excused \in Nat /\ Len(st.post.sent) \in Nat
          /\ Owed(st.post) \in Int
      BY <2>1, PostIs DEF PostWhole
    <3>3. Owed(st.post) <= 1
      BY <2>1, <3>1, <3>2 DEF PostWhole
    <3>4. (IF st.post.claimed THEN 0 ELSE 1) \in 0..1
      OBVIOUS
    <3> QED
      BY <3>2, <3>3, <3>4 DEF Owed
  <2> QED
    BY <2>0, <2>2, <2>3

=============================================================================
