------------------------- MODULE StoreWritersProofs -------------------------
(***************************************************************************)
(* What holds of the writers of a store for every set of processes: nobody *)
(* writes over a text it has not seen, a desktop that serves is reachable, *)
(* and the processes together implement WriteRequests.                     *)
(***************************************************************************)
EXTENDS StoreWriters, SequenceTheorems, TLAPS

-----------------------------------------------------------------------------
(* The inductive invariant                                                 *)

Writing == {"leased", "direct", "written", "rejected"}
Holding == {"claimed", "bound", "serving", "leaving", "closing"}

\* A process that writes holds the lease.
WritersHold ==
  /\ \A c \in Clients : pc[c] \in Writing => lease = c
  /\ \A d \in Desktops : desk[d] \in Holding => lease = d

\* From bind to drop the file at the path is the holder's.
PathIsBound ==
  \A d \in Desktops : desk[d] \in {"bound", "serving", "leaving"} => socket = d

\* How far a request is, in its client, on its connection and in the main loop.
RequestStages ==
  \A c \in Clients :
    /\ pc[c] \in {"idle", "trying", "connecting"} \union Writing
         => wire[c] = "none" /\ job[c] = "none"
    /\ pc[c] = "connected" => wire[c] \in {"open", "closed"} /\ job[c] = "none"
    /\ wire[c] = "none" => job[c] = "none"
    /\ wire[c] = "open" => pc[c] = "connected"
    /\ wire[c] = "request" => job[c] = "none"
    /\ wire[c] = "queued" => job[c] \in {"queued", "running"}
    /\ wire[c] = "answer" => job[c] = "done"
    /\ wire[c] /= "none" => peer[c] \in Desktops
    /\ job[c] = "done" => reply[c] /= "none"
    /\ answer[c] = "none" <=> pc[c] /= "answered"
    /\ answer[c] \in {"refused", "unavailable"}
         => wire[c] /= "request" /\ job[c] \notin {"queued", "running"}

\* The change of c is in the file.
Written(c) == \E i \in DOMAIN note : note[i] = c

\* The change of c may still be made.
Outstanding(c) ==
  \/ pc[c] \in {"idle", "trying", "connecting", "connected", "leased", "direct"}
  \/ wire[c] = "request"
  \/ job[c] \in {"queued", "running"}

\* What is in the file is what was performed, and whoever knows how its request
\* ended knows the truth.
EffectKnown(c) ==
  /\ Outstanding(c) => ~Written(c)
  /\ pc[c] = "written" => Written(c)
  /\ pc[c] = "rejected" => ~Written(c)
  /\ job[c] = "done" => (reply[c] = "committed" <=> Written(c))
  /\ answer[c] \in {"refused", "unavailable"} => ~Written(c)

EffectsKnown == \A c \in Clients : EffectKnown(c)

IInv ==
  /\ TypeOK
  /\ WritersHold
  /\ PathIsBound
  /\ BasesAreCurrent
  /\ RequestStages
  /\ EffectsKnown

-----------------------------------------------------------------------------
(* Sequences: what a note gains when something is put in it.               *)

Marks == Clients \union {ReaderEdit}

LEMMA EditsAreText ==
    \A n \in Nat : Edits(n) \in Seq(Marks) /\ Len(Edits(n)) = n
  BY DEF Edits, Marks

LEMMA NoEdits ==
    ASSUME NEW s \in Seq(Marks)
    PROVE  s = s \o Edits(0)
  <1>1. Edits(0) = << >>
    BY DEF Edits
  <1>2. QED BY <1>1, ConcatEmptySeq

LEMMA OneMoreEdit ==
    ASSUME NEW s \in Seq(Marks), NEW n \in Nat
    PROVE  Append(s \o Edits(n), ReaderEdit) = s \o Edits(n + 1)
  <1> DEFINE t == Append(s \o Edits(n), ReaderEdit)
             u == s \o Edits(n + 1)
  <1>1. Edits(n) \in Seq(Marks) /\ Edits(n + 1) \in Seq(Marks)
        /\ Len(Edits(n)) = n /\ Len(Edits(n + 1)) = n + 1
    BY EditsAreText
  <1>2. ReaderEdit \in Marks
    BY DEF Marks
  <1>3. t \in Seq(Marks) /\ u \in Seq(Marks) /\ Len(s) \in Nat
        /\ Len(t) = Len(s) + n + 1 /\ Len(u) = Len(s) + n + 1
    <2>1. s \o Edits(n) \in Seq(Marks) /\ Len(s \o Edits(n)) = Len(s) + n
      BY <1>1
    <2>2. t \in Seq(Marks) /\ Len(t) = Len(s \o Edits(n)) + 1
      BY <1>2, <2>1, AppendProperties
    <2>3. u \in Seq(Marks) /\ Len(u) = Len(s) + (n + 1)
      BY <1>1
    <2>4. Len(s) \in Nat
      BY LenProperties
    <2>5. QED BY <2>1, <2>2, <2>3, <2>4
  <1>4. \A i \in 1..Len(t) : t[i] = u[i]
    BY <1>1, <1>2, <1>3 DEF Edits
  <1>5. QED BY <1>3, <1>4, SeqEqual

\* Putting c in a text adds c and nothing else.
LEMMA WhatAppendAdds ==
    ASSUME NEW s \in Seq(Marks), NEW n \in Nat, NEW c \in Marks, NEW x \in Clients
    PROVE  (\E i \in DOMAIN Append(s \o Edits(n), c) : Append(s \o Edits(n), c)[i] = x)
             <=> (x = c \/ \E i \in DOMAIN s : s[i] = x)
  <1> DEFINE t == s \o Edits(n)
  <1>1. Edits(n) \in Seq(Marks) /\ Len(Edits(n)) = n
    BY EditsAreText
  <1>2. t \in Seq(Marks) /\ Len(s) \in Nat /\ Len(t) = Len(s) + n
    BY <1>1, ConcatProperties, LenProperties
  <1>3. DOMAIN s = 1..Len(s) /\ DOMAIN t = 1..Len(t)
        /\ DOMAIN Append(t, c) = 1..(Len(t) + 1)
    BY <1>2
  <1>4. \A i \in 1..Len(s) : Append(t, c)[i] = s[i]
    BY <1>1, <1>2
  <1>5. \A i \in (Len(s) + 1)..Len(t) : Append(t, c)[i] = ReaderEdit
    BY <1>1, <1>2 DEF Edits
  <1>6. Append(t, c)[Len(t) + 1] = c
    BY <1>2
  <1>7. x /= ReaderEdit
    BY ProcessesAssumption
  <1> HIDE DEF t
  <1>8. (\E i \in DOMAIN Append(t, c) : Append(t, c)[i] = x)
          <=> (x = c \/ \E i \in DOMAIN s : s[i] = x)
    <2>1. ASSUME NEW i \in 1..(Len(t) + 1), Append(t, c)[i] = x
          PROVE  x = c \/ \E j \in DOMAIN s : s[j] = x
      <3>1. \/ i \in 1..Len(s) \/ i \in (Len(s) + 1)..Len(t) \/ i = Len(t) + 1
        BY <1>2
      <3>2. QED BY <1>3, <1>4, <1>5, <1>6, <1>7, <2>1, <3>1
    <2>2. ASSUME NEW i \in 1..Len(s), s[i] = x
          PROVE  \E j \in 1..(Len(t) + 1) : Append(t, c)[j] = x
      <3>1. i \in 1..(Len(t) + 1)
        BY <1>2
      <3>2. QED BY <1>4, <2>2, <3>1
    <2>3. Len(t) + 1 \in 1..(Len(t) + 1)
      BY <1>2
    <2>4. QED BY <1>3, <1>6, <2>1, <2>2, <2>3
  <1>9. QED BY <1>8 DEF t

\* Saving edits adds no change of a client.
LEMMA WhatEditsAdd ==
    ASSUME NEW s \in Seq(Marks), NEW n \in Nat, NEW x \in Clients
    PROVE  (\E i \in DOMAIN (s \o Edits(n)) : (s \o Edits(n))[i] = x)
             <=> \E i \in DOMAIN s : s[i] = x
  <1> DEFINE t == s \o Edits(n)
  <1>1. Edits(n) \in Seq(Marks) /\ Len(Edits(n)) = n
    BY EditsAreText
  <1>2. t \in Seq(Marks) /\ Len(s) \in Nat /\ Len(t) = Len(s) + n
    BY <1>1, ConcatProperties, LenProperties
  <1>3. DOMAIN s = 1..Len(s) /\ DOMAIN t = 1..(Len(s) + n)
    BY <1>2
  <1>4. \A i \in 1..Len(s) : t[i] = s[i]
    BY <1>1, ConcatProperties
  <1>5. \A i \in (Len(s) + 1)..(Len(s) + n) : t[i] = ReaderEdit
    BY <1>1, ConcatProperties DEF Edits
  <1>6. x /= ReaderEdit
    BY ProcessesAssumption
  <1> HIDE DEF t
  <1>7. ASSUME NEW i \in 1..(Len(s) + n), t[i] = x
        PROVE  \E j \in 1..Len(s) : s[j] = x
    <2>1. i \in 1..Len(s) \/ i \in (Len(s) + 1)..(Len(s) + n)
      BY <1>2
    <2>2. QED BY <1>4, <1>5, <1>6, <1>7, <2>1
  <1>8. ASSUME NEW i \in 1..Len(s), s[i] = x
        PROVE  \E j \in 1..(Len(s) + n) : t[j] = x
    <2>1. i \in 1..(Len(s) + n)
      BY <1>2
    <2>2. QED BY <1>4, <1>8, <2>1
  <1>9. QED BY <1>3, <1>7, <1>8 DEF t

-----------------------------------------------------------------------------
(* Types                                                                   *)

LEMMA LongerText ==
    \A s \in Text : \A m \in Clients \union {ReaderEdit} : Append(s, m) \in Text
  BY DEF Text

LEMMA TypesKept ==
    ASSUME TypeOK, RequestStages, [Next]_vars
    PROVE  TypeOK'
  <1>1. ASSUME NEW c \in Clients, Ask(c) PROVE TypeOK'
    BY <1>1 DEF Ask, Goto, connVars, deskVars, TypeOK, Revisions, Text
  <1>2. ASSUME NEW c \in Clients, TakeLease(c) PROVE TypeOK'
    BY <1>2 DEF TakeLease, Goto, connVars, deskVars, TypeOK
  <1>3. ASSUME NEW c \in Clients, FindHeld(c) PROVE TypeOK'
    BY <1>3 DEF FindHeld, Goto, connVars, deskVars, TypeOK
  <1>4. ASSUME NEW c \in Clients, ReadNote(c) PROVE TypeOK'
    BY <1>4 DEF ReadNote, Goto, connVars, deskVars, TypeOK
  <1>5. ASSUME NEW c \in Clients, CommitDirect(c) PROVE TypeOK'
    <2>1. base[c] \in Text
      BY DEF TypeOK
    <2>2. note' \in Text
      BY <1>5, <2>1, LongerText DEF CommitDirect
    <2>3. QED BY <1>5, <2>2 DEF CommitDirect, Goto, connVars, deskVars, TypeOK
  <1>6. ASSUME NEW c \in Clients, RejectDirect(c) PROVE TypeOK'
    BY <1>6 DEF RejectDirect, Goto, connVars, deskVars, TypeOK
  <1>7. ASSUME NEW c \in Clients, Release(c) PROVE TypeOK'
    BY <1>7 DEF Release, Finish, connVars, deskVars, Goto, TypeOK
  <1>8. ASSUME NEW c \in Clients, Connect(c) PROVE TypeOK'
    BY <1>8 DEF Connect, Goto, Listening, deskVars, TypeOK
  <1>9. ASSUME NEW c \in Clients, ConnectFails(c) PROVE TypeOK'
    BY <1>9 DEF ConnectFails, Goto, Listening, connVars, deskVars, TypeOK
  <1>10. ASSUME NEW c \in Clients, GiveUp(c) PROVE TypeOK'
    BY <1>10 DEF GiveUp, Finish, Listening, connVars, deskVars, Goto, TypeOK
  <1>11. ASSUME NEW c \in Clients, Send(c) PROVE TypeOK'
    BY <1>11 DEF Send, Goto, deskVars, TypeOK
  <1>12. ASSUME NEW c \in Clients, SendFails(c) PROVE TypeOK'
    BY <1>12 DEF SendFails, Finish, connVars, deskVars, Goto, TypeOK
  <1>13. ASSUME NEW c \in Clients, Receive(c) PROVE TypeOK'
    BY <1>13 DEF Receive, Finish, connVars, deskVars, Goto, TypeOK
  <1>14. ASSUME NEW c \in Clients, LoseAnswer(c) PROVE TypeOK'
    BY <1>14 DEF LoseAnswer, Finish, connVars, deskVars, Goto, TypeOK
  <1>15. ASSUME NEW c \in Clients, Kill(c) PROVE TypeOK'
    BY <1>15 DEF Kill, Goto, deskVars, TypeOK
  <1>16. ASSUME NEW c \in Clients, ReadRequest(c) PROVE TypeOK'
    BY <1>16 DEF ReadRequest, clientVars, deskVars, TypeOK
  <1>17. ASSUME NEW c \in Clients, DropStalled(c) PROVE TypeOK'
    BY <1>17 DEF DropStalled, Listening, clientVars, deskVars, TypeOK
  <1>18. ASSUME NEW c \in Clients, WorkerGivesUp(c) PROVE TypeOK'
    BY <1>18 DEF WorkerGivesUp, clientVars, deskVars, TypeOK
  <1>19. ASSUME NEW c \in Clients, Take(c) PROVE TypeOK'
    BY <1>19 DEF Take, Busy, clientVars, deskVars, TypeOK
  <1>20. ASSUME NEW c \in Clients, CommitRequest(c) PROVE TypeOK'
    <2>1. peer[c] \in Desktops
      BY <1>20 DEF CommitRequest, RequestStages
    <2>2. live[peer[c]] \in Text
      BY <2>1 DEF TypeOK
    <2>3. Append(live[peer[c]], c) \in Text
      BY <2>2, LongerText
    <2>4. QED BY <1>20, <2>1, <2>3 DEF CommitRequest, Respond, clientVars, TypeOK
  <1>21. ASSUME NEW c \in Clients, RejectRequest(c) PROVE TypeOK'
    BY <1>21 DEF RejectRequest, Respond, clientVars, deskVars, TypeOK
  <1>22. ASSUME NEW d \in Desktops, Start(d) PROVE TypeOK'
    BY <1>22 DEF Start, Stands, clientVars, connVars, TypeOK
  <1>23. ASSUME NEW d \in Desktops, Claim(d) PROVE TypeOK'
    BY <1>23 DEF Claim, Stands, clientVars, connVars, TypeOK
  <1>24. ASSUME NEW d \in Desktops, RefuseToStart(d) PROVE TypeOK'
    BY <1>24 DEF RefuseToStart, Stands, clientVars, connVars, TypeOK
  <1>25. ASSUME NEW d \in Desktops, Bind(d) PROVE TypeOK'
    BY <1>25 DEF Bind, Stands, clientVars, connVars, TypeOK
  <1>26. ASSUME NEW d \in Desktops, BindFails(d) PROVE TypeOK'
    BY <1>26 DEF BindFails, Stands, clientVars, connVars, TypeOK
  <1>27. ASSUME NEW d \in Desktops, Serve(d) PROVE TypeOK'
    BY <1>27 DEF Serve, Stands, clientVars, connVars, TypeOK
  <1>28. ASSUME NEW d \in Desktops, Type(d) PROVE TypeOK'
    <2>1. Append(live[d], ReaderEdit) \in Text
      BY LongerText DEF TypeOK
    <2>2. typed + 1 \in 0..MaxEdits
      BY <1>28, EditsAssumption DEF Type, TypeOK
    <2>3. QED BY <1>28, <2>1, <2>2 DEF Type, clientVars, connVars, TypeOK
  <1>29. ASSUME NEW d \in Desktops, Save(d) PROVE TypeOK'
    BY <1>29 DEF Save, clientVars, connVars, deskVars, TypeOK
  <1>30. ASSUME NEW d \in Desktops, Quit(d) PROVE TypeOK'
    BY <1>30 DEF Quit, Stands, clientVars, connVars, TypeOK
  <1>31. ASSUME NEW d \in Desktops, RemoveSocket(d) PROVE TypeOK'
    BY <1>31 DEF RemoveSocket, Stands, clientVars, connVars, TypeOK
  <1>32. ASSUME NEW d \in Desktops, LetGo(d) PROVE TypeOK'
    BY <1>32 DEF LetGo, Stands, Hangup, clientVars, TypeOK
  <1>33. ASSUME NEW d \in Desktops, Crash(d) PROVE TypeOK'
    BY <1>33 DEF Crash, Stands, Hangup, Running, clientVars, TypeOK
  <1>34. CASE UNCHANGED vars
    BY <1>34 DEF vars, clientVars, connVars, deskVars, TypeOK
  <1>35. QED BY <1>1, <1>2, <1>3, <1>4, <1>5, <1>6, <1>7, <1>8, <1>9, <1>10, <1>11,
    <1>12, <1>13, <1>14, <1>15, <1>16, <1>17, <1>18, <1>19, <1>20, <1>21, <1>22,
    <1>23, <1>24, <1>25, <1>26, <1>27, <1>28, <1>29, <1>30, <1>31, <1>32, <1>33,
    <1>34 DEF Next, ClientStep, ConnectionStep, DesktopStep

-----------------------------------------------------------------------------
(* The lease, the socket and the requests                                  *)

LEMMA HoldersKept ==
    ASSUME TypeOK, WritersHold, [Next]_vars
    PROVE  WritersHold'
  <1>1. ASSUME NEW c \in Clients, Ask(c) PROVE WritersHold'
    BY <1>1 DEF Ask, Goto, connVars, deskVars, TypeOK, WritersHold, Writing, Holding
  <1>2. ASSUME NEW c \in Clients, TakeLease(c) PROVE WritersHold'
    BY <1>2, ProcessesAssumption DEF TakeLease, Goto, connVars, deskVars, TypeOK,
      WritersHold, Writing, Holding
  <1>3. ASSUME NEW c \in Clients, FindHeld(c) PROVE WritersHold'
    BY <1>3 DEF FindHeld, Goto, connVars, deskVars, TypeOK, WritersHold, Writing,
      Holding
  <1>4. ASSUME NEW c \in Clients, ReadNote(c) PROVE WritersHold'
    BY <1>4 DEF ReadNote, Goto, connVars, deskVars, TypeOK, WritersHold, Writing,
      Holding
  <1>5. ASSUME NEW c \in Clients, CommitDirect(c) PROVE WritersHold'
    BY <1>5 DEF CommitDirect, Goto, RevisionMatches, connVars, deskVars, TypeOK,
      WritersHold, Writing, Holding
  <1>6. ASSUME NEW c \in Clients, RejectDirect(c) PROVE WritersHold'
    BY <1>6 DEF RejectDirect, Goto, connVars, deskVars, TypeOK, WritersHold,
      Writing, Holding
  <1>7. ASSUME NEW c \in Clients, Release(c) PROVE WritersHold'
    BY <1>7, ProcessesAssumption DEF Release, Finish, connVars, deskVars, Goto,
      TypeOK, WritersHold, Writing, Holding
  <1>8. ASSUME NEW c \in Clients, Connect(c) PROVE WritersHold'
    BY <1>8 DEF Connect, Goto, Listening, deskVars, TypeOK, WritersHold, Writing,
      Holding
  <1>9. ASSUME NEW c \in Clients, ConnectFails(c) PROVE WritersHold'
    BY <1>9 DEF ConnectFails, Goto, Listening, connVars, deskVars, TypeOK,
      WritersHold, Writing, Holding
  <1>10. ASSUME NEW c \in Clients, GiveUp(c) PROVE WritersHold'
    BY <1>10 DEF GiveUp, Finish, Listening, connVars, deskVars, Goto, TypeOK,
      WritersHold, Writing, Holding
  <1>11. ASSUME NEW c \in Clients, Send(c) PROVE WritersHold'
    BY <1>11 DEF Send, Goto, deskVars, TypeOK, WritersHold, Writing, Holding
  <1>12. ASSUME NEW c \in Clients, SendFails(c) PROVE WritersHold'
    BY <1>12 DEF SendFails, Finish, connVars, deskVars, Goto, TypeOK, WritersHold,
      Writing, Holding
  <1>13. ASSUME NEW c \in Clients, Receive(c) PROVE WritersHold'
    BY <1>13 DEF Receive, Finish, connVars, deskVars, Goto, TypeOK, WritersHold,
      Writing, Holding
  <1>14. ASSUME NEW c \in Clients, LoseAnswer(c) PROVE WritersHold'
    BY <1>14 DEF LoseAnswer, Finish, connVars, deskVars, Goto, TypeOK, WritersHold,
      Writing, Holding
  <1>15. ASSUME NEW c \in Clients, Kill(c) PROVE WritersHold'
    BY <1>15, ProcessesAssumption DEF Kill, Goto, deskVars, TypeOK, WritersHold,
      Writing, Holding
  <1>16. ASSUME NEW c \in Clients, ReadRequest(c) PROVE WritersHold'
    BY <1>16 DEF ReadRequest, clientVars, deskVars, TypeOK, WritersHold, Writing,
      Holding
  <1>17. ASSUME NEW c \in Clients, DropStalled(c) PROVE WritersHold'
    BY <1>17 DEF DropStalled, Listening, clientVars, deskVars, TypeOK, WritersHold,
      Writing, Holding
  <1>18. ASSUME NEW c \in Clients, WorkerGivesUp(c) PROVE WritersHold'
    BY <1>18 DEF WorkerGivesUp, clientVars, deskVars, TypeOK, WritersHold, Writing,
      Holding
  <1>19. ASSUME NEW c \in Clients, Take(c) PROVE WritersHold'
    BY <1>19 DEF Take, Busy, clientVars, deskVars, TypeOK, WritersHold, Writing,
      Holding
  <1>20. ASSUME NEW c \in Clients, CommitRequest(c) PROVE WritersHold'
    BY <1>20 DEF CommitRequest, Respond, RevisionMatches, clientVars, TypeOK,
      WritersHold, Writing, Holding
  <1>21. ASSUME NEW c \in Clients, RejectRequest(c) PROVE WritersHold'
    BY <1>21 DEF RejectRequest, Respond, clientVars, deskVars, TypeOK, WritersHold,
      Writing, Holding
  <1>22. ASSUME NEW d \in Desktops, Start(d) PROVE WritersHold'
    BY <1>22 DEF Start, Stands, clientVars, connVars, TypeOK, WritersHold, Writing,
      Holding
  <1>23. ASSUME NEW d \in Desktops, Claim(d) PROVE WritersHold'
    BY <1>23, ProcessesAssumption DEF Claim, Stands, clientVars, connVars, TypeOK,
      WritersHold, Writing, Holding
  <1>24. ASSUME NEW d \in Desktops, RefuseToStart(d) PROVE WritersHold'
    BY <1>24 DEF RefuseToStart, Stands, clientVars, connVars, TypeOK, WritersHold,
      Writing, Holding
  <1>25. ASSUME NEW d \in Desktops, Bind(d) PROVE WritersHold'
    BY <1>25 DEF Bind, Stands, clientVars, connVars, TypeOK, WritersHold, Writing,
      Holding
  <1>26. ASSUME NEW d \in Desktops, BindFails(d) PROVE WritersHold'
    BY <1>26 DEF BindFails, Stands, clientVars, connVars, TypeOK, WritersHold,
      Writing, Holding
  <1>27. ASSUME NEW d \in Desktops, Serve(d) PROVE WritersHold'
    BY <1>27 DEF Serve, Stands, clientVars, connVars, TypeOK, WritersHold, Writing,
      Holding
  <1>28. ASSUME NEW d \in Desktops, Type(d) PROVE WritersHold'
    BY <1>28 DEF Type, Busy, clientVars, connVars, TypeOK, WritersHold, Writing,
      Holding
  <1>29. ASSUME NEW d \in Desktops, Save(d) PROVE WritersHold'
    BY <1>29 DEF Save, clientVars, connVars, deskVars, TypeOK, WritersHold, Writing,
      Holding
  <1>30. ASSUME NEW d \in Desktops, Quit(d) PROVE WritersHold'
    BY <1>30 DEF Quit, Stands, clientVars, connVars, TypeOK, WritersHold, Writing,
      Holding
  <1>31. ASSUME NEW d \in Desktops, RemoveSocket(d) PROVE WritersHold'
    BY <1>31 DEF RemoveSocket, Stands, clientVars, connVars, TypeOK, WritersHold,
      Writing, Holding
  <1>32. ASSUME NEW d \in Desktops, LetGo(d) PROVE WritersHold'
    BY <1>32, ProcessesAssumption DEF LetGo, Stands, Hangup, clientVars, TypeOK,
      WritersHold, Writing, Holding
  <1>33. ASSUME NEW d \in Desktops, Crash(d) PROVE WritersHold'
    BY <1>33, ProcessesAssumption DEF Crash, Stands, Hangup, Running, clientVars,
      TypeOK, WritersHold, Writing, Holding
  <1>34. CASE UNCHANGED vars
    BY <1>34 DEF vars, clientVars, connVars, deskVars, WritersHold
  <1>35. QED BY <1>1, <1>2, <1>3, <1>4, <1>5, <1>6, <1>7, <1>8, <1>9, <1>10, <1>11,
    <1>12, <1>13, <1>14, <1>15, <1>16, <1>17, <1>18, <1>19, <1>20, <1>21, <1>22,
    <1>23, <1>24, <1>25, <1>26, <1>27, <1>28, <1>29, <1>30, <1>31, <1>32, <1>33,
    <1>34 DEF Next, ClientStep, ConnectionStep, DesktopStep

LEMMA PathKept ==
    ASSUME TypeOK, WritersHold, PathIsBound, [Next]_vars
    PROVE  PathIsBound'
  <1>1. ASSUME NEW c \in Clients, Ask(c) PROVE PathIsBound'
    BY <1>1 DEF Ask, Goto, connVars, deskVars, TypeOK, WritersHold, Holding,
      PathIsBound
  <1>2. ASSUME NEW c \in Clients, TakeLease(c) PROVE PathIsBound'
    BY <1>2 DEF TakeLease, Goto, connVars, deskVars, TypeOK, WritersHold, Holding,
      PathIsBound
  <1>3. ASSUME NEW c \in Clients, FindHeld(c) PROVE PathIsBound'
    BY <1>3 DEF FindHeld, Goto, connVars, deskVars, TypeOK, WritersHold, Holding,
      PathIsBound
  <1>4. ASSUME NEW c \in Clients, ReadNote(c) PROVE PathIsBound'
    BY <1>4 DEF ReadNote, Goto, connVars, deskVars, TypeOK, WritersHold, Holding,
      PathIsBound
  <1>5. ASSUME NEW c \in Clients, CommitDirect(c) PROVE PathIsBound'
    BY <1>5 DEF CommitDirect, Goto, RevisionMatches, connVars, deskVars, TypeOK,
      WritersHold, Holding, PathIsBound
  <1>6. ASSUME NEW c \in Clients, RejectDirect(c) PROVE PathIsBound'
    BY <1>6 DEF RejectDirect, Goto, connVars, deskVars, TypeOK, WritersHold,
      Holding, PathIsBound
  <1>7. ASSUME NEW c \in Clients, Release(c) PROVE PathIsBound'
    BY <1>7 DEF Release, Finish, connVars, deskVars, Goto, TypeOK, WritersHold,
      Holding, PathIsBound
  <1>8. ASSUME NEW c \in Clients, Connect(c) PROVE PathIsBound'
    BY <1>8 DEF Connect, Goto, Listening, deskVars, TypeOK, WritersHold, Holding,
      PathIsBound
  <1>9. ASSUME NEW c \in Clients, ConnectFails(c) PROVE PathIsBound'
    BY <1>9 DEF ConnectFails, Goto, Listening, connVars, deskVars, TypeOK,
      WritersHold, Holding, PathIsBound
  <1>10. ASSUME NEW c \in Clients, GiveUp(c) PROVE PathIsBound'
    BY <1>10 DEF GiveUp, Finish, Listening, connVars, deskVars, Goto, TypeOK,
      WritersHold, Holding, PathIsBound
  <1>11. ASSUME NEW c \in Clients, Send(c) PROVE PathIsBound'
    BY <1>11 DEF Send, Goto, deskVars, TypeOK, WritersHold, Holding, PathIsBound
  <1>12. ASSUME NEW c \in Clients, SendFails(c) PROVE PathIsBound'
    BY <1>12 DEF SendFails, Finish, connVars, deskVars, Goto, TypeOK, WritersHold,
      Holding, PathIsBound
  <1>13. ASSUME NEW c \in Clients, Receive(c) PROVE PathIsBound'
    BY <1>13 DEF Receive, Finish, connVars, deskVars, Goto, TypeOK, WritersHold,
      Holding, PathIsBound
  <1>14. ASSUME NEW c \in Clients, LoseAnswer(c) PROVE PathIsBound'
    BY <1>14 DEF LoseAnswer, Finish, connVars, deskVars, Goto, TypeOK, WritersHold,
      Holding, PathIsBound
  <1>15. ASSUME NEW c \in Clients, Kill(c) PROVE PathIsBound'
    BY <1>15 DEF Kill, Goto, deskVars, TypeOK, WritersHold, Holding, PathIsBound
  <1>16. ASSUME NEW c \in Clients, ReadRequest(c) PROVE PathIsBound'
    BY <1>16 DEF ReadRequest, clientVars, deskVars, TypeOK, WritersHold, Holding,
      PathIsBound
  <1>17. ASSUME NEW c \in Clients, DropStalled(c) PROVE PathIsBound'
    BY <1>17 DEF DropStalled, Listening, clientVars, deskVars, TypeOK, WritersHold,
      Holding, PathIsBound
  <1>18. ASSUME NEW c \in Clients, WorkerGivesUp(c) PROVE PathIsBound'
    BY <1>18 DEF WorkerGivesUp, clientVars, deskVars, TypeOK, WritersHold, Holding,
      PathIsBound
  <1>19. ASSUME NEW c \in Clients, Take(c) PROVE PathIsBound'
    BY <1>19 DEF Take, Busy, clientVars, deskVars, TypeOK, WritersHold, Holding,
      PathIsBound
  <1>20. ASSUME NEW c \in Clients, CommitRequest(c) PROVE PathIsBound'
    BY <1>20 DEF CommitRequest, Respond, RevisionMatches, clientVars, TypeOK,
      WritersHold, Holding, PathIsBound
  <1>21. ASSUME NEW c \in Clients, RejectRequest(c) PROVE PathIsBound'
    BY <1>21 DEF RejectRequest, Respond, clientVars, deskVars, TypeOK, WritersHold,
      Holding, PathIsBound
  <1>22. ASSUME NEW d \in Desktops, Start(d) PROVE PathIsBound'
    BY <1>22 DEF Start, Stands, clientVars, connVars, TypeOK, WritersHold, Holding,
      PathIsBound
  <1>23. ASSUME NEW d \in Desktops, Claim(d) PROVE PathIsBound'
    BY <1>23 DEF Claim, Stands, clientVars, connVars, TypeOK, WritersHold, Holding,
      PathIsBound
  <1>24. ASSUME NEW d \in Desktops, RefuseToStart(d) PROVE PathIsBound'
    BY <1>24 DEF RefuseToStart, Stands, clientVars, connVars, TypeOK, WritersHold,
      Holding, PathIsBound
  <1>25. ASSUME NEW d \in Desktops, Bind(d) PROVE PathIsBound'
    BY <1>25 DEF Bind, Stands, clientVars, connVars, TypeOK, WritersHold, Holding,
      PathIsBound
  <1>26. ASSUME NEW d \in Desktops, BindFails(d) PROVE PathIsBound'
    BY <1>26 DEF BindFails, Stands, clientVars, connVars, TypeOK, WritersHold,
      Holding, PathIsBound
  <1>27. ASSUME NEW d \in Desktops, Serve(d) PROVE PathIsBound'
    BY <1>27 DEF Serve, Stands, clientVars, connVars, TypeOK, WritersHold, Holding,
      PathIsBound
  <1>28. ASSUME NEW d \in Desktops, Type(d) PROVE PathIsBound'
    BY <1>28 DEF Type, Busy, clientVars, connVars, TypeOK, WritersHold, Holding,
      PathIsBound
  <1>29. ASSUME NEW d \in Desktops, Save(d) PROVE PathIsBound'
    BY <1>29 DEF Save, clientVars, connVars, deskVars, TypeOK, WritersHold, Holding,
      PathIsBound
  <1>30. ASSUME NEW d \in Desktops, Quit(d) PROVE PathIsBound'
    BY <1>30 DEF Quit, Stands, clientVars, connVars, TypeOK, WritersHold, Holding,
      PathIsBound
  <1>31. ASSUME NEW d \in Desktops, RemoveSocket(d) PROVE PathIsBound'
    BY <1>31 DEF RemoveSocket, Stands, clientVars, connVars, TypeOK, WritersHold,
      Holding, PathIsBound
  <1>32. ASSUME NEW d \in Desktops, LetGo(d) PROVE PathIsBound'
    BY <1>32 DEF LetGo, Stands, Hangup, clientVars, TypeOK, WritersHold, Holding,
      PathIsBound
  <1>33. ASSUME NEW d \in Desktops, Crash(d) PROVE PathIsBound'
    BY <1>33 DEF Crash, Stands, Hangup, Running, clientVars, TypeOK, WritersHold,
      Holding, PathIsBound
  <1>34. CASE UNCHANGED vars
    BY <1>34 DEF vars, clientVars, connVars, deskVars, PathIsBound
  <1>35. QED BY <1>1, <1>2, <1>3, <1>4, <1>5, <1>6, <1>7, <1>8, <1>9, <1>10, <1>11,
    <1>12, <1>13, <1>14, <1>15, <1>16, <1>17, <1>18, <1>19, <1>20, <1>21, <1>22,
    <1>23, <1>24, <1>25, <1>26, <1>27, <1>28, <1>29, <1>30, <1>31, <1>32, <1>33,
    <1>34 DEF Next, ClientStep, ConnectionStep, DesktopStep

LEMMA StagesKept ==
    ASSUME TypeOK, RequestStages, [Next]_vars
    PROVE  RequestStages'
  <1>1. ASSUME NEW c \in Clients, Ask(c) PROVE RequestStages'
    BY <1>1 DEF Ask, Goto, connVars, deskVars, TypeOK, RequestStages, Writing
  <1>2. ASSUME NEW c \in Clients, TakeLease(c) PROVE RequestStages'
    BY <1>2 DEF TakeLease, Goto, connVars, deskVars, TypeOK, RequestStages, Writing
  <1>3. ASSUME NEW c \in Clients, FindHeld(c) PROVE RequestStages'
    BY <1>3 DEF FindHeld, Goto, connVars, deskVars, TypeOK, RequestStages, Writing
  <1>4. ASSUME NEW c \in Clients, ReadNote(c) PROVE RequestStages'
    BY <1>4 DEF ReadNote, Goto, connVars, deskVars, TypeOK, RequestStages, Writing
  <1>5. ASSUME NEW c \in Clients, CommitDirect(c) PROVE RequestStages'
    BY <1>5 DEF CommitDirect, Goto, RevisionMatches, connVars, deskVars, TypeOK,
      RequestStages, Writing
  <1>6. ASSUME NEW c \in Clients, RejectDirect(c) PROVE RequestStages'
    BY <1>6 DEF RejectDirect, Goto, connVars, deskVars, TypeOK, RequestStages,
      Writing
  <1>7. ASSUME NEW c \in Clients, Release(c) PROVE RequestStages'
    BY <1>7 DEF Release, Finish, connVars, deskVars, Goto, TypeOK, RequestStages,
      Writing
  <1>8. ASSUME NEW c \in Clients, Connect(c) PROVE RequestStages'
    BY <1>8 DEF Connect, Goto, Listening, deskVars, TypeOK, RequestStages, Writing
  <1>9. ASSUME NEW c \in Clients, ConnectFails(c) PROVE RequestStages'
    BY <1>9 DEF ConnectFails, Goto, Listening, connVars, deskVars, TypeOK,
      RequestStages, Writing
  <1>10. ASSUME NEW c \in Clients, GiveUp(c) PROVE RequestStages'
    BY <1>10 DEF GiveUp, Finish, Listening, connVars, deskVars, Goto, TypeOK,
      RequestStages, Writing
  <1>11. ASSUME NEW c \in Clients, Send(c) PROVE RequestStages'
    BY <1>11 DEF Send, Goto, deskVars, TypeOK, RequestStages, Writing
  <1>12. ASSUME NEW c \in Clients, SendFails(c) PROVE RequestStages'
    BY <1>12 DEF SendFails, Finish, connVars, deskVars, Goto, TypeOK, RequestStages,
      Writing
  <1>13. ASSUME NEW c \in Clients, Receive(c) PROVE RequestStages'
    BY <1>13 DEF Receive, Finish, connVars, deskVars, Goto, TypeOK, RequestStages,
      Writing
  <1>14. ASSUME NEW c \in Clients, LoseAnswer(c) PROVE RequestStages'
    BY <1>14 DEF LoseAnswer, Finish, connVars, deskVars, Goto, TypeOK,
      RequestStages, Writing
  <1>15. ASSUME NEW c \in Clients, Kill(c) PROVE RequestStages'
    BY <1>15 DEF Kill, Goto, deskVars, TypeOK, RequestStages, Writing
  <1>16. ASSUME NEW c \in Clients, ReadRequest(c) PROVE RequestStages'
    BY <1>16 DEF ReadRequest, clientVars, deskVars, TypeOK, RequestStages, Writing
  <1>17. ASSUME NEW c \in Clients, DropStalled(c) PROVE RequestStages'
    BY <1>17 DEF DropStalled, Listening, clientVars, deskVars, TypeOK,
      RequestStages, Writing
  <1>18. ASSUME NEW c \in Clients, WorkerGivesUp(c) PROVE RequestStages'
    BY <1>18 DEF WorkerGivesUp, clientVars, deskVars, TypeOK, RequestStages, Writing
  <1>19. ASSUME NEW c \in Clients, Take(c) PROVE RequestStages'
    BY <1>19 DEF Take, Busy, clientVars, deskVars, TypeOK, RequestStages, Writing
  <1>20. ASSUME NEW c \in Clients, CommitRequest(c) PROVE RequestStages'
    BY <1>20 DEF CommitRequest, Respond, RevisionMatches, clientVars, TypeOK,
      RequestStages, Writing
  <1>21. ASSUME NEW c \in Clients, RejectRequest(c) PROVE RequestStages'
    BY <1>21 DEF RejectRequest, Respond, clientVars, deskVars, TypeOK,
      RequestStages, Writing
  <1>22. ASSUME NEW d \in Desktops, Start(d) PROVE RequestStages'
    BY <1>22 DEF Start, Stands, clientVars, connVars, TypeOK, RequestStages, Writing
  <1>23. ASSUME NEW d \in Desktops, Claim(d) PROVE RequestStages'
    BY <1>23 DEF Claim, Stands, clientVars, connVars, TypeOK, RequestStages, Writing
  <1>24. ASSUME NEW d \in Desktops, RefuseToStart(d) PROVE RequestStages'
    BY <1>24 DEF RefuseToStart, Stands, clientVars, connVars, TypeOK, RequestStages,
      Writing
  <1>25. ASSUME NEW d \in Desktops, Bind(d) PROVE RequestStages'
    BY <1>25 DEF Bind, Stands, clientVars, connVars, TypeOK, RequestStages, Writing
  <1>26. ASSUME NEW d \in Desktops, BindFails(d) PROVE RequestStages'
    BY <1>26 DEF BindFails, Stands, clientVars, connVars, TypeOK, RequestStages,
      Writing
  <1>27. ASSUME NEW d \in Desktops, Serve(d) PROVE RequestStages'
    BY <1>27 DEF Serve, Stands, clientVars, connVars, TypeOK, RequestStages, Writing
  <1>28. ASSUME NEW d \in Desktops, Type(d) PROVE RequestStages'
    BY <1>28 DEF Type, Busy, clientVars, connVars, TypeOK, RequestStages, Writing
  <1>29. ASSUME NEW d \in Desktops, Save(d) PROVE RequestStages'
    BY <1>29 DEF Save, clientVars, connVars, deskVars, TypeOK, RequestStages,
      Writing
  <1>30. ASSUME NEW d \in Desktops, Quit(d) PROVE RequestStages'
    BY <1>30 DEF Quit, Stands, clientVars, connVars, TypeOK, RequestStages, Writing
  <1>31. ASSUME NEW d \in Desktops, RemoveSocket(d) PROVE RequestStages'
    BY <1>31 DEF RemoveSocket, Stands, clientVars, connVars, TypeOK, RequestStages,
      Writing
  <1>32. ASSUME NEW d \in Desktops, LetGo(d) PROVE RequestStages'
    BY <1>32 DEF LetGo, Stands, Hangup, clientVars, TypeOK, RequestStages, Writing
  <1>33. ASSUME NEW d \in Desktops, Crash(d) PROVE RequestStages'
    BY <1>33 DEF Crash, Stands, Hangup, Running, clientVars, TypeOK, RequestStages,
      Writing
  <1>34. CASE UNCHANGED vars
    BY <1>34 DEF vars, clientVars, connVars, deskVars, RequestStages
  <1>35. QED BY <1>1, <1>2, <1>3, <1>4, <1>5, <1>6, <1>7, <1>8, <1>9, <1>10, <1>11,
    <1>12, <1>13, <1>14, <1>15, <1>16, <1>17, <1>18, <1>19, <1>20, <1>21, <1>22,
    <1>23, <1>24, <1>25, <1>26, <1>27, <1>28, <1>29, <1>30, <1>31, <1>32, <1>33,
    <1>34 DEF Next, ClientStep, ConnectionStep, DesktopStep

-----------------------------------------------------------------------------
(* Texts                                                                   *)

LEMMA BasesKept ==
    ASSUME TypeOK, WritersHold, RequestStages, BasesAreCurrent, [Next]_vars
    PROVE  BasesAreCurrent'
  <1>1. ASSUME NEW c \in Clients, Ask(c) PROVE BasesAreCurrent'
    BY <1>1 DEF Ask, Goto, connVars, deskVars, TypeOK, BasesAreCurrent
  <1>2. ASSUME NEW c \in Clients, TakeLease(c) PROVE BasesAreCurrent'
    BY <1>2 DEF TakeLease, Goto, connVars, deskVars, TypeOK, BasesAreCurrent
  <1>3. ASSUME NEW c \in Clients, FindHeld(c) PROVE BasesAreCurrent'
    BY <1>3 DEF FindHeld, Goto, connVars, deskVars, TypeOK, BasesAreCurrent
  <1>4. ASSUME NEW c \in Clients, ReadNote(c) PROVE BasesAreCurrent'
    BY <1>4 DEF ReadNote, Goto, connVars, deskVars, TypeOK, BasesAreCurrent
  <1>5. ASSUME NEW c \in Clients, CommitDirect(c) PROVE BasesAreCurrent'
    <2>1. lease = c /\ pc'[c] /= "direct"
      BY <1>5 DEF CommitDirect, Goto, WritersHold, Writing, TypeOK
    <2>2. \A x \in Clients : pc'[x] /= "direct"
      BY <1>5, <2>1 DEF CommitDirect, Goto, WritersHold, Writing, TypeOK
    <2>3. \A d \in Desktops : desk'[d] /= "serving"
      BY <1>5, <2>1, ProcessesAssumption
      DEF CommitDirect, deskVars, WritersHold, Holding
    <2>4. QED BY <2>2, <2>3 DEF BasesAreCurrent
  <1>6. ASSUME NEW c \in Clients, RejectDirect(c) PROVE BasesAreCurrent'
    BY <1>6 DEF RejectDirect, Goto, connVars, deskVars, TypeOK, BasesAreCurrent
  <1>7. ASSUME NEW c \in Clients, Release(c) PROVE BasesAreCurrent'
    BY <1>7 DEF Release, Finish, connVars, deskVars, Goto, TypeOK, BasesAreCurrent
  <1>8. ASSUME NEW c \in Clients, Connect(c) PROVE BasesAreCurrent'
    BY <1>8 DEF Connect, Goto, Listening, deskVars, TypeOK, BasesAreCurrent
  <1>9. ASSUME NEW c \in Clients, ConnectFails(c) PROVE BasesAreCurrent'
    BY <1>9 DEF ConnectFails, Goto, Listening, connVars, deskVars, TypeOK,
      BasesAreCurrent
  <1>10. ASSUME NEW c \in Clients, GiveUp(c) PROVE BasesAreCurrent'
    BY <1>10 DEF GiveUp, Finish, Listening, connVars, deskVars, Goto, TypeOK,
      BasesAreCurrent
  <1>11. ASSUME NEW c \in Clients, Send(c) PROVE BasesAreCurrent'
    BY <1>11 DEF Send, Goto, deskVars, TypeOK, BasesAreCurrent
  <1>12. ASSUME NEW c \in Clients, SendFails(c) PROVE BasesAreCurrent'
    BY <1>12 DEF SendFails, Finish, connVars, deskVars, Goto, TypeOK,
      BasesAreCurrent
  <1>13. ASSUME NEW c \in Clients, Receive(c) PROVE BasesAreCurrent'
    BY <1>13 DEF Receive, Finish, connVars, deskVars, Goto, TypeOK, BasesAreCurrent
  <1>14. ASSUME NEW c \in Clients, LoseAnswer(c) PROVE BasesAreCurrent'
    BY <1>14 DEF LoseAnswer, Finish, connVars, deskVars, Goto, TypeOK,
      BasesAreCurrent
  <1>15. ASSUME NEW c \in Clients, Kill(c) PROVE BasesAreCurrent'
    BY <1>15 DEF Kill, Goto, deskVars, TypeOK, BasesAreCurrent
  <1>16. ASSUME NEW c \in Clients, ReadRequest(c) PROVE BasesAreCurrent'
    BY <1>16 DEF ReadRequest, clientVars, deskVars, TypeOK, BasesAreCurrent
  <1>17. ASSUME NEW c \in Clients, DropStalled(c) PROVE BasesAreCurrent'
    BY <1>17 DEF DropStalled, Listening, clientVars, deskVars, TypeOK,
      BasesAreCurrent
  <1>18. ASSUME NEW c \in Clients, WorkerGivesUp(c) PROVE BasesAreCurrent'
    BY <1>18 DEF WorkerGivesUp, clientVars, deskVars, TypeOK, BasesAreCurrent
  <1>19. ASSUME NEW c \in Clients, Take(c) PROVE BasesAreCurrent'
    BY <1>19 DEF Take, Busy, clientVars, deskVars, TypeOK, BasesAreCurrent
  <1>20. ASSUME NEW c \in Clients, CommitRequest(c) PROVE BasesAreCurrent'
    <2> DEFINE d == peer[c]
    <2>1. d \in Desktops
      BY <1>20 DEF CommitRequest, RequestStages
    <2>2. lease = d
      BY <1>20, <2>1 DEF CommitRequest, WritersHold, Holding
    <2>3. \A x \in Clients : pc'[x] /= "direct"
      BY <1>20, <2>1, <2>2, ProcessesAssumption
      DEF CommitRequest, clientVars, WritersHold, Writing
    <2>4. ASSUME NEW e \in Desktops, desk'[e] = "serving"
          PROVE  \E n \in 0..typed' : live'[e] = note' \o Edits(n)
      <3>1. e = d
        BY <1>20, <2>2, <2>4 DEF CommitRequest, WritersHold, Holding
      <3>2. live'[d] = note'
        BY <1>20, <2>1 DEF CommitRequest, TypeOK
      <3>3. note' \in Seq(Marks)
        BY TypesKept DEF TypeOK, Text, Marks
      <3>4. 0 \in 0..typed'
        BY <1>20 DEF CommitRequest, TypeOK
      <3>5. QED BY <3>1, <3>2, <3>3, <3>4, NoEdits
    <2>5. QED BY <2>3, <2>4 DEF BasesAreCurrent
  <1>21. ASSUME NEW c \in Clients, RejectRequest(c) PROVE BasesAreCurrent'
    BY <1>21 DEF RejectRequest, Respond, clientVars, deskVars, TypeOK,
      BasesAreCurrent
  <1>22. ASSUME NEW d \in Desktops, Start(d) PROVE BasesAreCurrent'
    BY <1>22 DEF Start, Stands, clientVars, connVars, TypeOK, BasesAreCurrent
  <1>23. ASSUME NEW d \in Desktops, Claim(d) PROVE BasesAreCurrent'
    BY <1>23 DEF Claim, Stands, clientVars, connVars, TypeOK, BasesAreCurrent
  <1>24. ASSUME NEW d \in Desktops, RefuseToStart(d) PROVE BasesAreCurrent'
    BY <1>24 DEF RefuseToStart, Stands, clientVars, connVars, TypeOK,
      BasesAreCurrent
  <1>25. ASSUME NEW d \in Desktops, Bind(d) PROVE BasesAreCurrent'
    BY <1>25 DEF Bind, Stands, clientVars, connVars, TypeOK, BasesAreCurrent
  <1>26. ASSUME NEW d \in Desktops, BindFails(d) PROVE BasesAreCurrent'
    BY <1>26 DEF BindFails, Stands, clientVars, connVars, TypeOK, BasesAreCurrent
  <1>27. ASSUME NEW d \in Desktops, Serve(d) PROVE BasesAreCurrent'
    <2>1. lease = d
      BY <1>27 DEF Serve, WritersHold, Holding
    <2>2. \A x \in Clients : pc'[x] = "direct" => base'[x] = note'
      BY <1>27 DEF Serve, clientVars, BasesAreCurrent
    <2>3. ASSUME NEW e \in Desktops, desk'[e] = "serving"
          PROVE  \E n \in 0..typed' : live'[e] = note' \o Edits(n)
      <3>1. CASE e = d
        <4>1. live'[d] = note' \o Edits(0)
          BY <1>27, NoEdits DEF Serve, TypeOK, Text, Marks
        <4>2. 0 \in 0..typed'
          BY <1>27 DEF Serve, TypeOK
        <4>3. QED BY <3>1, <4>1, <4>2
      <3>2. CASE e /= d
        BY <1>27, <2>3, <3>2 DEF Serve, Stands, BasesAreCurrent, TypeOK
      <3>3. QED BY <3>1, <3>2
    <2>4. QED BY <2>2, <2>3 DEF BasesAreCurrent
  <1>28. ASSUME NEW d \in Desktops, Type(d) PROVE BasesAreCurrent'
    <2>1. \A x \in Clients : pc'[x] = "direct" => base'[x] = note'
      BY <1>28 DEF Type, clientVars, BasesAreCurrent
    <2>2. ASSUME NEW e \in Desktops, desk'[e] = "serving"
          PROVE  \E n \in 0..typed' : live'[e] = note' \o Edits(n)
      <3>1. PICK n \in 0..typed : live[e] = note \o Edits(n)
        BY <1>28, <2>2 DEF Type, BasesAreCurrent
      <3>2. n \in 0..typed' /\ n + 1 \in 0..typed' /\ n \in Nat
        BY <1>28, <3>1 DEF Type, TypeOK
      <3>3. CASE e = d
        <4>1. live'[e] = Append(note \o Edits(n), ReaderEdit)
          BY <1>28, <3>1, <3>3 DEF Type, TypeOK
        <4>2. note \in Seq(Marks)
          BY DEF TypeOK, Text, Marks
        <4>3. live'[e] = note' \o Edits(n + 1)
          BY <1>28, <3>2, <4>1, <4>2, OneMoreEdit DEF Type
        <4>4. QED BY <3>2, <4>3
      <3>4. CASE e /= d
        BY <1>28, <3>1, <3>2, <3>4 DEF Type, TypeOK
      <3>5. QED BY <3>3, <3>4
    <2>3. QED BY <2>1, <2>2 DEF BasesAreCurrent
  <1>29. ASSUME NEW d \in Desktops, Save(d) PROVE BasesAreCurrent'
    <2>1. lease = d
      BY <1>29 DEF Save, WritersHold, Holding
    <2>2. \A x \in Clients : pc'[x] /= "direct"
      BY <1>29, <2>1, ProcessesAssumption DEF Save, clientVars, WritersHold, Writing
    <2>3. ASSUME NEW e \in Desktops, desk'[e] = "serving"
          PROVE  \E n \in 0..typed' : live'[e] = note' \o Edits(n)
      <3>1. e = d
        BY <1>29, <2>1, <2>3 DEF Save, deskVars, WritersHold, Holding
      <3>2. live'[d] = note' /\ note' \in Seq(Marks)
        BY <1>29 DEF Save, deskVars, TypeOK, Text, Marks
      <3>3. 0 \in 0..typed'
        BY <1>29 DEF Save, deskVars, TypeOK
      <3>4. QED BY <3>1, <3>2, <3>3, NoEdits
    <2>4. QED BY <2>2, <2>3 DEF BasesAreCurrent
  <1>30. ASSUME NEW d \in Desktops, Quit(d) PROVE BasesAreCurrent'
    <2>1. lease = d
      BY <1>30 DEF Quit, WritersHold, Holding
    <2>2. \A x \in Clients : pc'[x] /= "direct"
      BY <1>30, <2>1, ProcessesAssumption DEF Quit, clientVars, WritersHold, Writing
    <2>3. \A e \in Desktops : desk'[e] /= "serving"
      BY <1>30, <2>1 DEF Quit, Stands, WritersHold, Holding, TypeOK
    <2>4. QED BY <2>2, <2>3 DEF BasesAreCurrent
  <1>31. ASSUME NEW d \in Desktops, RemoveSocket(d) PROVE BasesAreCurrent'
    BY <1>31 DEF RemoveSocket, Stands, clientVars, connVars, TypeOK, BasesAreCurrent
  <1>32. ASSUME NEW d \in Desktops, LetGo(d) PROVE BasesAreCurrent'
    BY <1>32 DEF LetGo, Stands, Hangup, clientVars, TypeOK, BasesAreCurrent
  <1>33. ASSUME NEW d \in Desktops, Crash(d) PROVE BasesAreCurrent'
    BY <1>33 DEF Crash, Stands, Hangup, Running, clientVars, TypeOK, BasesAreCurrent
  <1>34. CASE UNCHANGED vars
    BY <1>34 DEF vars, clientVars, connVars, deskVars, BasesAreCurrent
  <1>35. QED BY <1>1, <1>2, <1>3, <1>4, <1>5, <1>6, <1>7, <1>8, <1>9, <1>10, <1>11,
    <1>12, <1>13, <1>14, <1>15, <1>16, <1>17, <1>18, <1>19, <1>20, <1>21, <1>22,
    <1>23, <1>24, <1>25, <1>26, <1>27, <1>28, <1>29, <1>30, <1>31, <1>32, <1>33,
    <1>34 DEF Next, ClientStep, ConnectionStep, DesktopStep

\* A direct write puts its change on top of the file.
LEMMA DirectChange ==
    ASSUME TypeOK, BasesAreCurrent, NEW c \in Clients, CommitDirect(c)
    PROVE  /\ note' = Append(note \o Edits(0), c)
           /\ RevisionMatches(c, note \o Edits(0))
           /\ \A x \in Clients : Written(x)' <=> x = c \/ Written(x)
  <1>1. note \in Seq(Marks) /\ c \in Marks
    BY DEF TypeOK, Text, Marks
  <1>2. base[c] = note
    BY DEF CommitDirect, BasesAreCurrent
  <1>3. note = note \o Edits(0)
    BY <1>1, NoEdits
  <1>4. note' = Append(note \o Edits(0), c)
    BY <1>2, <1>3 DEF CommitDirect
  <1>5. RevisionMatches(c, note \o Edits(0))
    BY <1>2, <1>3 DEF CommitDirect
  <1>6. \A x \in Clients : Written(x)' <=> x = c \/ Written(x)
    <2>1. 0 \in Nat
      OBVIOUS
    <2>2. QED BY <1>1, <1>4, <2>1, WhatAppendAdds DEF Written
  <1>7. QED BY <1>4, <1>5, <1>6

\* The authority puts its change on top of the file and of the edits its
\* window holds.
LEMMA ServedChange ==
    ASSUME TypeOK, RequestStages, BasesAreCurrent,
           NEW c \in Clients, CommitRequest(c)
    PROVE  /\ \E n \in 0..MaxEdits : /\ note' = Append(note \o Edits(n), c)
                                     /\ RevisionMatches(c, note \o Edits(n))
           /\ \A x \in Clients : Written(x)' <=> x = c \/ Written(x)
  <1>1. note \in Seq(Marks) /\ c \in Marks
    BY DEF TypeOK, Text, Marks
  <1>2. peer[c] \in Desktops /\ desk[peer[c]] = "serving"
    BY DEF CommitRequest, RequestStages
  <1>3. PICK n \in 0..typed : live[peer[c]] = note \o Edits(n)
    BY <1>2 DEF BasesAreCurrent
  <1>4. n \in Nat /\ n \in 0..MaxEdits
    BY <1>3, EditsAssumption DEF TypeOK
  <1>5. note' = Append(note \o Edits(n), c) /\ RevisionMatches(c, note \o Edits(n))
    BY <1>3 DEF CommitRequest
  <1>6. \A x \in Clients : Written(x)' <=> x = c \/ Written(x)
    BY <1>1, <1>4, <1>5, WhatAppendAdds DEF Written
  <1>7. QED BY <1>4, <1>5, <1>6

\* A save puts the reader's edits on top of the file.
LEMMA SavedEdits ==
    ASSUME TypeOK, BasesAreCurrent, NEW d \in Desktops, Save(d) \/ Quit(d)
    PROVE  /\ \E n \in 0..MaxEdits : note' = note \o Edits(n)
           /\ \A x \in Clients : Written(x)' <=> Written(x)
  <1>1. note \in Seq(Marks)
    BY DEF TypeOK, Text, Marks
  <1>2. desk[d] = "serving" /\ note' = live[d]
    BY DEF Save, Quit
  <1>3. PICK n \in 0..typed : live[d] = note \o Edits(n)
    BY <1>2 DEF BasesAreCurrent
  <1>4. n \in Nat /\ n \in 0..MaxEdits
    BY <1>3, EditsAssumption DEF TypeOK
  <1>5. note' = note \o Edits(n)
    BY <1>2, <1>3
  <1>6. \A x \in Clients : Written(x)' <=> Written(x)
    BY <1>1, <1>4, <1>5, WhatEditsAdd DEF Written
  <1>7. QED BY <1>4, <1>5, <1>6

LEMMA EffectsKept ==
    ASSUME TypeOK, WritersHold, RequestStages, BasesAreCurrent, EffectsKnown, [Next]_vars
    PROVE  EffectsKnown'
  <1>1. ASSUME NEW c \in Clients, Ask(c) PROVE EffectsKnown'
    BY <1>1 DEF Ask, Goto, connVars, deskVars, TypeOK, RequestStages, EffectsKnown,
      EffectKnown, Outstanding, Written
  <1>2. ASSUME NEW c \in Clients, TakeLease(c) PROVE EffectsKnown'
    BY <1>2 DEF TakeLease, Goto, connVars, deskVars, TypeOK, RequestStages,
      EffectsKnown, EffectKnown, Outstanding, Written
  <1>3. ASSUME NEW c \in Clients, FindHeld(c) PROVE EffectsKnown'
    BY <1>3 DEF FindHeld, Goto, connVars, deskVars, TypeOK, RequestStages,
      EffectsKnown, EffectKnown, Outstanding, Written
  <1>4. ASSUME NEW c \in Clients, ReadNote(c) PROVE EffectsKnown'
    BY <1>4 DEF ReadNote, Goto, connVars, deskVars, TypeOK, RequestStages,
      EffectsKnown, EffectKnown, Outstanding, Written
  <1>5. ASSUME NEW c \in Clients, CommitDirect(c) PROVE EffectsKnown'
    <2>1. \A x \in Clients : Written(x)' <=> x = c \/ Written(x)
      BY <1>5, DirectChange
    <2>2. EffectKnown(c)'
      BY <1>5, <2>1 DEF CommitDirect, Goto, connVars, deskVars, TypeOK,
        RequestStages, Writing, EffectsKnown, EffectKnown, Outstanding
    <2>3. ASSUME NEW x \in Clients, x /= c PROVE EffectKnown(x)'
      <3>1. EffectKnown(x) /\ (Written(x)' <=> Written(x))
        BY <2>1, <2>3 DEF EffectsKnown
      <3>2. pc'[x] = pc[x] /\ wire'[x] = wire[x] /\ job'[x] = job[x]
            /\ reply'[x] = reply[x] /\ answer'[x] = answer[x]
        BY <1>5, <2>3 DEF CommitDirect, Goto, connVars, deskVars, TypeOK,
          RequestStages, Writing, EffectsKnown, EffectKnown, Outstanding
      <3>3. QED BY <3>1, <3>2 DEF EffectKnown, Outstanding
    <2>4. QED BY <2>2, <2>3 DEF EffectsKnown
  <1>6. ASSUME NEW c \in Clients, RejectDirect(c) PROVE EffectsKnown'
    BY <1>6 DEF RejectDirect, Goto, connVars, deskVars, TypeOK, RequestStages,
      EffectsKnown, EffectKnown, Outstanding, Written
  <1>7. ASSUME NEW c \in Clients, Release(c) PROVE EffectsKnown'
    BY <1>7 DEF Release, Finish, connVars, deskVars, Goto, TypeOK, RequestStages,
      EffectsKnown, EffectKnown, Outstanding, Written
  <1>8. ASSUME NEW c \in Clients, Connect(c) PROVE EffectsKnown'
    BY <1>8 DEF Connect, Goto, Listening, deskVars, TypeOK, RequestStages,
      EffectsKnown, EffectKnown, Outstanding, Written
  <1>9. ASSUME NEW c \in Clients, ConnectFails(c) PROVE EffectsKnown'
    BY <1>9 DEF ConnectFails, Goto, Listening, connVars, deskVars, TypeOK,
      RequestStages, EffectsKnown, EffectKnown, Outstanding, Written
  <1>10. ASSUME NEW c \in Clients, GiveUp(c) PROVE EffectsKnown'
    BY <1>10 DEF GiveUp, Finish, Listening, connVars, deskVars, Goto, TypeOK,
      RequestStages, EffectsKnown, EffectKnown, Outstanding, Written
  <1>11. ASSUME NEW c \in Clients, Send(c) PROVE EffectsKnown'
    BY <1>11 DEF Send, Goto, deskVars, TypeOK, RequestStages, EffectsKnown,
      EffectKnown, Outstanding, Written
  <1>12. ASSUME NEW c \in Clients, SendFails(c) PROVE EffectsKnown'
    BY <1>12 DEF SendFails, Finish, connVars, deskVars, Goto, TypeOK, RequestStages,
      EffectsKnown, EffectKnown, Outstanding, Written
  <1>13. ASSUME NEW c \in Clients, Receive(c) PROVE EffectsKnown'
    BY <1>13 DEF Receive, Finish, connVars, deskVars, Goto, TypeOK, RequestStages,
      EffectsKnown, EffectKnown, Outstanding, Written
  <1>14. ASSUME NEW c \in Clients, LoseAnswer(c) PROVE EffectsKnown'
    BY <1>14 DEF LoseAnswer, Finish, connVars, deskVars, Goto, TypeOK,
      RequestStages, EffectsKnown, EffectKnown, Outstanding, Written
  <1>15. ASSUME NEW c \in Clients, Kill(c) PROVE EffectsKnown'
    BY <1>15 DEF Kill, Goto, deskVars, TypeOK, RequestStages, EffectsKnown,
      EffectKnown, Outstanding, Written
  <1>16. ASSUME NEW c \in Clients, ReadRequest(c) PROVE EffectsKnown'
    BY <1>16 DEF ReadRequest, clientVars, deskVars, TypeOK, RequestStages,
      EffectsKnown, EffectKnown, Outstanding, Written
  <1>17. ASSUME NEW c \in Clients, DropStalled(c) PROVE EffectsKnown'
    BY <1>17 DEF DropStalled, Listening, clientVars, deskVars, TypeOK,
      RequestStages, EffectsKnown, EffectKnown, Outstanding, Written
  <1>18. ASSUME NEW c \in Clients, WorkerGivesUp(c) PROVE EffectsKnown'
    BY <1>18 DEF WorkerGivesUp, clientVars, deskVars, TypeOK, RequestStages,
      EffectsKnown, EffectKnown, Outstanding, Written
  <1>19. ASSUME NEW c \in Clients, Take(c) PROVE EffectsKnown'
    BY <1>19 DEF Take, Busy, clientVars, deskVars, TypeOK, RequestStages,
      EffectsKnown, EffectKnown, Outstanding, Written
  <1>20. ASSUME NEW c \in Clients, CommitRequest(c) PROVE EffectsKnown'
    <2>1. \A x \in Clients : Written(x)' <=> x = c \/ Written(x)
      BY <1>20, ServedChange
    <2>2. EffectKnown(c)'
      BY <1>20, <2>1 DEF CommitRequest, Respond, clientVars, TypeOK, RequestStages,
        Writing, EffectsKnown, EffectKnown, Outstanding
    <2>3. ASSUME NEW x \in Clients, x /= c PROVE EffectKnown(x)'
      <3>1. EffectKnown(x) /\ (Written(x)' <=> Written(x))
        BY <2>1, <2>3 DEF EffectsKnown
      <3>2. pc'[x] = pc[x] /\ wire'[x] = wire[x] /\ job'[x] = job[x]
            /\ reply'[x] = reply[x] /\ answer'[x] = answer[x]
        BY <1>20, <2>3 DEF CommitRequest, Respond, clientVars, TypeOK,
          RequestStages, Writing, EffectsKnown, EffectKnown, Outstanding
      <3>3. QED BY <3>1, <3>2 DEF EffectKnown, Outstanding
    <2>4. QED BY <2>2, <2>3 DEF EffectsKnown
  <1>21. ASSUME NEW c \in Clients, RejectRequest(c) PROVE EffectsKnown'
    BY <1>21 DEF RejectRequest, Respond, clientVars, deskVars, TypeOK,
      RequestStages, EffectsKnown, EffectKnown, Outstanding, Written
  <1>22. ASSUME NEW d \in Desktops, Start(d) PROVE EffectsKnown'
    BY <1>22 DEF Start, Stands, clientVars, connVars, TypeOK, RequestStages,
      EffectsKnown, EffectKnown, Outstanding, Written
  <1>23. ASSUME NEW d \in Desktops, Claim(d) PROVE EffectsKnown'
    BY <1>23 DEF Claim, Stands, clientVars, connVars, TypeOK, RequestStages,
      EffectsKnown, EffectKnown, Outstanding, Written
  <1>24. ASSUME NEW d \in Desktops, RefuseToStart(d) PROVE EffectsKnown'
    BY <1>24 DEF RefuseToStart, Stands, clientVars, connVars, TypeOK, RequestStages,
      EffectsKnown, EffectKnown, Outstanding, Written
  <1>25. ASSUME NEW d \in Desktops, Bind(d) PROVE EffectsKnown'
    BY <1>25 DEF Bind, Stands, clientVars, connVars, TypeOK, RequestStages,
      EffectsKnown, EffectKnown, Outstanding, Written
  <1>26. ASSUME NEW d \in Desktops, BindFails(d) PROVE EffectsKnown'
    BY <1>26 DEF BindFails, Stands, clientVars, connVars, TypeOK, RequestStages,
      EffectsKnown, EffectKnown, Outstanding, Written
  <1>27. ASSUME NEW d \in Desktops, Serve(d) PROVE EffectsKnown'
    BY <1>27 DEF Serve, Stands, clientVars, connVars, TypeOK, RequestStages,
      EffectsKnown, EffectKnown, Outstanding, Written
  <1>28. ASSUME NEW d \in Desktops, Type(d) PROVE EffectsKnown'
    BY <1>28 DEF Type, Busy, clientVars, connVars, TypeOK, RequestStages,
      EffectsKnown, EffectKnown, Outstanding, Written
  <1>29. ASSUME NEW d \in Desktops, Save(d) PROVE EffectsKnown'
    <2>1. \A x \in Clients : Written(x)' <=> Written(x)
      BY <1>29, SavedEdits
    <2>2. QED BY <1>29, <2>1 DEF Save, clientVars, connVars, deskVars, EffectsKnown,
      EffectKnown, Outstanding
  <1>30. ASSUME NEW d \in Desktops, Quit(d) PROVE EffectsKnown'
    <2>1. \A x \in Clients : Written(x)' <=> Written(x)
      BY <1>30, SavedEdits
    <2>2. QED BY <1>30, <2>1 DEF Quit, Stands, clientVars, connVars, EffectsKnown,
      EffectKnown, Outstanding
  <1>31. ASSUME NEW d \in Desktops, RemoveSocket(d) PROVE EffectsKnown'
    BY <1>31 DEF RemoveSocket, Stands, clientVars, connVars, TypeOK, RequestStages,
      EffectsKnown, EffectKnown, Outstanding, Written
  <1>32. ASSUME NEW d \in Desktops, LetGo(d) PROVE EffectsKnown'
    BY <1>32 DEF LetGo, Stands, Hangup, clientVars, TypeOK, RequestStages,
      EffectsKnown, EffectKnown, Outstanding, Written
  <1>33. ASSUME NEW d \in Desktops, Crash(d) PROVE EffectsKnown'
    BY <1>33 DEF Crash, Stands, Hangup, Running, clientVars, TypeOK, RequestStages,
      EffectsKnown, EffectKnown, Outstanding, Written
  <1>34. CASE UNCHANGED vars
    BY <1>34 DEF vars, clientVars, connVars, deskVars, EffectsKnown, EffectKnown,
      Outstanding, Written
  <1>35. QED BY <1>1, <1>2, <1>3, <1>4, <1>5, <1>6, <1>7, <1>8, <1>9, <1>10, <1>11,
    <1>12, <1>13, <1>14, <1>15, <1>16, <1>17, <1>18, <1>19, <1>20, <1>21, <1>22,
    <1>23, <1>24, <1>25, <1>26, <1>27, <1>28, <1>29, <1>30, <1>31, <1>32, <1>33,
    <1>34 DEF Next, ClientStep, ConnectionStep, DesktopStep

-----------------------------------------------------------------------------
(* The invariant, and what follows from it                                 *)

LEMMA Initially == Init => IInv
  <1> SUFFICES ASSUME Init PROVE IInv
    OBVIOUS
  <1>1. TypeOK
    BY EditsAssumption DEF Init, TypeOK, Text, Revisions
  <1>2. WritersHold /\ PathIsBound /\ BasesAreCurrent /\ RequestStages
    BY DEF Init, WritersHold, Writing, Holding, PathIsBound, BasesAreCurrent,
      RequestStages
  <1>3. \A c \in Clients : ~Written(c)
    <2>1. DOMAIN << >> = {}
      OBVIOUS
    <2>2. QED BY <2>1 DEF Init, Written
  <1>4. EffectsKnown
    BY <1>3 DEF Init, EffectsKnown, EffectKnown
  <1>5. QED BY <1>1, <1>2, <1>4 DEF IInv

\* Every reachable state satisfies the invariant.
THEOREM StoreInvariant == Spec => []IInv
  <1>1. Init => IInv
    BY Initially
  <1>2. IInv /\ [Next]_vars => IInv'
    BY TypesKept, HoldersKept, PathKept, BasesKept, StagesKept, EffectsKept
    DEF IInv
  <1>3. QED BY <1>1, <1>2, PTL DEF Spec

\* The variables keep their types.
THEOREM StoreTypes == Spec => []TypeOK
  <1>1. IInv => TypeOK
    BY DEF IInv
  <1>2. QED BY <1>1, StoreInvariant, PTL

\* Nobody writes over a text it has not seen: the base a client holds under the
\* lease is the file, and a desktop shows the file and its reader's edits.
THEOREM NothingIsOverwritten == Spec => []BasesAreCurrent
  <1>1. IInv => BasesAreCurrent
    BY DEF IInv
  <1>2. QED BY <1>1, StoreInvariant, PTL

\* A desktop that serves is the one the socket path leads to.
THEOREM AuthorityIsReachable == Spec => []ServingIsReachable
  <1>1. IInv => ServingIsReachable
    BY DEF IInv, PathIsBound, ServingIsReachable
  <1>2. QED BY <1>1, StoreInvariant, PTL

-----------------------------------------------------------------------------
(* The processes implement WriteRequests                                   *)

Asked == {c \in Clients : pc[c] /= "idle"}

AbstractStep == Requests!Next \/ UNCHANGED <<note, Asked, expected, answer>>

\* A change that takes effect is a step Perform of the abstract specification.
LEMMA PerformedRefines ==
    ASSUME NEW c \in Clients, c \in Asked, ~Written(c),
           answer[c] \notin {"refused", "unavailable"},
           \E n \in 0..MaxEdits : /\ note' = Append(note \o Edits(n), c)
                                  /\ RevisionMatches(c, note \o Edits(n)),
           Asked' = Asked, UNCHANGED <<expected, answer>>
    PROVE  AbstractStep
  <1>1. \A n \in 0..MaxEdits : Edits(n) = Requests!Edits(n)
    BY DEF Edits, Requests!Edits
  <1>2. PICK n \in 0..MaxEdits : /\ note' = Append(note \o Edits(n), c)
                                 /\ RevisionMatches(c, note \o Edits(n))
    OBVIOUS
  <1>3. /\ note' = Append(note \o Requests!Edits(n), c)
        /\ Requests!RevisionMatches(c, note \o Requests!Edits(n))
    BY <1>1, <1>2 DEF RevisionMatches, Requests!RevisionMatches
  <1>4. Requests!Perform(c)
    BY <1>3
    DEF Requests!Perform, Requests!Performed, Requests!NothingWritten, Written, Asked
  <1>5. QED BY <1>4 DEF AbstractStep, Requests!Next

\* A save is a step Save, or none when there was nothing to save.
LEMMA SavedRefines ==
    ASSUME TypeOK, NEW n \in 0..MaxEdits, note' = note \o Edits(n),
           UNCHANGED <<Asked, expected, answer>>
    PROVE  AbstractStep
  <1>1. CASE n = 0
    <2>1. note \in Seq(Marks)
      BY DEF TypeOK, Text, Marks
    <2>2. note' = note
      BY <1>1, <2>1, NoEdits
    <2>3. QED BY <2>2 DEF AbstractStep
  <1>2. CASE n /= 0
    <2>1. n \in 1..MaxEdits /\ Edits(n) = Requests!Edits(n)
      BY <1>2, EditsAssumption DEF Edits, Requests!Edits
    <2>2. Requests!Save
      BY <2>1 DEF Requests!Save, Asked
    <2>3. QED BY <2>2 DEF AbstractStep, Requests!Next
  <1>3. QED BY <1>1, <1>2

\* An answer that is true is a step Answer.
LEMMA AnsweredRefines ==
    ASSUME NEW c \in Clients, c \in Asked, answer[c] = "none",
           NEW a \in {"committed", "refused", "unavailable", "unknown"},
           a = "committed" => Written(c),
           a \in {"refused", "unavailable"} => ~Written(c),
           answer' = [answer EXCEPT ![c] = a],
           Asked' = Asked, UNCHANGED <<note, expected>>
    PROVE  AbstractStep
  <1>1. Requests!Answer(c, a)
    BY DEF Requests!Answer, Requests!Performed, Requests!NothingWritten, Written, Asked
  <1>2. a \in Requests!Answers \ {"none"}
    BY DEF Requests!Answers
  <1>3. QED BY <1>1, <1>2 DEF AbstractStep, Requests!Next

LEMMA StepRefines ==
    ASSUME TypeOK, RequestStages, BasesAreCurrent, EffectsKnown, [Next]_vars
    PROVE  AbstractStep
  <1>1. ASSUME NEW c \in Clients, Ask(c) PROVE AbstractStep
    <2>1. Requests!Ask(c)
      <3>1. c \notin Asked /\ Asked' = Asked \union {c}
        BY <1>1 DEF Ask, Goto, Asked, TypeOK
      <3>2. QED BY <1>1, <3>1 DEF Ask, Requests!Ask, Asked
    <2>2. QED BY <2>1 DEF AbstractStep, Requests!Next
  <1>2. ASSUME NEW c \in Clients, TakeLease(c) PROVE AbstractStep
    BY <1>2 DEF TakeLease, Goto, connVars, deskVars, TypeOK, AbstractStep, Asked
  <1>3. ASSUME NEW c \in Clients, FindHeld(c) PROVE AbstractStep
    BY <1>3 DEF FindHeld, Goto, connVars, deskVars, TypeOK, AbstractStep, Asked
  <1>4. ASSUME NEW c \in Clients, ReadNote(c) PROVE AbstractStep
    BY <1>4 DEF ReadNote, Goto, connVars, deskVars, TypeOK, AbstractStep, Asked
  <1>5. ASSUME NEW c \in Clients, CommitDirect(c) PROVE AbstractStep
    <2>1. c \in Asked /\ Asked' = Asked
      BY <1>5 DEF CommitDirect, Goto, Asked, TypeOK
    <2>2. ~Written(c) /\ answer[c] \notin {"refused", "unavailable"}
      BY <1>5 DEF CommitDirect, EffectsKnown, EffectKnown, Outstanding,
        RequestStages
    <2>3. 0 \in 0..MaxEdits
      BY EditsAssumption
    <2>4. \E n \in 0..MaxEdits : /\ note' = Append(note \o Edits(n), c)
                                 /\ RevisionMatches(c, note \o Edits(n))
      BY <1>5, <2>3, DirectChange
    <2>5. UNCHANGED <<expected, answer>>
      BY <1>5 DEF CommitDirect
    <2>6. QED BY <2>1, <2>2, <2>4, <2>5, PerformedRefines
  <1>6. ASSUME NEW c \in Clients, RejectDirect(c) PROVE AbstractStep
    BY <1>6 DEF RejectDirect, Goto, connVars, deskVars, TypeOK, AbstractStep, Asked
  <1>7. ASSUME NEW c \in Clients, Release(c) PROVE AbstractStep
    <2> DEFINE a == IF pc[c] = "written" THEN "committed" ELSE "refused"
    <2>1. c \in Asked /\ Asked' = Asked
      BY <1>7 DEF Release, Finish, Goto, Asked, TypeOK
    <2>2. answer[c] = "none" /\ answer' = [answer EXCEPT ![c] = a]
      BY <1>7 DEF Release, Finish, RequestStages
    <2>3. /\ a \in {"committed", "refused", "unavailable", "unknown"}
          /\ a = "committed" => Written(c)
          /\ a \in {"refused", "unavailable"} => ~Written(c)
      BY <1>7 DEF Release, TypeOK, RequestStages, EffectsKnown, EffectKnown,
        Outstanding
    <2>4. UNCHANGED <<note, expected>>
      BY <1>7 DEF Release
    <2> HIDE DEF a
    <2>5. QED BY <2>1, <2>2, <2>3, <2>4, AnsweredRefines
  <1>8. ASSUME NEW c \in Clients, Connect(c) PROVE AbstractStep
    BY <1>8 DEF Connect, Goto, Listening, deskVars, TypeOK, AbstractStep, Asked
  <1>9. ASSUME NEW c \in Clients, ConnectFails(c) PROVE AbstractStep
    BY <1>9 DEF ConnectFails, Goto, Listening, connVars, deskVars, TypeOK,
      AbstractStep, Asked
  <1>10. ASSUME NEW c \in Clients, GiveUp(c) PROVE AbstractStep
    <2> DEFINE a == "unavailable"
    <2>1. c \in Asked /\ Asked' = Asked
      BY <1>10 DEF GiveUp, Finish, Goto, Asked, TypeOK
    <2>2. answer[c] = "none" /\ answer' = [answer EXCEPT ![c] = a]
      BY <1>10 DEF GiveUp, Finish, RequestStages
    <2>3. /\ a \in {"committed", "refused", "unavailable", "unknown"}
          /\ a = "committed" => Written(c)
          /\ a \in {"refused", "unavailable"} => ~Written(c)
      BY <1>10 DEF GiveUp, TypeOK, RequestStages, EffectsKnown, EffectKnown,
        Outstanding
    <2>4. UNCHANGED <<note, expected>>
      BY <1>10 DEF GiveUp
    <2> HIDE DEF a
    <2>5. QED BY <2>1, <2>2, <2>3, <2>4, AnsweredRefines
  <1>11. ASSUME NEW c \in Clients, Send(c) PROVE AbstractStep
    BY <1>11 DEF Send, Goto, deskVars, TypeOK, AbstractStep, Asked
  <1>12. ASSUME NEW c \in Clients, SendFails(c) PROVE AbstractStep
    <2> DEFINE a == "unavailable"
    <2>1. c \in Asked /\ Asked' = Asked
      BY <1>12 DEF SendFails, Finish, Goto, Asked, TypeOK
    <2>2. answer[c] = "none" /\ answer' = [answer EXCEPT ![c] = a]
      BY <1>12 DEF SendFails, Finish, RequestStages
    <2>3. /\ a \in {"committed", "refused", "unavailable", "unknown"}
          /\ a = "committed" => Written(c)
          /\ a \in {"refused", "unavailable"} => ~Written(c)
      BY <1>12 DEF SendFails, TypeOK, RequestStages, EffectsKnown, EffectKnown,
        Outstanding
    <2>4. UNCHANGED <<note, expected>>
      BY <1>12 DEF SendFails
    <2> HIDE DEF a
    <2>5. QED BY <2>1, <2>2, <2>3, <2>4, AnsweredRefines
  <1>13. ASSUME NEW c \in Clients, Receive(c) PROVE AbstractStep
    <2> DEFINE a == reply[c]
    <2>1. c \in Asked /\ Asked' = Asked
      BY <1>13 DEF Receive, Finish, Goto, Asked, TypeOK
    <2>2. answer[c] = "none" /\ answer' = [answer EXCEPT ![c] = a]
      BY <1>13 DEF Receive, Finish, RequestStages
    <2>3. /\ a \in {"committed", "refused", "unavailable", "unknown"}
          /\ a = "committed" => Written(c)
          /\ a \in {"refused", "unavailable"} => ~Written(c)
      BY <1>13 DEF Receive, TypeOK, RequestStages, EffectsKnown, EffectKnown,
        Outstanding
    <2>4. UNCHANGED <<note, expected>>
      BY <1>13 DEF Receive
    <2> HIDE DEF a
    <2>5. QED BY <2>1, <2>2, <2>3, <2>4, AnsweredRefines
  <1>14. ASSUME NEW c \in Clients, LoseAnswer(c) PROVE AbstractStep
    <2> DEFINE a == "unknown"
    <2>1. c \in Asked /\ Asked' = Asked
      BY <1>14 DEF LoseAnswer, Finish, Goto, Asked, TypeOK
    <2>2. answer[c] = "none" /\ answer' = [answer EXCEPT ![c] = a]
      BY <1>14 DEF LoseAnswer, Finish, RequestStages
    <2>3. /\ a \in {"committed", "refused", "unavailable", "unknown"}
          /\ a = "committed" => Written(c)
          /\ a \in {"refused", "unavailable"} => ~Written(c)
      BY <1>14 DEF LoseAnswer, TypeOK, RequestStages, EffectsKnown, EffectKnown,
        Outstanding
    <2>4. UNCHANGED <<note, expected>>
      BY <1>14 DEF LoseAnswer
    <2> HIDE DEF a
    <2>5. QED BY <2>1, <2>2, <2>3, <2>4, AnsweredRefines
  <1>15. ASSUME NEW c \in Clients, Kill(c) PROVE AbstractStep
    BY <1>15 DEF Kill, Goto, deskVars, TypeOK, AbstractStep, Asked
  <1>16. ASSUME NEW c \in Clients, ReadRequest(c) PROVE AbstractStep
    BY <1>16 DEF ReadRequest, clientVars, deskVars, TypeOK, AbstractStep, Asked
  <1>17. ASSUME NEW c \in Clients, DropStalled(c) PROVE AbstractStep
    BY <1>17 DEF DropStalled, Listening, clientVars, deskVars, TypeOK, AbstractStep,
      Asked
  <1>18. ASSUME NEW c \in Clients, WorkerGivesUp(c) PROVE AbstractStep
    BY <1>18 DEF WorkerGivesUp, clientVars, deskVars, TypeOK, AbstractStep, Asked
  <1>19. ASSUME NEW c \in Clients, Take(c) PROVE AbstractStep
    BY <1>19 DEF Take, Busy, clientVars, deskVars, TypeOK, AbstractStep, Asked
  <1>20. ASSUME NEW c \in Clients, CommitRequest(c) PROVE AbstractStep
    <2>1. c \in Asked /\ Asked' = Asked
      BY <1>20 DEF CommitRequest, clientVars, Asked, RequestStages
    <2>2. ~Written(c) /\ answer[c] \notin {"refused", "unavailable"}
      BY <1>20 DEF CommitRequest, EffectsKnown, EffectKnown, Outstanding,
        RequestStages
    <2>3. \E n \in 0..MaxEdits : /\ note' = Append(note \o Edits(n), c)
                                 /\ RevisionMatches(c, note \o Edits(n))
      BY <1>20, ServedChange
    <2>4. UNCHANGED <<expected, answer>>
      BY <1>20 DEF CommitRequest, clientVars
    <2>5. QED BY <2>1, <2>2, <2>3, <2>4, PerformedRefines
  <1>21. ASSUME NEW c \in Clients, RejectRequest(c) PROVE AbstractStep
    BY <1>21 DEF RejectRequest, Respond, clientVars, deskVars, TypeOK, AbstractStep,
      Asked
  <1>22. ASSUME NEW d \in Desktops, Start(d) PROVE AbstractStep
    BY <1>22 DEF Start, Stands, clientVars, connVars, TypeOK, AbstractStep, Asked
  <1>23. ASSUME NEW d \in Desktops, Claim(d) PROVE AbstractStep
    BY <1>23 DEF Claim, Stands, clientVars, connVars, TypeOK, AbstractStep, Asked
  <1>24. ASSUME NEW d \in Desktops, RefuseToStart(d) PROVE AbstractStep
    BY <1>24 DEF RefuseToStart, Stands, clientVars, connVars, TypeOK, AbstractStep,
      Asked
  <1>25. ASSUME NEW d \in Desktops, Bind(d) PROVE AbstractStep
    BY <1>25 DEF Bind, Stands, clientVars, connVars, TypeOK, AbstractStep, Asked
  <1>26. ASSUME NEW d \in Desktops, BindFails(d) PROVE AbstractStep
    BY <1>26 DEF BindFails, Stands, clientVars, connVars, TypeOK, AbstractStep,
      Asked
  <1>27. ASSUME NEW d \in Desktops, Serve(d) PROVE AbstractStep
    BY <1>27 DEF Serve, Stands, clientVars, connVars, TypeOK, AbstractStep, Asked
  <1>28. ASSUME NEW d \in Desktops, Type(d) PROVE AbstractStep
    BY <1>28 DEF Type, Busy, clientVars, connVars, TypeOK, AbstractStep, Asked
  <1>29. ASSUME NEW d \in Desktops, Save(d) PROVE AbstractStep
    <2>1. PICK n \in 0..MaxEdits : note' = note \o Edits(n)
      BY <1>29, SavedEdits
    <2>2. UNCHANGED <<Asked, expected, answer>>
      BY <1>29 DEF Save, clientVars, Asked
    <2>3. QED BY <2>1, <2>2, SavedRefines
  <1>30. ASSUME NEW d \in Desktops, Quit(d) PROVE AbstractStep
    <2>1. PICK n \in 0..MaxEdits : note' = note \o Edits(n)
      BY <1>30, SavedEdits
    <2>2. UNCHANGED <<Asked, expected, answer>>
      BY <1>30 DEF Quit, clientVars, Asked
    <2>3. QED BY <2>1, <2>2, SavedRefines
  <1>31. ASSUME NEW d \in Desktops, RemoveSocket(d) PROVE AbstractStep
    BY <1>31 DEF RemoveSocket, Stands, clientVars, connVars, TypeOK, AbstractStep,
      Asked
  <1>32. ASSUME NEW d \in Desktops, LetGo(d) PROVE AbstractStep
    BY <1>32 DEF LetGo, Stands, Hangup, clientVars, TypeOK, AbstractStep, Asked
  <1>33. ASSUME NEW d \in Desktops, Crash(d) PROVE AbstractStep
    BY <1>33 DEF Crash, Stands, Hangup, Running, clientVars, TypeOK, AbstractStep,
      Asked
  <1>34. CASE UNCHANGED vars
    BY <1>34 DEF vars, clientVars, AbstractStep, Asked
  <1>35. QED BY <1>1, <1>2, <1>3, <1>4, <1>5, <1>6, <1>7, <1>8, <1>9, <1>10, <1>11,
    <1>12, <1>13, <1>14, <1>15, <1>16, <1>17, <1>18, <1>19, <1>20, <1>21, <1>22,
    <1>23, <1>24, <1>25, <1>26, <1>27, <1>28, <1>29, <1>30, <1>31, <1>32, <1>33,
    <1>34 DEF Next, ClientStep, ConnectionStep, DesktopStep

\* A request takes effect at most once, atomically, on the revision it requires;
\* no text is lost; and an answer is true for good.
THEOREM StoreKeepsItsWord == Spec => KeepsItsWord
  <1>1. Init => Requests!Init
    <2> SUFFICES ASSUME Init PROVE Requests!Init
      OBVIOUS
    <2>1. Asked = {}
      BY DEF Init, Asked
    <2>2. QED BY <2>1 DEF Init, Requests!Init, Asked
  <1>2. IInv /\ [Next]_vars => [Requests!Next]_Requests!requestVars
    BY StepRefines DEF IInv, AbstractStep, Asked, Requests!requestVars
  <1>3. QED BY <1>1, <1>2, StoreInvariant, PTL DEF Spec, KeepsItsWord, Requests!Spec

=============================================================================
