--------------------------- MODULE AdminPanelProofs ---------------------------
(***************************************************************************)
(* The operator's panel, for any number of clicks, rows and rotations.     *)
(* Each of its three promises is about requests of one kind: at most one   *)
(* attempt to sign in, one rotation and one reveal are under way, and what *)
(* their answers carry is what the panel or the server holds.              *)
(***************************************************************************)
EXTENDS AdminPanel, TLAPS

Logins    == {c \in flight : c.kind = "login"}
Reveals   == {c \in flight : c.kind = "reveal"}
Rotations == {c \in flight : c.kind = "rotate"}
Others    == Kind \ {"login", "reveal", "rotate"}

\* The token that is sent is that of the attempt under way, if there is one.
LoginInv ==
    /\ signed.stored \in {Nothing, "good"}
    /\ "logins" \notin overlap =>
         /\ \A b, c \in Logins : b = c
         /\ \A c \in Logins : signed.token = c.token /\ ~signed.dashboard
         /\ signed.dashboard => signed.token = "good"

\* What is on its way, and what is shown, is the server's token.
TokenInv ==
    /\ \A b, c \in Reveals : b = c
    /\ \A b, c \in Rotations : b = c
    /\ "tokens" \notin overlap =>
         /\ Reveals = {} \/ Rotations = {}
         /\ \A c \in Reveals \cup Rotations : c.arg \in {Nothing, rotated}
         /\ box \in {Nothing, rotated} \/ \E c \in Rotations : c.arg # Nothing

PanelInv == PanelTypeOK /\ LoginInv /\ TokenInv /\ OffsetCountsRows

CallOK(c) ==
    /\ c \in [kind : Kind, by : Nat, token : AdminToken, arg : {c.arg}]
    /\ IF c.kind = "login" THEN c.arg \in AdminToken ELSE c.arg \in Nat \cup {Nothing}

SignedType == [token : AdminToken, stored : AdminToken, dashboard : BOOLEAN]

\* A request has the type of a request.
LEMMA CallTyped ==
    ASSUME NEW kind \in Kind, NEW by \in Nat, NEW token \in AdminToken, NEW arg,
           IF kind = "login" THEN arg \in AdminToken ELSE arg \in Nat \cup {Nothing}
    PROVE  /\ CallOK(Call(kind, by, token, arg))
           /\ Call(kind, by, token, arg).kind = kind
           /\ Call(kind, by, token, arg).token = token
           /\ Call(kind, by, token, arg).arg = arg
  BY DEF Call, CallOK

\* Which requests a refresh of both lists sends.
LEMMA Refreshed ==
    ASSUME NEW n \in Nat, NEW token \in AdminToken
    PROVE  \A c \in Refreshing(n, token) : CallOK(c) /\ c.kind \in Others
  <1>1. {"refresh files", "refresh rest"} \subseteq Others /\ Others \subseteq Kind
    BY DEF Kind, Others
  <1>2. \A kind \in {"refresh files", "refresh rest"} :
            CallOK(Call(kind, n, token, 0)) /\ Call(kind, n, token, 0).kind = kind
    <2> SUFFICES ASSUME NEW kind \in {"refresh files", "refresh rest"}
                 PROVE  CallOK(Call(kind, n, token, 0)) /\ Call(kind, n, token, 0).kind = kind
      OBVIOUS
    <2>1. kind \in Kind /\ kind # "login"
      BY DEF Kind
    <2>2. IF kind = "login" THEN 0 \in AdminToken ELSE 0 \in Nat \cup {Nothing}
      BY <2>1
    <2> QED BY <2>1, <2>2 DEF Call, CallOK
  <1> QED BY <1>1, <1>2 DEF Refreshing

\* The lists keep their types, whatever answer they take in.
LEMMA ListsTyped ==
    ASSUME NEW list \in ListState
    PROVE  /\ Reset(list) \in ListState
           /\ \A offset, total, rows \in Nat : Table(offset, total, rows) \in ListState
  <1>1. \A offset, total \in Nat : (offset < total) \in BOOLEAN
    OBVIOUS
  <1> QED BY <1>1 DEF ListState, Reset, Table

\* What the server answers a list request.
LEMMA AnswersTyped ==
    ASSUME NEW c, NEW offset, NEW a \in Answer(c, offset)
    PROVE  a.n \in Nat /\ a.total \in Nat
  BY PanelBounds DEF Answer, Replies

\* What one of the other requests leads to.
LEMMA RequestLeaves ==
    ASSUME NEW c \in flight, c.kind \notin {"login", "reveal", "rotate"}, NEW more,
           \A r \in more : r.kind \in Others, flight' = (flight \ {c}) \cup more
    PROVE  Logins' = Logins /\ Reveals' = Reveals /\ Rotations' = Rotations
  BY DEF Logins, Reveals, Rotations, Others

\* Sending requests adds them to those on their way.
LEMMA RequestsAdded ==
    ASSUME NEW more, \A r \in more : r.kind \in Others, flight' = flight \cup more
    PROVE  Logins' = Logins /\ Reveals' = Reveals /\ Rotations' = Rotations
  BY DEF Logins, Reveals, Rotations, Others

\* Requests about lists leave attempts to sign in and the box alone.
LEMMA SendOther ==
    ASSUME PanelTypeOK, NEW kind \in Others, NEW arg \in Nat \cup {Nothing},
           Send(kind, arg)
    PROVE  /\ \A c \in flight' : CallOK(c)
           /\ Logins' = Logins /\ Reveals' = Reveals /\ Rotations' = Rotations
  <1> DEFINE c == Call(kind, clicks + 1, signed.token, arg)
  <1>1. kind \in Kind /\ kind # "login"
    BY DEF Others
  <1>2. clicks + 1 \in Nat /\ signed.token \in AdminToken
    BY DEF PanelTypeOK
  <1>3. CallOK(c) /\ c.kind = kind
    BY <1>1, <1>2, CallTyped
  <1>4. flight' = flight \cup {c}
    BY DEF Send
  <1>5. \A b \in flight : CallOK(b)
    BY DEF PanelTypeOK, CallOK
  <1> HIDE DEF c
  <1>6. \A r \in {c} : r.kind \in Others
    BY <1>3
  <1>7. Logins' = Logins /\ Reveals' = Reveals /\ Rotations' = Rotations
    BY <1>4, <1>6, RequestsAdded
  <1> QED BY <1>3, <1>4, <1>5, <1>7

\* The effect of every action on the requests.  Those that send none of the two
\* kinds with an invariant leave the requests of these kinds alone.
Unrelated ==
    /\ Logins' = Logins /\ Reveals' = Reveals /\ Rotations' = Rotations
    /\ UNCHANGED <<rotated, overlap>>

FlightOK == \A c \in flight : CallOK(c)

ListStep ==
    \/ RefreshList \/ Filter \/ Act
    \/ LoadMore(files, "more files") \/ LoadMore(reports, "more reports")
    \/ \E c \in flight : \/ Acted(c) \/ FilesLoaded(c) \/ MoreFilesLoaded(c)
                         \/ RestLoaded(c) \/ MoreReportsLoaded(c)

\* The actions about lists send and take in nothing but list requests.
LEMMA ListRequests ==
    ASSUME PanelTypeOK, ListStep
    PROVE  /\ FlightOK' /\ Unrelated /\ UNCHANGED <<signed, box>>
           /\ clicks' \in Nat
  <1>t. /\ signed.token \in AdminToken /\ clicks \in Nat /\ clicks + 1 \in Nat
        /\ FlightOK
    BY DEF PanelTypeOK, CallOK, FlightOK
  <1>k. /\ "files" \in Others /\ "more files" \in Others /\ "more reports" \in Others
        /\ "act" \in Others /\ "files are in" \in Others
    BY DEF Others, Kind
  <1>o. files.offset \in Nat /\ reports.offset \in Nat
    BY DEF PanelTypeOK, ListState
  <1>r. ASSUME NEW c \in flight, c.kind \notin {"login", "reveal", "rotate"}, NEW more,
               \A r \in more : CallOK(r) /\ r.kind \in Others,
               flight' = (flight \ {c}) \cup more
        PROVE  FlightOK' /\ Logins' = Logins /\ Reveals' = Reveals
                         /\ Rotations' = Rotations
    <2>1. FlightOK'
      BY <1>r, <1>t DEF FlightOK
    <2> QED BY <1>r, <2>1, RequestLeaves
  <1>h. ASSUME NEW c \in flight, c.kind \notin {"login", "reveal", "rotate"},
               Handled(c)
        PROVE  FlightOK' /\ Logins' = Logins /\ Reveals' = Reveals
                         /\ Rotations' = Rotations
    <2> DEFINE none == {}
    <2>1. flight' = (flight \ {c}) \cup none
      BY <1>h DEF Handled
    <2>2. \A r \in none : CallOK(r) /\ r.kind \in Others
      OBVIOUS
    <2> HIDE DEF none
    <2> QED BY <1>h, <1>r, <2>1, <2>2
  <1>1. CASE RefreshList
    <2>1. flight' = flight \cup Refreshing(clicks + 1, signed.token)
      BY <1>1 DEF RefreshList
    <2>2. \A c \in Refreshing(clicks + 1, signed.token) : CallOK(c) /\ c.kind \in Others
      BY <1>t, Refreshed
    <2>3. FlightOK'
      BY <1>t, <2>1, <2>2 DEF FlightOK
    <2>4. Logins' = Logins /\ Reveals' = Reveals /\ Rotations' = Rotations
      BY <2>1, <2>2, RequestsAdded
    <2> QED BY <1>1, <1>t, <2>3, <2>4 DEF RefreshList, Clicked, Unrelated
  <1>2. CASE Filter
    <2>1. FlightOK' /\ Logins' = Logins /\ Reveals' = Reveals /\ Rotations' = Rotations
      BY <1>2, <1>k, SendOther DEF Filter, FlightOK
    <2> QED BY <1>2, <1>t, <2>1 DEF Filter, Clicked, Unrelated
  <1>3. CASE Act
    <2>1. FlightOK' /\ Logins' = Logins /\ Reveals' = Reveals /\ Rotations' = Rotations
      BY <1>3, <1>k, SendOther DEF Act, FlightOK
    <2> QED BY <1>3, <1>t, <2>1 DEF Act, Clicked, Unrelated, lists
  <1>4. CASE LoadMore(files, "more files")
    <2>1. FlightOK' /\ Logins' = Logins /\ Reveals' = Reveals /\ Rotations' = Rotations
      BY <1>4, <1>k, <1>o, SendOther DEF LoadMore, FlightOK
    <2> QED BY <1>4, <1>t, <2>1 DEF LoadMore, Clicked, Unrelated, lists
  <1>5. CASE LoadMore(reports, "more reports")
    <2>1. FlightOK' /\ Logins' = Logins /\ Reveals' = Reveals /\ Rotations' = Rotations
      BY <1>5, <1>k, <1>o, SendOther DEF LoadMore, FlightOK
    <2> QED BY <1>5, <1>t, <2>1 DEF LoadMore, Clicked, Unrelated, lists
  <1>6. ASSUME NEW c \in flight, Acted(c)
        PROVE  FlightOK' /\ Unrelated /\ UNCHANGED <<signed, box>> /\ clicks' \in Nat
    <2>1. c.by \in Nat
      BY <1>t DEF FlightOK, CallOK
    <2>2. \A r \in Refreshing(c.by, signed.token) : CallOK(r) /\ r.kind \in Others
      BY <1>t, <2>1, Refreshed
    <2>3. FlightOK' /\ Logins' = Logins /\ Reveals' = Reveals /\ Rotations' = Rotations
      <3>1. CASE Refreshes(c, signed.token)
        BY <1>6, <1>r, <2>2, <3>1 DEF Acted, Refreshes
      <3>2. CASE Handled(c)
        BY <1>6, <1>h, <3>2 DEF Acted
      <3> QED BY <1>6, <3>1, <3>2 DEF Acted
    <2> QED BY <1>6, <1>t, <2>3 DEF Acted, Unrelated
  <1>7. ASSUME NEW c \in flight, FilesLoaded(c)
        PROVE  FlightOK' /\ Unrelated /\ UNCHANGED <<signed, box>> /\ clicks' \in Nat
    <2>1. c.by \in Nat /\ c.token \in AdminToken
      BY <1>t DEF FlightOK, CallOK
    <2> DEFINE in == Call("files are in", c.by, c.token, 0)
    <2>2. CallOK(in) /\ in.kind \in Others
      <3>1. "files are in" \in Kind
        BY DEF Kind
      <3>2. IF "files are in" = "login" THEN 0 \in AdminToken ELSE 0 \in Nat \cup {Nothing}
        OBVIOUS
      <3> QED BY <1>k, <2>1, <3>1, <3>2 DEF Call, CallOK
    <2> DEFINE more == IF Call("refresh rest", c.by, c.token, 0) \in flight
                       THEN {in} ELSE {}
    <2>3. \A r \in more : CallOK(r) /\ r.kind \in Others
      BY <2>2
    <2>4. flight' = (flight \ {c}) \cup more \/ Handled(c)
      BY <1>7 DEF FilesLoaded
    <2>5. c.kind \notin {"login", "reveal", "rotate"}
      BY <1>7 DEF FilesLoaded
    <2> HIDE DEF more
    <2>6. FlightOK' /\ Logins' = Logins /\ Reveals' = Reveals /\ Rotations' = Rotations
      BY <1>r, <1>h, <2>3, <2>4, <2>5
    <2> QED BY <1>7, <1>t, <2>6 DEF FilesLoaded, Unrelated
  <1>8. ASSUME NEW c \in flight, MoreFilesLoaded(c) \/ MoreReportsLoaded(c)
        PROVE  FlightOK' /\ Unrelated /\ UNCHANGED <<signed, box>> /\ clicks' \in Nat
    <2>1. FlightOK' /\ Logins' = Logins /\ Reveals' = Reveals /\ Rotations' = Rotations
      BY <1>8, <1>h DEF MoreFilesLoaded, MoreReportsLoaded
    <2> QED BY <1>8, <1>t, <2>1 DEF MoreFilesLoaded, MoreReportsLoaded, Unrelated
  <1>9. ASSUME NEW c \in flight, RestLoaded(c)
        PROVE  FlightOK' /\ Unrelated /\ UNCHANGED <<signed, box>> /\ clicks' \in Nat
    <2>1. c.by \in Nat /\ c.token \in AdminToken
      BY <1>t DEF FlightOK, CallOK
    <2> DEFINE in == Call("files are in", c.by, c.token, 0)
    <2>2. in.kind \notin {"login", "reveal", "rotate"}
      BY DEF Call
    <2>3. flight' = flight \ {c, in} /\ c.kind = "refresh rest"
      BY <1>9 DEF RestLoaded
    <2> HIDE DEF in
    <2>4. FlightOK'
      BY <1>t, <2>3 DEF FlightOK
    <2>5. Logins' = Logins /\ Reveals' = Reveals /\ Rotations' = Rotations
      BY <2>2, <2>3 DEF Logins, Reveals, Rotations
    <2> QED BY <1>9, <1>t, <2>4, <2>5 DEF RestLoaded, Unrelated
  <1> QED BY <1>1, <1>2, <1>3, <1>4, <1>5, <1>6, <1>7, <1>8, <1>9 DEF ListStep

\* What an attempt to sign in sends.
LEMMA LoginRequests ==
    ASSUME PanelTypeOK, LoginInv, NEW candidate \in {"good", "bad"}, Login(candidate)
    PROVE  FlightOK' /\ LoginInv' /\ Reveals' = Reveals /\ Rotations' = Rotations
  <1> DEFINE c == Call("login", clicks + 1, candidate, signed.token)
  <1>1. signed \in SignedType /\ clicks + 1 \in Nat
    BY DEF PanelTypeOK, SignedType
  <1>2. "login" \in Kind /\ candidate \in AdminToken /\ signed.token \in AdminToken
    BY <1>1 DEF Kind, AdminToken, SignedType
  <1>3. CallOK(c) /\ c.kind = "login" /\ c.token = candidate
    BY <1>1, <1>2, CallTyped
  <1>4. flight' = flight \cup {c}
    BY DEF Login
  <1>5. \A b \in flight : CallOK(b)
    BY DEF PanelTypeOK, CallOK
  <1> HIDE DEF c
  <1>6. FlightOK' /\ Reveals' = Reveals /\ Rotations' = Rotations /\ Logins' = Logins \cup {c}
    BY <1>3, <1>4, <1>5 DEF FlightOK, Reveals, Rotations, Logins
  <1>7. signed' = [signed EXCEPT !.token = candidate] /\ ~signed.dashboard
    BY DEF Login
  <1>8. /\ signed'.stored = signed.stored /\ ~signed'.dashboard
        /\ signed'.token = candidate
    BY <1>1, <1>7 DEF SignedType
  <1>9. CASE Logins = {}
    BY <1>3, <1>6, <1>8, <1>9 DEF LoginInv
  <1>10. CASE Logins # {}
    <2>1. Waiting("login")
      BY <1>10 DEF Waiting, Logins
    <2>2. "logins" \in overlap'
      BY <2>1 DEF Login
    <2>3. signed'.stored \in {Nothing, "good"}
      BY <1>8 DEF LoginInv
    <2> QED BY <1>6, <2>2, <2>3 DEF LoginInv
  <1> QED BY <1>6, <1>9, <1>10

\* What the answer of an attempt to sign in changes.
LEMMA LoginAnswers ==
    ASSUME PanelTypeOK, LoginInv, NEW c \in flight, LoginAnswered(c)
    PROVE  /\ FlightOK' /\ LoginInv' /\ signed' \in SignedType
           /\ Reveals' = Reveals /\ Rotations' = Rotations
  <1>1. /\ signed \in SignedType /\ CallOK(c) /\ c.kind = "login"
        /\ FlightOK /\ c.by \in Nat /\ c \in Logins
    BY DEF PanelTypeOK, SignedType, CallOK, FlightOK, LoginAnswered, Logins
  <1>2. overlap' = overlap
    BY DEF LoginAnswered
  <1>3. CASE /\ c.token = "good"
             /\ signed' = [token |-> signed.token, stored |-> Stores(c), dashboard |-> TRUE]
             /\ Refreshes(c, signed.token)
    <2>1. signed.token \in AdminToken
      BY <1>1 DEF SignedType
    <2>2. \A r \in Refreshing(c.by, signed.token) : CallOK(r) /\ r.kind \in Others
      BY <1>1, <2>1, Refreshed
    <2>3. flight' = (flight \ {c}) \cup Refreshing(c.by, signed.token)
      BY <1>3 DEF Refreshes
    <2>4. /\ FlightOK' /\ Reveals' = Reveals /\ Rotations' = Rotations
          /\ Logins' = Logins \ {c}
      BY <1>1, <2>2, <2>3 DEF FlightOK, Reveals, Rotations, Logins, Others
    <2>5. /\ signed'.stored = "good" /\ signed'.token = signed.token
          /\ signed' \in SignedType
      BY <1>3, <2>1 DEF Stores, SignedType, AdminToken
    <2>6. "logins" \notin overlap => Logins' = {} /\ signed.token = "good"
      BY <1>1, <1>3, <2>4 DEF LoginInv
    <2> QED BY <1>2, <2>4, <2>5, <2>6 DEF LoginInv
  <1>4. CASE signed' = [signed EXCEPT !.token = c.arg] /\ Handled(c)
    <2>1. FlightOK' /\ Reveals' = Reveals /\ Rotations' = Rotations /\ Logins' = Logins \ {c}
      BY <1>1, <1>4 DEF Handled, FlightOK, Reveals, Rotations, Logins
    <2>2. /\ signed'.stored = signed.stored /\ signed'.dashboard = signed.dashboard
          /\ signed' \in SignedType
      BY <1>1, <1>4 DEF SignedType, CallOK
    <2>3. "logins" \notin overlap => Logins' = {} /\ ~signed.dashboard
      BY <1>1, <2>1 DEF LoginInv
    <2> QED BY <1>2, <2>1, <2>2, <2>3 DEF LoginInv
  <1> QED BY <1>3, <1>4 DEF LoginAnswered

\* Asking for the token, or for a new one, leaves attempts to sign in alone.
LEMMA Asked ==
    ASSUME PanelTypeOK, TokenInv, RevealToken \/ RotateToken
    PROVE  FlightOK' /\ Logins' = Logins /\ TokenInv'
  <1>1. PICK kind \in {"reveal", "rotate"}, other \in {"reveal", "rotate"} :
          kind # other /\ AskToken(kind, other)
    BY DEF RevealToken, RotateToken
  <1> DEFINE c == Call(kind, clicks + 1, signed.token, Nothing)
  <1>2. kind \in Kind /\ kind # "login" /\ clicks + 1 \in Nat /\ signed.token \in AdminToken
    <2>1. kind \in Kind /\ kind # "login"
      BY DEF Kind
    <2> QED BY <2>1 DEF PanelTypeOK
  <1>3. CallOK(c) /\ c.kind = kind /\ c.arg = Nothing
    BY <1>2, CallTyped
  <1>4. flight' = flight \cup {c}
    BY <1>1 DEF AskToken, Send
  <1>5. \A b \in flight : CallOK(b)
    BY DEF PanelTypeOK, CallOK
  <1>6. ~Waiting(kind) /\ UNCHANGED <<box, rotated>>
    BY <1>1 DEF AskToken
  <1>7. overlap \subseteq overlap' /\ ("tokens" \notin overlap' => ~Waiting(other))
    BY <1>1 DEF AskToken
  <1> HIDE DEF c
  <1>8. FlightOK' /\ Logins' = Logins
    BY <1>2, <1>3, <1>4, <1>5 DEF FlightOK, Logins
  <1>9. CASE kind = "reveal" /\ other = "rotate"
    <2>1. Reveals = {} /\ Reveals' = {c} /\ Rotations' = Rotations
      BY <1>3, <1>4, <1>6, <1>9 DEF Reveals, Rotations, Waiting
    <2>2. "tokens" \notin overlap' => Rotations = {} /\ "tokens" \notin overlap
      BY <1>7, <1>9 DEF Rotations, Waiting
    <2>3. "tokens" \notin overlap' => box \in {Nothing, rotated}
      BY <2>2 DEF TokenInv
    <2> QED BY <1>3, <1>6, <1>8, <2>1, <2>2, <2>3 DEF TokenInv
  <1>10. CASE kind = "rotate" /\ other = "reveal"
    <2>1. Rotations = {} /\ Rotations' = {c} /\ Reveals' = Reveals
      BY <1>3, <1>4, <1>6, <1>10 DEF Reveals, Rotations, Waiting
    <2>2. "tokens" \notin overlap' => Reveals = {} /\ "tokens" \notin overlap
      BY <1>7, <1>10 DEF Reveals, Waiting
    <2>3. "tokens" \notin overlap' => box \in {Nothing, rotated}
      BY <2>1, <2>2 DEF TokenInv
    <2> QED BY <1>3, <1>6, <1>8, <2>1, <2>2, <2>3 DEF TokenInv
  <1> QED BY <1>1, <1>8, <1>9, <1>10

\* The server gives out the token, or a new one.
LEMMA Served ==
    ASSUME PanelTypeOK, TokenInv, NEW c \in flight, TokenServed(c)
    PROVE  FlightOK' /\ Logins' = Logins /\ TokenInv' /\ rotated' \in Nat
  <1> DEFINE d == Call(c.kind, c.by, c.token, rotated')
  <1>1. rotated \in Nat /\ rotated' \in Nat
    BY DEF PanelTypeOK, TokenServed
  <1>2. /\ c.kind \in Kind /\ c.kind # "login" /\ c.by \in Nat /\ c.token \in AdminToken
        /\ FlightOK /\ c.kind \in {"reveal", "rotate"} /\ c.arg = Nothing
    BY DEF PanelTypeOK, CallOK, FlightOK, TokenServed
  <1>3. CallOK(d) /\ d.kind = c.kind /\ d.arg = rotated'
    BY <1>1, <1>2, CallTyped
  <1>4. flight' = (flight \ {c}) \cup {d} /\ UNCHANGED <<box, overlap>>
    BY DEF TokenServed
  <1>5. rotated' # Nothing /\ (c.kind = "reveal" => rotated' = rotated)
    BY <1>1, PanelBounds DEF TokenServed
  <1> HIDE DEF d
  <1>6. FlightOK' /\ Logins' = Logins
    BY <1>2, <1>3, <1>4 DEF FlightOK, Logins
  <1>7. CASE c.kind = "reveal"
    <2>1. Reveals' = (Reveals \ {c}) \cup {d} /\ Rotations' = Rotations /\ c \in Reveals
      BY <1>3, <1>4, <1>7 DEF Reveals, Rotations
    <2>2. Reveals' = {d}
      BY <2>1 DEF TokenInv
    <2> QED BY <1>1, <1>3, <1>4, <1>5, <1>6, <1>7, <2>1, <2>2 DEF TokenInv
  <1>8. CASE c.kind = "rotate"
    <2>1. Rotations' = (Rotations \ {c}) \cup {d} /\ Reveals' = Reveals /\ c \in Rotations
      BY <1>3, <1>4, <1>8 DEF Reveals, Rotations
    <2>2. Rotations' = {d}
      BY <2>1 DEF TokenInv
    <2>3. "tokens" \notin overlap => Reveals = {}
      BY <2>1 DEF TokenInv
    <2> QED BY <1>1, <1>3, <1>4, <1>5, <1>6, <2>1, <2>2, <2>3 DEF TokenInv
  <1> QED BY <1>2, <1>7, <1>8

\* The box takes in the answer about the token.
LEMMA Answered ==
    ASSUME PanelTypeOK, TokenInv, NEW c \in flight, TokenAnswered(c)
    PROVE  /\ FlightOK' /\ Logins' = Logins /\ TokenInv'
           /\ box' \in Nat \cup {Nothing} /\ overlap' \subseteq {"logins", "tokens"}
  <1>1. /\ FlightOK /\ c.arg \in Nat \cup {Nothing} /\ box \in Nat \cup {Nothing}
        /\ c.kind \in {"reveal", "rotate"} /\ rotated' = rotated
        /\ flight' = flight \ {c}
    BY DEF PanelTypeOK, CallOK, FlightOK, TokenAnswered, Handled
  <1>2. FlightOK' /\ Logins' = Logins /\ Reveals' = Reveals \ {c}
                  /\ Rotations' = Rotations \ {c}
    BY <1>1 DEF FlightOK, Logins, Reveals, Rotations
  <1>3. c \in Reveals \cup Rotations
    BY <1>1 DEF Reveals, Rotations
  <1>4. CASE c.arg # Nothing /\ box' = ShowsToken(c) /\ UNCHANGED overlap
    <2>1. box' = c.arg /\ ("tokens" \notin overlap => c.arg = rotated)
      BY <1>3, <1>4 DEF ShowsToken, TokenInv
    <2> QED BY <1>1, <1>2, <1>4, <2>1 DEF TokenInv, PanelTypeOK
  <1>5. CASE /\ UNCHANGED box
             /\ overlap' = IF c.kind = "rotate" /\ c.arg # Nothing
                           THEN overlap \cup {"tokens"} ELSE overlap
    <2>1. CASE c.kind = "rotate" /\ c.arg # Nothing
      BY <1>1, <1>2, <1>5, <2>1 DEF TokenInv, PanelTypeOK
    <2>2. CASE ~(c.kind = "rotate" /\ c.arg # Nothing)
      <3>1. \A r \in Rotations : r.arg # Nothing => r # c
        BY <2>2 DEF Rotations
      <3> QED BY <1>1, <1>2, <1>5, <2>2, <3>1 DEF TokenInv, PanelTypeOK
    <2> QED BY <2>1, <2>2
  <1> QED BY <1>4, <1>5 DEF TokenAnswered

-----------------------------------------------------------------------------
\* Every step respects the types.
LEMMA PanelTyped == PanelInv /\ [PanelStep]_panelVars => PanelTypeOK'
  <1> SUFFICES ASSUME PanelTypeOK, LoginInv, TokenInv, [PanelStep]_panelVars
               PROVE  PanelTypeOK'
    BY DEF PanelInv
  <1>t. /\ signed \in SignedType /\ files \in ListState /\ reports \in ListState
        /\ awaited \subseteq {"files", "reports"}
        /\ box \in Nat \cup {Nothing} /\ rotated \in Nat
        /\ FlightOK
        /\ clicks \in Nat /\ clicks + 1 \in Nat /\ overlap \subseteq {"logins", "tokens"}
    BY DEF PanelTypeOK, SignedType, FlightOK, CallOK
  <1>q. ASSUME /\ signed' \in SignedType
               /\ files' \in ListState /\ reports' \in ListState
               /\ awaited' \subseteq {"files", "reports"}
               /\ box' \in Nat \cup {Nothing} /\ rotated' \in Nat
               /\ FlightOK'
               /\ clicks' \in Nat /\ overlap' \subseteq {"logins", "tokens"}
        PROVE  PanelTypeOK'
    BY <1>q DEF PanelTypeOK, SignedType, FlightOK, CallOK
  <1>e. Reset(files) \in ListState /\ Reset(reports) \in ListState
    BY <1>t, ListsTyped
  <1>1. CASE ListStep
    <2>1. /\ FlightOK' /\ signed' = signed /\ box' = box /\ rotated' = rotated
          /\ overlap' = overlap /\ clicks' \in Nat
      BY <1>1, ListRequests DEF Unrelated
    <2>2. ASSUME NEW list \in ListState, NEW c, NEW offset, NEW a \in Answer(c, offset),
                 NEW total \in Nat
          PROVE  StartsAnew(list, a) \in ListState /\ Continues(list, a, total) \in ListState
      <3>1. /\ a.n \in Nat /\ a.total \in Nat /\ list.offset + a.n \in Nat
            /\ list.rows + a.n \in Nat
        BY AnswersTyped DEF ListState
      <3> QED BY <3>1, ListsTyped DEF StartsAnew, Continues
    <2>3. /\ files' \in ListState /\ reports' \in ListState
          /\ awaited' \subseteq {"files", "reports"}
      <3>1. CASE RefreshList
        BY <3>1, <1>t, <1>e DEF RefreshList
      <3>2. CASE Filter
        BY <3>2, <1>t, <1>e DEF Filter
      <3>3. CASE Act \/ LoadMore(files, "more files") \/ LoadMore(reports, "more reports")
        BY <3>3, <1>t DEF Act, LoadMore, lists
      <3>4. ASSUME NEW c \in flight, Acted(c)
            PROVE  /\ files' \in ListState /\ reports' \in ListState
                   /\ awaited' \subseteq {"files", "reports"}
        BY <3>4, <1>t, <1>e DEF Acted, Refreshes, lists
      <3>5. ASSUME NEW c \in flight, FilesLoaded(c)
            PROVE  /\ files' \in ListState /\ reports' \in ListState
                   /\ awaited' \subseteq {"files", "reports"}
        <4>1. \A a \in Answer(c, 0) : StartsAnew(files, a) \in ListState
          BY <1>t, <2>2
        <4> QED BY <3>5, <1>t, <4>1 DEF FilesLoaded
      <3>6. ASSUME NEW c \in flight, MoreFilesLoaded(c)
            PROVE  /\ files' \in ListState /\ reports' \in ListState
                   /\ awaited' \subseteq {"files", "reports"}
        <4>1. \A a \in Answer(c, c.arg) : Continues(files, a, a.total) \in ListState
          BY <1>t, <2>2, AnswersTyped
        <4> QED BY <3>6, <1>t, <4>1 DEF MoreFilesLoaded
      <3>7. ASSUME NEW c \in flight, RestLoaded(c)
            PROVE  /\ files' \in ListState /\ reports' \in ListState
                   /\ awaited' \subseteq {"files", "reports"}
        <4>1. \A a \in Answer(c, 0) : StartsAnew(reports, a) \in ListState
          BY <1>t, <2>2
        <4> QED BY <3>7, <1>t, <4>1 DEF RestLoaded
      <3>8. ASSUME NEW c \in flight, MoreReportsLoaded(c)
            PROVE  /\ files' \in ListState /\ reports' \in ListState
                   /\ awaited' \subseteq {"files", "reports"}
        <4>1. \A a \in Answer(c, c.arg) :
                 Continues(reports, a, IF a.total = 0 THEN reports.total ELSE a.total)
                     \in ListState
          <5>1. reports.total \in Nat
            BY <1>t DEF ListState
          <5> QED BY <1>t, <2>2, <5>1, AnswersTyped
        <4> QED BY <3>8, <1>t, <4>1 DEF MoreReportsLoaded
      <3> QED BY <1>1, <3>1, <3>2, <3>3, <3>4, <3>5, <3>6, <3>7, <3>8 DEF ListStep
    <2> QED BY <1>t, <1>q, <2>1, <2>3
  <1>2. ASSUME NEW candidate \in {"good", "bad"}, Login(candidate) PROVE PanelTypeOK'
    <2>1. FlightOK'
      BY <1>2, LoginRequests
    <2>2. signed' \in SignedType
      BY <1>2, <1>t DEF Login, SignedType, AdminToken
    <2>3. overlap' \subseteq {"logins", "tokens"}
      BY <1>2, <1>t DEF Login
    <2> QED BY <1>2, <1>t, <1>q, <2>1, <2>2, <2>3 DEF Login, lists, Clicked
  <1>3. CASE Logout
    BY <1>3, <1>t, <1>q DEF Logout, lists, Clicked, SignedType, AdminToken, FlightOK
  <1>4. CASE Hide
    BY <1>4, <1>t, <1>q DEF Hide, lists, Clicked, FlightOK
  <1>5. CASE RevealToken \/ RotateToken
    <2>1. FlightOK'
      BY <1>5, Asked
    <2>2. overlap' \subseteq {"logins", "tokens"}
      BY <1>5, <1>t DEF RevealToken, RotateToken, AskToken
    <2> QED BY <1>5, <1>t, <1>q, <2>1, <2>2
            DEF RevealToken, RotateToken, AskToken, lists, Clicked
  <1>6. ASSUME NEW c \in flight, LoginAnswered(c) PROVE PanelTypeOK'
    <2>1. FlightOK' /\ signed' \in SignedType
      BY <1>6, LoginAnswers
    <2>2. /\ files' \in ListState /\ reports' \in ListState
          /\ awaited' \subseteq {"files", "reports"}
      BY <1>6, <1>t, <1>e DEF LoginAnswered, Refreshes, lists
    <2> QED BY <1>6, <1>t, <1>q, <2>1, <2>2 DEF LoginAnswered
  <1>7. ASSUME NEW c \in flight, TokenServed(c) PROVE PanelTypeOK'
    <2>1. FlightOK' /\ rotated' \in Nat
      BY <1>7, Served
    <2> QED BY <1>7, <1>t, <1>q, <2>1 DEF TokenServed, lists
  <1>8. ASSUME NEW c \in flight, TokenAnswered(c) PROVE PanelTypeOK'
    <2>1. /\ FlightOK' /\ box' \in Nat \cup {Nothing}
          /\ overlap' \subseteq {"logins", "tokens"}
      BY <1>8, Answered
    <2> QED BY <1>8, <1>t, <1>q, <2>1 DEF TokenAnswered, lists
  <1>9. CASE UNCHANGED panelVars
    BY <1>9, <1>t, <1>q DEF panelVars, lists, FlightOK
  <1> QED BY <1>1, <1>2, <1>3, <1>4, <1>5, <1>6, <1>7, <1>8, <1>9
          DEF PanelStep, ListStep

\* Every step keeps what is known of attempts to sign in.
LEMMA LoginKept == PanelInv /\ [PanelStep]_panelVars => LoginInv'
  <1> SUFFICES ASSUME PanelTypeOK, LoginInv, TokenInv, [PanelStep]_panelVars
               PROVE  LoginInv'
    BY DEF PanelInv
  <1>1. CASE ListStep
    BY <1>1, ListRequests DEF Unrelated, LoginInv
  <1>2. ASSUME NEW candidate \in {"good", "bad"}, Login(candidate) PROVE LoginInv'
    BY <1>2, LoginRequests
  <1>3. CASE Logout
    <2>1. /\ signed.dashboard /\ overlap' = overlap /\ flight' = flight
          /\ signed'.stored = Nothing /\ ~signed'.dashboard
      BY <1>3 DEF Logout
    <2>2. "logins" \notin overlap => Logins = {}
      BY <2>1 DEF LoginInv
    <2> QED BY <2>1, <2>2 DEF LoginInv, Logins
  <1>4. CASE Hide
    BY <1>4 DEF Hide, LoginInv, Logins
  <1>5. CASE RevealToken \/ RotateToken
    <2>1. Logins' = Logins /\ signed' = signed
      BY <1>5, Asked DEF RevealToken, RotateToken, AskToken
    <2>2. "logins" \notin overlap' => "logins" \notin overlap
      BY <1>5 DEF RevealToken, RotateToken, AskToken
    <2> QED BY <2>1, <2>2 DEF LoginInv
  <1>6. ASSUME NEW c \in flight, LoginAnswered(c) PROVE LoginInv'
    BY <1>6, LoginAnswers
  <1>7. ASSUME NEW c \in flight, TokenServed(c) PROVE LoginInv'
    <2>1. Logins' = Logins
      BY <1>7, Served
    <2> QED BY <1>7, <2>1 DEF TokenServed, LoginInv
  <1>8. ASSUME NEW c \in flight, TokenAnswered(c) PROVE LoginInv'
    <2>1. Logins' = Logins
      BY <1>8, Answered
    <2>2. "logins" \notin overlap' => "logins" \notin overlap
      BY <1>8 DEF TokenAnswered
    <2> QED BY <1>8, <2>1, <2>2 DEF TokenAnswered, LoginInv
  <1>9. CASE UNCHANGED panelVars
    BY <1>9 DEF panelVars, LoginInv, Logins
  <1> QED BY <1>1, <1>2, <1>3, <1>4, <1>5, <1>6, <1>7, <1>8, <1>9
          DEF PanelStep, ListStep

\* Every step keeps what is known of the box.
LEMMA TokenKept == PanelInv /\ [PanelStep]_panelVars => TokenInv'
  <1> SUFFICES ASSUME PanelTypeOK, LoginInv, TokenInv, [PanelStep]_panelVars
               PROVE  TokenInv'
    BY DEF PanelInv
  <1>1. CASE ListStep
    BY <1>1, ListRequests DEF Unrelated, TokenInv
  <1>2. ASSUME NEW candidate \in {"good", "bad"}, Login(candidate) PROVE TokenInv'
    <2>1. Reveals' = Reveals /\ Rotations' = Rotations
      BY <1>2, LoginRequests
    <2>2. "tokens" \notin overlap' => "tokens" \notin overlap
      BY <1>2 DEF Login
    <2> QED BY <1>2, <2>1, <2>2 DEF Login, TokenInv
  <1>3. CASE Logout
    BY <1>3 DEF Logout, TokenInv, Reveals, Rotations
  <1>4. CASE Hide
    BY <1>4 DEF Hide, TokenInv, Reveals, Rotations
  <1>5. CASE RevealToken \/ RotateToken
    BY <1>5, Asked
  <1>6. ASSUME NEW c \in flight, LoginAnswered(c) PROVE TokenInv'
    <2>1. Reveals' = Reveals /\ Rotations' = Rotations
      BY <1>6, LoginAnswers
    <2> QED BY <1>6, <2>1 DEF LoginAnswered, TokenInv
  <1>7. ASSUME NEW c \in flight, TokenServed(c) PROVE TokenInv'
    BY <1>7, Served
  <1>8. ASSUME NEW c \in flight, TokenAnswered(c) PROVE TokenInv'
    BY <1>8, Answered
  <1>9. CASE UNCHANGED panelVars
    BY <1>9 DEF panelVars, TokenInv, Reveals, Rotations
  <1> QED BY <1>1, <1>2, <1>3, <1>4, <1>5, <1>6, <1>7, <1>8, <1>9
          DEF PanelStep, ListStep

\* Every step keeps the offset of the file list.
LEMMA OffsetKept == PanelInv /\ [PanelStep]_panelVars => OffsetCountsRows'
  <1> SUFFICES ASSUME PanelTypeOK, OffsetCountsRows, [PanelStep]_panelVars
               PROVE  OffsetCountsRows'
    BY DEF PanelInv
  <1>t. files \in ListState /\ reports \in ListState
    BY DEF PanelTypeOK
  <1>1. ASSUME NEW list \in ListState, NEW c, NEW offset, NEW a \in Answer(c, offset),
               NEW total
        PROVE  /\ StartsAnew(list, a).offset = StartsAnew(list, a).rows
               /\ list.offset = list.rows => Continues(list, a, total).offset
                                                 = Continues(list, a, total).rows
    BY <1>1 DEF StartsAnew, Continues, Table
  <1>2. CASE UNCHANGED lists
    BY <1>2 DEF lists, OffsetCountsRows
  <1>3. CASE RefreshList \/ \E c \in flight : Refreshes(c, signed.token)
    BY <1>3 DEF RefreshList, Refreshes, OffsetCountsRows
  <1>4. CASE Filter
    BY <1>4 DEF Filter, OffsetCountsRows
  <1>5. ASSUME NEW c \in flight, FilesLoaded(c) PROVE OffsetCountsRows'
    <2>1. CASE \E a \in Answer(c, 0) : files' = StartsAnew(files, a)
      <3>1. files'.offset = files'.rows
        BY <1>1, <1>t, <2>1
      <3>2. reports' = reports /\ awaited' \subseteq awaited
             /\ ("reports" \in awaited => "reports" \in awaited')
        BY <1>5 DEF FilesLoaded
      <3> QED BY <3>1, <3>2 DEF OffsetCountsRows
    <2>2. CASE UNCHANGED <<files, awaited>>
      BY <1>5, <2>2 DEF FilesLoaded, OffsetCountsRows
    <2> QED BY <1>5, <2>1, <2>2 DEF FilesLoaded
  <1>6. ASSUME NEW c \in flight, MoreFilesLoaded(c) PROVE OffsetCountsRows'
    <2>1. CASE \E a \in Answer(c, c.arg) : files' = Continues(files, a, a.total)
      <3>1. files.offset = files.rows => files'.offset = files'.rows
        BY <1>1, <1>t, <2>1
      <3> QED BY <1>6, <3>1 DEF MoreFilesLoaded, OffsetCountsRows
    <2>2. CASE UNCHANGED files
      BY <1>6, <2>2 DEF MoreFilesLoaded, OffsetCountsRows
    <2> QED BY <1>6, <2>1, <2>2 DEF MoreFilesLoaded
  <1>7. ASSUME NEW c \in flight, RestLoaded(c) PROVE OffsetCountsRows'
    <2>1. CASE \E a \in Answer(c, 0) : reports' = StartsAnew(reports, a)
      <3>1. reports'.offset = reports'.rows
        BY <1>1, <1>t, <2>1
      <3>2. files' = files /\ ("files" \in awaited => "files" \in awaited')
        BY <1>7 DEF RestLoaded
      <3> QED BY <3>1, <3>2 DEF OffsetCountsRows
    <2>2. CASE UNCHANGED <<reports, awaited>>
      BY <1>7, <2>2 DEF RestLoaded, OffsetCountsRows
    <2> QED BY <1>7, <2>1, <2>2 DEF RestLoaded
  <1>8. ASSUME NEW c \in flight, MoreReportsLoaded(c) PROVE OffsetCountsRows'
    <2>1. CASE \E a \in Answer(c, c.arg) : \E total : reports' = Continues(reports, a, total)
      <3>1. reports.offset = reports.rows => reports'.offset = reports'.rows
        BY <1>1, <1>t, <2>1
      <3> QED BY <1>8, <3>1 DEF MoreReportsLoaded, OffsetCountsRows
    <2>2. CASE UNCHANGED reports
      BY <1>8, <2>2 DEF MoreReportsLoaded, OffsetCountsRows
    <2> QED BY <1>8, <2>1, <2>2 DEF MoreReportsLoaded
  <1>9. \/ UNCHANGED lists \/ Filter
        \/ RefreshList \/ \E c \in flight : Refreshes(c, signed.token)
        \/ \E c \in flight : FilesLoaded(c) \/ MoreFilesLoaded(c) \/ RestLoaded(c)
                             \/ MoreReportsLoaded(c)
    BY DEF PanelStep, Login, Logout, Act, LoadMore, Hide, RevealToken, RotateToken,
           AskToken, LoginAnswered, Acted, TokenServed, TokenAnswered, panelVars, lists
  <1> QED BY <1>2, <1>3, <1>4, <1>5, <1>6, <1>7, <1>8, <1>9

-----------------------------------------------------------------------------
\* The panel never gets into a state its invariant excludes.
THEOREM PanelInvariant == PanelSpec => []PanelInv
  <1>1. PanelInit => PanelInv
    <2> SUFFICES ASSUME PanelInit PROVE PanelInv
      OBVIOUS
    <2>1. PanelTypeOK
      BY DEF PanelInit, PanelTypeOK, AdminToken, Empty, ListState
    <2>2. LoginInv /\ TokenInv
      BY DEF PanelInit, LoginInv, TokenInv, Logins, Reveals, Rotations
    <2>3. OffsetCountsRows
      BY DEF PanelInit, OffsetCountsRows, Empty
    <2> QED BY <2>1, <2>2, <2>3 DEF PanelInv
  <1>2. PanelInv /\ [PanelStep]_panelVars => PanelInv'
    BY PanelTyped, LoginKept, TokenKept, OffsetKept DEF PanelInv
  <1> QED BY <1>1, <1>2, PTL DEF PanelSpec

\* Without overlapping attempts to sign in, the dashboard has a good token.
THEOREM DashboardIsSignedIn == PanelSpec => []SignedIn
  <1>1. PanelInv => SignedIn
    BY DEF PanelInv, LoginInv, SignedIn
  <1> QED BY <1>1, PanelInvariant, PTL

\* A list that is loaded goes on where it ended.
THEOREM NextPageFollows == PanelSpec => []OffsetCountsRows
  <1>1. PanelInv => OffsetCountsRows
    BY DEF PanelInv
  <1> QED BY <1>1, PanelInvariant, PTL

\* Without an overlapping rotation the box shows the token that works.
THEOREM BoxIsCurrent == PanelSpec => []ShowsCurrent
  <1>1. PanelInv => ShowsCurrent
    BY DEF PanelInv, TokenInv, ShowsCurrent, Rotations, Waiting
  <1> QED BY <1>1, PanelInvariant, PTL
=============================================================================
