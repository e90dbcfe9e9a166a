--------------------------- MODULE KeycloakProofs ---------------------------
(***************************************************************************)
(* What runs in and around Keycloak.  The emailed sign-in code, for any    *)
(* sessions, accounts and addresses, any limits and lifetimes, and its     *)
(* answers to twin sessions; then the realm's sign-in flows, for any       *)
(* releases, steps, providers and contents.                                *)
(***************************************************************************)
EXTENDS EmailCodeTwins, SigninFlows, TLAPS

NoteSet ==
    [address : Addresses \cup {NONE}, code : 1..MaxSends \cup {NONE},
     issued : 0..Horizon, sends : 0..MaxSends, wrong : 0..MaxWrong,
     attempted : Addresses \cup {NONE}, known : Users \cup {NONE}]

JobSet == [address : Addresses, code : Codes]

(* A code in the notes is the last one sent, to the address in the notes,  *)
(* and has guesses left.                                                   *)
CodeIsLast == \A s \in Sessions :
    notes[s].code # NONE =>
        /\ notes[s].address # NONE
        /\ notes[s].code = notes[s].sends /\ notes[s].wrong < MaxWrong

(* What was mailed, or is about to be, was drawn by the session, and the   *)
(* last of it for the address in its notes.                                *)
MailIsSent == \A s \in Sessions : signed[s] = NONE =>
    /\ \A i \in 1..Len(queue) : queue[i].code[1] = s =>
          /\ queue[i].code[2] <= notes[s].sends
          /\ queue[i].code[2] = notes[s].sends => queue[i].address = notes[s].address
    /\ \A u \in Users : \A c \in mail[u] : c[1] = s =>
          /\ c[2] <= notes[s].sends
          /\ c[2] = notes[s].sends => u = Found(notes[s].address)

(* What a session's guesses may still be: those its sent codes stood, less *)
(* what the last one still stands.                                         *)
GuessesPaid == \A s \in Sessions : signed[s] = NONE =>
    guesses[s] + (IF notes[s].code = NONE THEN 0 ELSE MaxWrong - notes[s].wrong)
        <= notes[s].sends * MaxWrong

IInv == TypeOK /\ CodeIsLast /\ MailIsSent /\ GuessesPaid /\ GuessesBounded

(* The type invariant, with its record sets named.                         *)
LEMMA Types ==
  TypeOK <=> /\ notes \in [Sessions -> NoteSet] /\ answer \in [Sessions -> Pages]
             /\ signed \in [Sessions -> Users \cup {NONE}]
             /\ queue \in Seq(JobSet) /\ Len(queue) <= QueueSize + 1
             /\ mail \in [Users -> SUBSET Codes] /\ barred \subseteq Users
             /\ now \in 1..Horizon /\ guesses \in [Sessions -> Nat]
  BY DEF TypeOK, NoteSet, JobSet

(* Products of counts.                                                     *)
LEMMA Products ==
  ASSUME NEW k \in Nat, NEW m \in Nat
  PROVE  /\ k * m \in Nat /\ (k + 1) * m = k * m + m
         /\ \A n \in Nat : k <= n => k * m <= n * m
  OBVIOUS

(* A session's notes at first, and once it has signed in.                  *)
LEMMA Blank == NoNotes \in NoteSet /\ NoNotes.code = NONE /\ NoNotes.sends = 0
  BY EmailCodeAssumption DEF NoNotes, NoteSet

(* Nothing is written, noted or mailed at first.                           *)
LEMMA InitIInv == Init => IInv
<1> SUFFICES ASSUME Init PROVE IInv
  OBVIOUS
<1>1. NoNotes \in NoteSet /\ NoNotes.code = NONE /\ NoNotes.sends = 0
  BY Blank
<1>2. TypeOK
  <2>1. queue \in Seq(JobSet) /\ Len(queue) <= QueueSize + 1
    BY EmailCodeAssumption DEF Init
  <2>2. notes \in [Sessions -> NoteSet] /\ answer \in [Sessions -> Pages]
        /\ signed \in [Sessions -> Users \cup {NONE}]
    BY <1>1 DEF Init, Pages
  <2>3. mail \in [Users -> SUBSET Codes] /\ barred \subseteq Users
        /\ now \in 1..Horizon /\ guesses \in [Sessions -> Nat]
    BY EmailCodeAssumption DEF Init
  <2> QED
    BY <2>1, <2>2, <2>3, Types
<1>3. CodeIsLast /\ MailIsSent
  BY <1>1 DEF Init, CodeIsLast, MailIsSent
<1>4. GuessesPaid
  BY <1>1, EmailCodeAssumption DEF Init, GuessesPaid
<1>5. GuessesBounded
  <2>1. MaxSends \in Nat /\ MaxWrong \in Nat
    BY EmailCodeAssumption
  <2>2. 0 <= MaxSends * MaxWrong
    BY <2>1, Products
  <2>3. \A s \in Sessions : guesses[s] = 0
    BY DEF Init
  <2> QED
    BY <2>2, <2>3 DEF GuessesBounded
<1> QED
  BY <1>2, <1>3, <1>4, <1>5 DEF Init, IInv

(* A step that leaves the notes, the queue, the mail and the counts.       *)
LEMMA PageStep ==
  ASSUME IInv, NEW s \in Sessions, NEW page \in Pages, Answer(s, page),
         UNCHANGED <<notes, queue, signed, mail, barred, now, guesses>>
  PROVE  IInv'
<1>1. answer' \in [Sessions -> Pages]
  BY Types DEF IInv, Answer
<1>2. TypeOK'
  BY <1>1, Types DEF IInv, TypeOK
<1>3. MailIsSent'
  BY DEF IInv, MailIsSent, Found
<1> QED
  BY <1>2, <1>3 DEF IInv, CodeIsLast, GuessesPaid, GuessesBounded

(* A code is drawn, noted and queued (send).                               *)
LEMMA SendStep ==
  ASSUME IInv, NEW s \in Sessions, signed[s] = NONE, NEW a \in Addresses, Gate(notes[s]) = "open",
         NEW page \in Pages, Send(s, a, page),
         UNCHANGED <<signed, mail, barred, now, guesses>>
  PROVE  IInv'
<1> DEFINE n == notes[s]
           m == Sent(n, a)
           job == [address |-> a, code |-> <<s, n.sends + 1>>]
<1>1. n \in NoteSet /\ n.sends \in Nat /\ n.sends + 1 \in 1..MaxSends /\ now \in 1..Horizon
  <2>1. n \in NoteSet /\ n.sends \in 0..MaxSends /\ now \in 1..Horizon
    BY Types DEF IInv, NoteSet
  <2>2. n.sends < MaxSends
    BY <2>1, EmailCodeAssumption DEF Gate
  <2> QED
    BY <2>1, <2>2, EmailCodeAssumption
<1>2. /\ m \in NoteSet /\ m.address = a /\ m.code = n.sends + 1 /\ m.sends = n.sends + 1
      /\ m.wrong = 0
  <2>1. now \in 0..Horizon /\ 0 \in 0..MaxWrong /\ n.sends + 1 \in 0..MaxSends
    BY <1>1, EmailCodeAssumption
  <2> HIDE DEF n
  <2> QED
    BY <1>1, <2>1 DEF Sent, NoteSet
<1>3. notes' = [notes EXCEPT ![s] = m] /\ queue' = Submit(queue, job) /\ answer' = [answer EXCEPT ![s] = page]
  BY DEF Send, Answer
<1>4. job \in JobSet /\ job.code[1] = s /\ job.code[2] = n.sends + 1 /\ job.address = a
  BY <1>1 DEF JobSet, Codes
<1>5. queue \in Seq(JobSet) /\ Len(queue) \in Nat /\ Len(queue) <= QueueSize + 1
  BY Types DEF IInv
<1> HIDE DEF m, job
<1>6. /\ queue' \in Seq(JobSet) /\ Len(queue') <= QueueSize + 1
      /\ \A i \in 1..Len(queue') : queue'[i] = job \/ (i \in 1..Len(queue) /\ queue'[i] = queue[i])
  BY <1>3, <1>4, <1>5, EmailCodeAssumption DEF Submit
<1>7. TypeOK'
  <2>1. notes' \in [Sessions -> NoteSet] /\ answer' \in [Sessions -> Pages]
    BY <1>2, <1>3, Types DEF IInv
  <2> QED
    BY <1>6, <2>1, Types DEF IInv, TypeOK, NoteSet, JobSet
<1>8. \A t \in Sessions : t # s => notes'[t] = notes[t]
  BY <1>3, Types DEF IInv
<1>9. notes'[s] = m
  BY <1>3, Types DEF IInv
<1>10. CodeIsLast'
  BY <1>2, <1>8, <1>9, EmailCodeAssumption DEF IInv, CodeIsLast
<1>11. MailIsSent'
  <2>1. \A u \in Users : \A c \in mail[u] : c[1] = s => c[2] <= n.sends /\ c[2] \in Nat
    BY Types DEF IInv, MailIsSent, Codes
  <2>2. \A i \in 1..Len(queue) : queue[i].code[1] = s => queue[i].code[2] <= n.sends /\ queue[i].code[2] \in Nat
    <3> SUFFICES ASSUME NEW i \in 1..Len(queue), queue[i].code[1] = s
                 PROVE  queue[i].code[2] <= n.sends /\ queue[i].code[2] \in Nat
      OBVIOUS
    <3>1. queue[i] \in JobSet
      BY <1>5
    <3> QED
      BY <3>1 DEF IInv, MailIsSent, Codes, JobSet
  <2> SUFFICES ASSUME NEW t \in Sessions, signed[t] = NONE
               PROVE  /\ \A i \in 1..Len(queue') : queue'[i].code[1] = t =>
                            /\ queue'[i].code[2] <= notes'[t].sends
                            /\ queue'[i].code[2] = notes'[t].sends => queue'[i].address = notes'[t].address
                      /\ \A u \in Users : \A c \in mail[u] : c[1] = t =>
                            /\ c[2] <= notes'[t].sends
                            /\ c[2] = notes'[t].sends => u = Found(notes'[t].address)
    BY DEF MailIsSent, Found
  <2>3. CASE t # s
    BY <1>4, <1>6, <1>8, <2>3 DEF IInv, MailIsSent
  <2>4. CASE t = s
    <3>1. ASSUME NEW i \in 1..Len(queue'), queue'[i].code[1] = s
          PROVE  queue'[i].code[2] <= m.sends /\ (queue'[i].code[2] = m.sends => queue'[i].address = m.address)
      <4>1. CASE queue'[i] = job
        BY <1>1, <1>2, <1>4, <4>1
      <4>2. CASE i \in 1..Len(queue) /\ queue'[i] = queue[i]
        <5>1. queue'[i].code[2] <= n.sends /\ queue'[i].code[2] \in Nat
          BY <2>2, <3>1, <4>2
        <5> QED
          BY <1>1, <1>2, <5>1
      <4> QED
        BY <1>6, <4>1, <4>2
    <3>2. ASSUME NEW u \in Users, NEW c \in mail[u], c[1] = s
          PROVE  c[2] <= m.sends /\ c[2] # m.sends
      BY <1>1, <1>2, <2>1, <3>2
    <3> QED
      BY <1>9, <2>4, <3>1, <3>2
  <2> QED
    BY <2>3, <2>4
<1>12. GuessesPaid'
  <2>1. guesses[s] \in Nat /\ guesses[s] <= n.sends * MaxWrong
    <3>1. guesses[s] \in Nat /\ n.wrong \in 0..MaxWrong
      BY <1>1, Types DEF IInv, NoteSet
    <3>2. n.sends * MaxWrong \in Nat
      BY <1>1, Products, EmailCodeAssumption
    <3> QED
      BY <3>1, <3>2, EmailCodeAssumption DEF IInv, GuessesPaid
  <2>2. (n.sends + 1) * MaxWrong = n.sends * MaxWrong + MaxWrong /\ n.sends * MaxWrong \in Nat
    BY <1>1, Products, EmailCodeAssumption
  <2>3. guesses[s] + (MaxWrong - 0) <= (n.sends + 1) * MaxWrong
    BY <2>1, <2>2, EmailCodeAssumption
  <2>4. m.code # NONE
    BY <1>1, <1>2, EmailCodeAssumption
  <2> QED
    BY <1>2, <1>8, <1>9, <2>3, <2>4 DEF IInv, GuessesPaid
<1> QED
  BY <1>7, <1>10, <1>11, <1>12 DEF IInv, GuessesBounded

(* A post that does not sign in: wrong's count, and the code withdrawn at  *)
(* the last.                                                               *)
LEMMA WrongStep ==
  ASSUME IInv, NEW s \in Sessions, signed[s] = NONE, NEW given, ~SignsIn(s, notes[s], given),
         CodePost(s, given)
  PROVE  IInv'
<1> DEFINE n == notes[s]
           m == Wrong(n)
<1>1. /\ notes' = [notes EXCEPT ![s] = m]
      /\ guesses' = [guesses EXCEPT ![s] = IF CodeIsLive(n) /\ given = GUESS THEN @ + 1 ELSE @]
      /\ answer' = [answer EXCEPT ![s] = "code_invalid"]
      /\ UNCHANGED <<signed, queue, mail, barred, now>>
  BY DEF CodePost, Answer
<1>2. n \in NoteSet /\ n.wrong \in 0..MaxWrong /\ n.sends \in 0..MaxSends
  BY Types DEF IInv, NoteSet
<1>3. MaxWrong \in Nat /\ MaxWrong # 0 /\ MaxSends \in Nat /\ NONE \notin Nat
  BY EmailCodeAssumption
<1>4. /\ m \in NoteSet /\ m.address = n.address /\ m.sends = n.sends
      /\ m.code = n.code \/ m.code = NONE
      /\ n.wrong < MaxWrong => m.wrong = n.wrong + 1
      /\ m.code # NONE => m.wrong < MaxWrong
      /\ n.address # NONE => m.attempted = n.address
  <2> DEFINE w == IF n.wrong < MaxWrong THEN n.wrong + 1 ELSE n.wrong
             c == IF w >= MaxWrong THEN NONE ELSE n.code
             b == IF n.address = NONE THEN n.attempted ELSE n.address
  <2>1. m = [n EXCEPT !.attempted = b, !.wrong = w, !.code = c]
    BY DEF Wrong
  <2>2. w \in 0..MaxWrong /\ (n.wrong < MaxWrong => w = n.wrong + 1) /\ (c # NONE => w < MaxWrong)
    BY <1>2, <1>3
  <2>3. b \in Addresses \cup {NONE} /\ c \in {n.code, NONE}
    BY <1>2 DEF NoteSet
  <2>4. n.address # NONE => b = n.address
    OBVIOUS
  <2> HIDE DEF n, w, c, b, m
  <2> QED
    BY <1>2, <2>1, <2>2, <2>3, <2>4 DEF NoteSet
<1> HIDE DEF m
<1>5. \A t \in Sessions : notes'[t] = IF t = s THEN m ELSE notes[t]
  BY <1>1, Types DEF IInv
<1>6. guesses[s] \in Nat /\ \A t \in Sessions : t # s => guesses'[t] = guesses[t]
  BY <1>1, Types DEF IInv
<1>7. guesses'[s] = guesses[s] \/ (guesses'[s] = guesses[s] + 1 /\ n.code # NONE)
  BY <1>1, Types DEF IInv, CodeIsLive
<1>8. TypeOK'
  <2>1. notes' \in [Sessions -> NoteSet] /\ answer' \in [Sessions -> Pages]
    BY <1>1, <1>4, Types DEF IInv, Pages
  <2>2. guesses' \in [Sessions -> Nat]
    BY <1>1, Types DEF IInv
  <2> QED
    BY <1>1, <2>1, <2>2, Types DEF IInv, TypeOK, NoteSet
<1>9. CodeIsLast'
  BY <1>4, <1>5 DEF IInv, CodeIsLast
<1>10. MailIsSent'
  BY <1>1, <1>4, <1>5 DEF IInv, MailIsSent, Found
<1>11. GuessesPaid' /\ GuessesBounded'
  <2> DEFINE k == n.sends * MaxWrong
  <2>1. n.sends \in Nat /\ k \in Nat /\ k <= MaxSends * MaxWrong /\ MaxSends * MaxWrong \in Nat
    BY <1>2, <1>3, Products
  <2> HIDE DEF k
  <2>2. guesses[s] + (IF n.code = NONE THEN 0 ELSE MaxWrong - n.wrong) <= k
    BY DEF IInv, GuessesPaid, k
  <2>3. n.code # NONE => n.wrong < MaxWrong
    BY DEF IInv, CodeIsLast
  <2>4. guesses'[s] + (IF m.code = NONE THEN 0 ELSE MaxWrong - m.wrong) <= k /\ guesses'[s] <= k
    BY <1>2, <1>3, <1>4, <1>6, <1>7, <2>1, <2>2, <2>3
  <2>5. guesses'[s] \in Nat
    BY <1>6, <1>7
  <2>6. guesses'[s] <= MaxSends * MaxWrong
    BY <2>1, <2>4, <2>5
  <2>7. GuessesPaid'
    BY <1>1, <1>4, <1>5, <1>6, <2>4 DEF IInv, GuessesPaid, k
  <2> QED
    BY <1>6, <2>6, <2>7 DEF IInv, GuessesBounded
<1> QED
  BY <1>8, <1>9, <1>10, <1>11 DEF IInv

(* A code that signs in: the notes are cleared with it.                    *)
LEMMA SignStep ==
  ASSUME IInv, NEW s \in Sessions, signed[s] = NONE, NEW given, SignsIn(s, notes[s], given),
         CodePost(s, given)
  PROVE  IInv'
<1> DEFINE u == Found(notes[s].address)
           m == [NoNotes EXCEPT !.attempted = notes[s].attempted, !.known = u]
<1>1. /\ notes' = [notes EXCEPT ![s] = m] /\ signed' = [signed EXCEPT ![s] = u]
      /\ answer' = [answer EXCEPT ![s] = "success"]
      /\ UNCHANGED <<guesses, queue, mail, barred, now>>
  BY DEF CodePost, Answer
<1>2. notes[s] \in NoteSet /\ u # NONE
  BY Types DEF IInv, SignsIn, Eligible
<1>3. u \in Users
  BY <1>2, EmailCodeAssumption DEF Found, NoteSet
<1>4. m \in NoteSet /\ m.code = NONE
  BY <1>2, <1>3, Blank DEF NoteSet
<1> HIDE DEF m, u
<1>5. \A t \in Sessions : t # s => notes'[t] = notes[t] /\ signed'[t] = signed[t]
  BY <1>1, Types DEF IInv
<1>6. notes'[s] = m /\ signed'[s] = u
  BY <1>1, Types DEF IInv
<1>7. TypeOK'
  <2>1. notes' \in [Sessions -> NoteSet] /\ answer' \in [Sessions -> Pages]
        /\ signed' \in [Sessions -> Users \cup {NONE}]
    BY <1>1, <1>3, <1>4, Types DEF IInv, Pages
  <2> QED
    BY <1>1, <2>1, Types DEF IInv, TypeOK, NoteSet
<1>8. CodeIsLast'
  BY <1>4, <1>5, <1>6 DEF IInv, CodeIsLast
<1>9. MailIsSent'
  BY <1>1, <1>2, <1>5, <1>6 DEF IInv, MailIsSent, Found
<1>10. GuessesPaid' /\ GuessesBounded'
  BY <1>1, <1>2, <1>5, <1>6 DEF IInv, GuessesPaid, GuessesBounded
<1> QED
  BY <1>7, <1>8, <1>9, <1>10 DEF IInv

(* The job at the head of the queue is mailed, or not, and is gone.        *)
LEMMA DeliverStep ==
  ASSUME IInv, Deliver
  PROVE  IInv'
<1> DEFINE job == Head(queue)
           u == Found(job.address)
<1>1. /\ queue # << >> /\ queue' = Tail(queue)
      /\ UNCHANGED <<notes, answer, signed, barred, now, guesses>>
      /\ mail' = mail \/ (Eligible(u) /\ mail' = [mail EXCEPT ![u] = @ \cup {job.code}])
  BY DEF Deliver
<1>2. queue \in Seq(JobSet) /\ Len(queue) \in Nat /\ Len(queue) <= QueueSize + 1
  BY Types DEF IInv
<1>3. /\ job \in JobSet /\ 1 \in 1..Len(queue) /\ queue[1] = job
      /\ queue' \in Seq(JobSet) /\ Len(queue') = Len(queue) - 1
      /\ \A i \in 1..Len(queue') : i + 1 \in 1..Len(queue) /\ queue'[i] = queue[i + 1]
  BY <1>1, <1>2
<1>4. ASSUME Eligible(u) PROVE u \in Users /\ job.code \in Codes
  BY <1>3, <1>4, EmailCodeAssumption DEF Eligible, Found, JobSet
<1>5. TypeOK'
  <2>1. mail' \in [Users -> SUBSET Codes]
    BY <1>1, <1>4, Types DEF IInv
  <2>2. Len(queue') <= QueueSize + 1
    BY <1>2, <1>3, EmailCodeAssumption
  <2> QED
    BY <1>1, <1>3, <2>1, <2>2, Types DEF IInv, TypeOK, JobSet
<1> HIDE DEF job
<1>6. MailIsSent'
  <2> SUFFICES ASSUME NEW s \in Sessions, signed[s] = NONE
               PROVE  /\ \A i \in 1..Len(queue') : queue'[i].code[1] = s =>
                            /\ queue'[i].code[2] <= notes[s].sends
                            /\ queue'[i].code[2] = notes[s].sends => queue'[i].address = notes[s].address
                      /\ \A v \in Users : \A c \in mail'[v] : c[1] = s =>
                            /\ c[2] <= notes[s].sends
                            /\ c[2] = notes[s].sends => v = Found(notes[s].address)
    BY <1>1 DEF MailIsSent, Found
  <2>1. ASSUME NEW i \in 1..Len(queue'), queue'[i].code[1] = s
        PROVE  /\ queue'[i].code[2] <= notes[s].sends
               /\ queue'[i].code[2] = notes[s].sends => queue'[i].address = notes[s].address
    BY <1>3, <2>1 DEF IInv, MailIsSent
  <2>2. ASSUME NEW v \in Users, NEW c \in mail'[v], c[1] = s
        PROVE  /\ c[2] <= notes[s].sends
               /\ c[2] = notes[s].sends => v = Found(notes[s].address)
    <3>1. CASE c \in mail[v]
      BY <2>2, <3>1 DEF IInv, MailIsSent
    <3>2. CASE c \notin mail[v]
      <4>1. c = job.code /\ v = u
        BY <1>1, <1>4, <2>2, <3>2, Types DEF IInv
      <4> QED
        BY <1>3, <2>2, <4>1 DEF IInv, MailIsSent
    <3> QED
      BY <3>1, <3>2
  <2> QED
    BY <2>1, <2>2
<1> QED
  BY <1>1, <1>5, <1>6 DEF IInv, CodeIsLast, GuessesPaid, GuessesBounded

(* A step of the password form, or of another authenticator, on one        *)
(* session's notes.                                                        *)
LEMMA NoteStep ==
  ASSUME IInv, NEW s \in Sessions, NEW m \in NoteSet, notes' = [notes EXCEPT ![s] = m],
         m.address = notes[s].address, m.code = notes[s].code, m.sends = notes[s].sends,
         m.wrong = notes[s].wrong,
         UNCHANGED <<answer, signed, queue, mail, barred, now, guesses>>
  PROVE  IInv'
<1>1. \A t \in Sessions : /\ notes'[t].address = notes[t].address /\ notes'[t].code = notes[t].code
                          /\ notes'[t].sends = notes[t].sends /\ notes'[t].wrong = notes[t].wrong
  BY Types DEF IInv
<1>2. notes' \in [Sessions -> NoteSet]
  BY Types DEF IInv
<1>3. TypeOK'
  BY <1>2, Types DEF IInv, TypeOK, NoteSet
<1>4. MailIsSent'
  BY <1>1 DEF IInv, MailIsSent, Found
<1> QED
  BY <1>1, <1>3, <1>4 DEF IInv, CodeIsLast, GuessesPaid, GuessesBounded

(* A gated send is a refusal's page, or a code drawn and queued.           *)
LEMMA GatedStep ==
  ASSUME IInv, NEW s \in Sessions, signed[s] = NONE, NEW a \in Addresses, GatedSend(s, a),
         UNCHANGED <<signed, mail, barred, now, guesses>>
  PROVE  IInv'
<1>1. "code" \in Pages /\ (Gate(notes[s]) # "open" => Gate(notes[s]) \in Pages)
  BY DEF Gate, Pages
<1>2. CASE Gate(notes[s]) = "open" /\ Send(s, a, "code")
  BY <1>1, <1>2, SendStep
<1>3. CASE Gate(notes[s]) # "open" /\ Answer(s, Gate(notes[s])) /\ UNCHANGED <<notes, queue>>
  BY <1>1, <1>3, PageStep
<1> QED
  BY <1>2, <1>3 DEF GatedSend

(* Every request, job and change of standing keeps the invariant.          *)
LEMMA NextIInv == IInv /\ [Next]_vars => IInv'
<1> SUFFICES ASSUME IInv, [Next]_vars PROVE IInv'
  OBVIOUS
<1>1. ASSUME NEW s \in Sessions PROVE notes[s] \in NoteSet
  BY Types DEF IInv
<1>2. \A u \in Users : AddressOf[u] \in Addresses
  BY EmailCodeAssumption
<1>3. "code" \in Pages /\ "address" \in Pages /\ "address_invalid" \in Pages
  BY DEF Pages
<1>4. ASSUME NEW s \in Sessions, Authenticate(s) PROVE IInv'
  <2>1. signed[s] = NONE /\ UNCHANGED <<signed, mail, barred, now, guesses>>
    BY <1>4 DEF Authenticate
  <2>2. CASE notes[s].known # NONE /\ GatedSend(s, AddressOf[notes[s].known])
    <3>1. notes[s].known \in Users
      BY <1>1, <2>2 DEF NoteSet
    <3> QED
      BY <1>2, <2>1, <2>2, <3>1, GatedStep
  <2>3. ASSUME NEW page \in {"code", "address"}, Answer(s, page), UNCHANGED <<notes, queue>> PROVE IInv'
    BY <1>3, <2>1, <2>3, PageStep
  <2>4. \/ notes[s].known # NONE /\ GatedSend(s, AddressOf[notes[s].known])
        \/ Answer(s, IF CodeIsLive(notes[s]) THEN "code" ELSE "address") /\ UNCHANGED <<notes, queue>>
    BY <1>4 DEF Authenticate
  <2> QED
    BY <2>2, <2>3, <2>4
<1>5. ASSUME NEW s \in Sessions, ResendPost(s) PROVE IInv'
  <2>1. signed[s] = NONE /\ UNCHANGED <<signed, mail, barred, now, guesses>>
    BY <1>5 DEF ResendPost
  <2>2. CASE Answer(s, "address") /\ UNCHANGED <<notes, queue>>
    BY <1>3, <2>1, <2>2, PageStep
  <2>3. CASE notes[s].address # NONE /\ GatedSend(s, notes[s].address)
    <3>1. notes[s].address \in Addresses
      BY <1>1, <2>3 DEF NoteSet
    <3> QED
      BY <2>1, <2>3, <3>1, GatedStep
  <2> QED
    BY <1>5, <2>2, <2>3 DEF ResendPost
<1>6. ASSUME NEW s \in Sessions, NEW typed \in Addresses \cup {NONE}, AddressPost(s, typed) PROVE IInv'
  <2> DEFINE a == IF notes[s].known # NONE THEN AddressOf[notes[s].known] ELSE typed
  <2>1. signed[s] = NONE /\ UNCHANGED <<signed, mail, barred, now, guesses>>
    BY <1>6 DEF AddressPost
  <2>2. a \in Addresses \cup {NONE}
    BY <1>1, <1>2 DEF NoteSet
  <2>3. \/ Answer(s, "address_invalid") /\ UNCHANGED <<notes, queue>>
        \/ a # NONE /\ GatedSend(s, a)
    BY <1>6 DEF AddressPost
  <2> HIDE DEF a
  <2>4. CASE Answer(s, "address_invalid") /\ UNCHANGED <<notes, queue>>
    BY <1>3, <2>1, <2>4, PageStep
  <2>5. CASE a # NONE /\ GatedSend(s, a)
    BY <2>1, <2>2, <2>5, GatedStep
  <2> QED
    BY <2>3, <2>4, <2>5
<1>7. ASSUME NEW s \in Sessions, NEW g \in Given(s), CodePost(s, g) PROVE IInv'
  <2>1. signed[s] = NONE
    BY <1>7 DEF CodePost
  <2> QED
    BY <1>7, <2>1, WrongStep, SignStep
<1>8. ASSUME NEW s \in Sessions, NEW a \in Addresses, PasswordForm(s, a) PROVE IInv'
  <2> DEFINE m == [notes[s] EXCEPT !.attempted = a]
  <2>1. /\ notes' = [notes EXCEPT ![s] = m]
        /\ UNCHANGED <<answer, signed, queue, mail, barred, now, guesses>>
    BY <1>8 DEF PasswordForm
  <2>2. /\ m \in NoteSet /\ m.address = notes[s].address /\ m.code = notes[s].code
        /\ m.sends = notes[s].sends /\ m.wrong = notes[s].wrong
    BY <1>1 DEF NoteSet
  <2> HIDE DEF m
  <2> QED
    BY <2>1, <2>2, NoteStep
<1>9. ASSUME NEW s \in Sessions, NEW u \in Users, Identify(s, u) PROVE IInv'
  <2> DEFINE m == [notes[s] EXCEPT !.known = u]
  <2>1. /\ notes' = [notes EXCEPT ![s] = m]
        /\ UNCHANGED <<answer, signed, queue, mail, barred, now, guesses>>
    BY <1>9 DEF Identify
  <2>2. /\ m \in NoteSet /\ m.address = notes[s].address /\ m.code = notes[s].code
        /\ m.sends = notes[s].sends /\ m.wrong = notes[s].wrong
    BY <1>1 DEF NoteSet
  <2> HIDE DEF m
  <2> QED
    BY <2>1, <2>2, NoteStep
<1>10. CASE Restart
  <2>1. queue' = << >> /\ UNCHANGED <<notes, answer, signed, mail, barred, now, guesses>>
    BY <1>10 DEF Restart
  <2>2. queue' \in Seq(JobSet) /\ Len(queue') = 0 /\ Len(queue') <= QueueSize + 1
    BY <2>1, EmailCodeAssumption
  <2>3. TypeOK'
    BY <2>1, <2>2, Types DEF IInv, TypeOK, JobSet
  <2>4. MailIsSent'
    BY <2>1, <2>2 DEF IInv, MailIsSent, Found
  <2> QED
    BY <2>1, <2>3, <2>4 DEF IInv, CodeIsLast, GuessesPaid, GuessesBounded
<1>11. CASE Standing \/ Tick
  <2>1. UNCHANGED <<notes, answer, signed, queue, mail, guesses>>
        /\ barred' \subseteq Users /\ now' \in 1..Horizon
    <3>1. now \in 1..Horizon /\ barred \subseteq Users
      BY Types DEF IInv
    <3> QED
      BY <1>11, <3>1, EmailCodeAssumption DEF Standing, Tick
  <2>2. TypeOK'
    BY <2>1 DEF IInv, TypeOK
  <2>3. MailIsSent'
    BY <2>1 DEF IInv, MailIsSent, Found
  <2> QED
    BY <2>1, <2>2, <2>3 DEF IInv, CodeIsLast, GuessesPaid, GuessesBounded
<1>12. CASE UNCHANGED vars
  <2>1. UNCHANGED <<notes, answer, signed, queue, mail, barred, now, guesses>>
    BY <1>12 DEF vars
  <2>2. TypeOK' /\ MailIsSent'
    BY <2>1 DEF IInv, TypeOK, MailIsSent, Found
  <2> QED
    BY <2>1, <2>2 DEF IInv, CodeIsLast, GuessesPaid, GuessesBounded
<1> QED
  BY <1>4, <1>5, <1>6, <1>7, <1>8, <1>9, <1>10, <1>11, <1>12, DeliverStep DEF Next

(* However the sessions, the mail, the clock and the accounts move, no     *)
(* more than MAX_SENDS * MAX_WRONG guesses of a session are ever compared  *)
(* with a live code (wrong, gate).                                         *)
THEOREM GuessingIsBounded == Spec => []GuessesBounded
<1>1. IInv => GuessesBounded
  BY DEF IInv
<1> QED
  BY <1>1, InitIInv, NextIInv, PTL DEF Spec

(* The sends and the wrong codes of a session never pass their limits, and *)
(* the mails that wait never pass the queue and its worker (gate, send).   *)
THEOREM EmailTypes == Spec => []TypeOK
<1>1. IInv => TypeOK
  BY DEF IInv
<1> QED
  BY <1>1, InitIInv, NextIInv, PTL DEF Spec

(* A session signs in only as the account whose mail its person reads, as  *)
(* long as that account is eligible, with the last code sent to it and     *)
(* within its lifetime (codePost).                                         *)
THEOREM SignInIsProved == Spec => SignInProves
<1> DEFINE Step ==
      \A s \in Sessions : signed'[s] # signed[s] =>
          /\ signed'[s] = Reads[s]
          /\ signed'[s] \notin barred
          /\ notes[s].known \in {NONE, signed'[s]}
          /\ now - notes[s].issued <= Lifetime
          /\ <<s, notes[s].sends>> \in mail[signed'[s]]
<1>1. ASSUME IInv, Next PROVE Step
  <2> SUFFICES ASSUME NEW s \in Sessions, signed'[s] # signed[s]
               PROVE  /\ signed'[s] = Reads[s]
                      /\ signed'[s] \notin barred
                      /\ notes[s].known \in {NONE, signed'[s]}
                      /\ now - notes[s].issued <= Lifetime
                      /\ <<s, notes[s].sends>> \in mail[signed'[s]]
    OBVIOUS
  <2> DEFINE n == notes[s]
             u == Found(n.address)
  <2>1. PICK t \in Sessions : \E g \in Given(t) : CodePost(t, g)
    BY <1>1 DEF Next, Authenticate, ResendPost, AddressPost, PasswordForm, Identify, Deliver,
       Restart, Standing, Tick
  <2>2. PICK g \in Given(t) : CodePost(t, g)
    BY <2>1
  <2>3. s = t /\ SignsIn(s, n, g) /\ signed' = [signed EXCEPT ![s] = u] /\ signed[s] = NONE
    <3>1. signed \in [Sessions -> Users \cup {NONE}]
      BY <1>1, Types DEF IInv
    <3>2. /\ signed[t] = NONE
          /\ \/ SignsIn(t, notes[t], g) /\ signed' = [signed EXCEPT ![t] = Found(notes[t].address)]
             \/ UNCHANGED signed
      BY <2>2 DEF CodePost
    <3> QED
      BY <3>1, <3>2
  <2>4. /\ signed'[s] = u /\ u # NONE /\ u \notin barred /\ n.known \in {NONE, u}
        /\ now - n.issued <= Lifetime /\ g = <<s, n.code>> /\ n.code # NONE
    BY <1>1, <2>3, Types DEF IInv, SignsIn, Matches, Eligible, CodeIsLive
  <2>5. n.code = n.sends /\ n.code \in 1..MaxSends
    BY <1>1, <2>4, Types DEF IInv, CodeIsLast, NoteSet
  <2>6. g # GUESS
    <3>1. g \in Sessions \X (1..MaxSends)
      BY <2>4, <2>5
    <3> QED
      BY <3>1, EmailCodeAssumption
  <2>7. Reads[s] \in Users /\ g \in mail[Reads[s]]
    BY <2>2, <2>3, <2>6, EmailCodeAssumption DEF Given
  <2>8. Reads[s] = u
    BY <1>1, <2>3, <2>4, <2>5, <2>7 DEF IInv, MailIsSent
  <2> HIDE DEF u
  <2> QED
    BY <2>4, <2>5, <2>7, <2>8
<1>2. ASSUME IInv, [Next]_vars PROVE [Step]_vars
  BY <1>1, <1>2
<1> QED
  BY <1>2, InitIInv, NextIInv, PTL DEF Spec, SignInProves

-----------------------------------------------------------------------------
(* The twins: what of a session's notes the answers depend on, whoever the *)
(* address finds.                                                          *)
View(n) == [sends |-> n.sends, issued |-> n.issued, wrong |-> n.wrong, code |-> n.code,
            placed |-> n.address # NONE]

(* What a request makes of a view, and the page it answers.                *)
After(r, v) ==
    LET wrongs == IF v.wrong < MaxWrong THEN v.wrong + 1 ELSE v.wrong
    IN  IF r = "code"
        THEN [v EXCEPT !.wrong = wrongs, !.code = IF wrongs >= MaxWrong THEN NONE ELSE v.code]
        ELSE IF Gate(v) = "open" /\ (r = "address" \/ (r = "resend" /\ v.placed))
        THEN [sends |-> v.sends + 1, issued |-> now, wrong |-> 0, code |-> v.sends + 1, placed |-> TRUE]
        ELSE v

GatePage(v) == IF Gate(v) = "open" THEN "code" ELSE Gate(v)

PageOf(r, v) ==
    CASE r = "authenticate" -> IF CodeIsLive(v) THEN "code" ELSE "address"
      [] r = "address" -> GatePage(v)
      [] r = "blank" -> "address_invalid"
      [] r = "resend" -> IF v.placed THEN GatePage(v) ELSE "address"
      [] r = "code" -> "code_invalid"

Unknown == \A s \in Sessions : notes[s].known = NONE

(* Between two pairs the twins' notes look alike; within one, the first's  *)
(* are what its request made of notes like the second's.                   *)
Alike ==
    IF pending = NONE
    THEN View(notes[First]) = View(notes[Second]) /\ answer[First] = answer[Second]
    ELSE /\ pending \in Requests
         /\ View(notes[First]) = After(pending, View(notes[Second]))
         /\ answer[First] = PageOf(pending, View(notes[Second]))

(* A gated send, seen through the view.                                    *)
LEMMA GatedView ==
  ASSUME IInv, NEW s \in Sessions, NEW a \in Addresses, GatedSend(s, a), UNCHANGED now
  PROVE  /\ View(notes[s])' = IF Gate(View(notes[s])) = "open"
                              THEN [sends |-> notes[s].sends + 1, issued |-> now, wrong |-> 0,
                                    code |-> notes[s].sends + 1, placed |-> TRUE]
                              ELSE View(notes[s])
         /\ notes'[s].known = notes[s].known
         /\ answer' = [answer EXCEPT ![s] = GatePage(View(notes[s]))]
         /\ \A t \in Sessions : t # s => notes'[t] = notes[t]
<1> DEFINE n == notes[s]
           m == Sent(n, a)
<1>1. notes \in [Sessions -> NoteSet] /\ n \in NoteSet /\ a # NONE
  BY Types, EmailCodeAssumption DEF IInv
<1>2. Gate(View(n)) = Gate(n)
  BY DEF Gate, View
<1>3. CASE Gate(n) = "open" /\ Send(s, a, "code")
  <2>1. notes' = [notes EXCEPT ![s] = m] /\ answer' = [answer EXCEPT ![s] = "code"]
    BY <1>3 DEF Send, Answer
  <2>2. /\ m.sends = n.sends + 1 /\ m.issued = now /\ m.wrong = 0 /\ m.code = n.sends + 1
        /\ m.address = a /\ m.known = n.known
    <3> HIDE DEF n
    <3> QED
      BY <1>1 DEF Sent, NoteSet
  <2> HIDE DEF m
  <2>3. notes'[s] = m /\ \A t \in Sessions : t # s => notes'[t] = notes[t]
    BY <1>1, <2>1
  <2> QED
    BY <1>1, <1>2, <1>3, <2>1, <2>2, <2>3 DEF View, GatePage
<1>4. CASE Gate(n) # "open" /\ Answer(s, Gate(n)) /\ UNCHANGED <<notes, queue>>
  BY <1>2, <1>4 DEF View, GatePage, Answer
<1> QED
  BY <1>3, <1>4 DEF GatedSend

(* A request changes its own session alone, by its view alone.             *)
LEMMA AskStep ==
  ASSUME IInv, TwinsOK, Unknown, NEW s \in Sessions, NEW r \in Requests, Ask(s, r)
  PROVE  /\ View(notes[s])' = After(r, View(notes[s])) /\ notes'[s].known = NONE
         /\ answer' = [answer EXCEPT ![s] = PageOf(r, View(notes[s]))] /\ now' = now
         /\ \A t \in Sessions : t # s => notes'[t] = notes[t]
<1> DEFINE n == notes[s]
           v == View(n)
<1>1. n \in NoteSet /\ n.known = NONE /\ notes \in [Sessions -> NoteSet]
  BY Types DEF IInv, Unknown
<1>2. v.placed <=> n.address # NONE
  BY DEF View
<1>3. CASE r = "authenticate"
  <2>1. answer' = [answer EXCEPT ![s] = IF CodeIsLive(n) THEN "code" ELSE "address"]
        /\ UNCHANGED <<notes, now>>
    BY <1>1, <1>3 DEF Ask, Authenticate, Answer
  <2>2. CodeIsLive(v) = CodeIsLive(n)
    BY DEF CodeIsLive, View
  <2> QED
    BY <1>1, <1>3, <2>1, <2>2 DEF View, After, PageOf
<1>4. CASE r = "address"
  <2>1. Address[s] \in Addresses /\ Address[s] # NONE
    BY EmailCodeAssumption DEF TwinsOK
  <2>2. GatedSend(s, Address[s]) /\ UNCHANGED now
    BY <1>1, <1>4, <2>1 DEF Ask, AddressPost
  <2> QED
    BY <1>1, <1>4, <2>1, <2>2, GatedView DEF After, PageOf, View
<1>5. CASE r = "blank"
  <2>1. answer' = [answer EXCEPT ![s] = "address_invalid"] /\ UNCHANGED <<notes, now>>
    BY <1>1, <1>5 DEF Ask, AddressPost, Answer
  <2> QED
    BY <1>1, <1>5, <2>1 DEF View, After, PageOf
<1>6. CASE r = "resend"
  <2>1. CASE n.address = NONE
    <3>1. answer' = [answer EXCEPT ![s] = "address"] /\ UNCHANGED <<notes, now>>
      BY <1>6, <2>1 DEF Ask, ResendPost, Answer
    <3> QED
      BY <1>1, <1>2, <1>6, <2>1, <3>1 DEF View, After, PageOf
  <2>2. CASE n.address # NONE
    <3>1. n.address \in Addresses /\ GatedSend(s, n.address) /\ UNCHANGED now
      BY <1>1, <1>6, <2>2 DEF Ask, ResendPost, NoteSet
    <3> QED
      BY <1>1, <1>2, <1>6, <2>2, <3>1, GatedView DEF After, PageOf, View
  <2> QED
    BY <2>1, <2>2
<1>7. CASE r = "code"
  <2> DEFINE m == Wrong(n)
             w == IF n.wrong < MaxWrong THEN n.wrong + 1 ELSE n.wrong
             c == IF w >= MaxWrong THEN NONE ELSE n.code
  <2>1. ~SignsIn(s, n, GUESS)
    <3>1. n.code \in 1..MaxSends => <<s, n.code>> # GUESS
      BY EmailCodeAssumption
    <3> QED
      BY <1>1, <3>1 DEF SignsIn, Matches, NoteSet
  <2>2. notes' = [notes EXCEPT ![s] = m] /\ answer' = [answer EXCEPT ![s] = "code_invalid"] /\ now' = now
    BY <1>7, <2>1 DEF Ask, CodePost, Answer
  <2>3. /\ m.address = n.address /\ m.sends = n.sends /\ m.issued = n.issued /\ m.wrong = w
        /\ m.code = c /\ m.known = n.known
    <3> HIDE DEF n
    <3> QED
      BY <1>1 DEF Wrong, NoteSet
  <2>4. notes'[s] = m /\ \A t \in Sessions : t # s => notes'[t] = notes[t]
    BY <1>1, <2>2
  <2>5. After(r, v) = [v EXCEPT !.wrong = w, !.code = c]
    BY <1>7 DEF After, View
  <2> HIDE DEF m, w, c
  <2>6. View(notes[s])' = After(r, v)
    BY <2>3, <2>4, <2>5 DEF View
  <2> QED
    BY <1>1, <1>7, <2>2, <2>3, <2>4, <2>6 DEF PageOf
<1> QED
  BY <1>3, <1>4, <1>5, <1>6, <1>7 DEF Requests

(* What the twins do is what any sessions may do.                          *)
LEMMA TwinIsNext == ASSUME TwinsOK, [TwinNext]_twinVars PROVE [Next]_vars
<1>1. First \in Sessions /\ Second \in Sessions
  BY DEF TwinsOK
<1>2. ASSUME NEW s \in Sessions, NEW r, Ask(s, r) PROVE Next
  <2>1. Address[s] \in Addresses /\ GUESS \in Given(s)
    BY DEF TwinsOK, Given
  <2> QED
    BY <1>2, <2>1 DEF Ask, Next
<1>3. CASE FirstAsks \/ SecondAsks
  BY <1>1, <1>2, <1>3 DEF FirstAsks, SecondAsks
<1>4. CASE Between \/ TimePasses
  BY <1>4 DEF Between, TimePasses, Next
<1>5. CASE UNCHANGED twinVars
  BY <1>5 DEF twinVars
<1> QED
  BY <1>3, <1>4, <1>5 DEF TwinNext

(* A step of the twins keeps them alike.                                   *)
LEMMA TwinStep ==
  ASSUME TwinsOK, IInv, Unknown, Alike, [TwinNext]_twinVars
  PROVE  Unknown' /\ Alike'
<1>1. First \in Sessions /\ Second \in Sessions /\ First # Second /\ Sessions = {First, Second}
      /\ NONE \notin Requests
  BY DEF TwinsOK
<1>2. answer \in [Sessions -> Pages]
  BY Types DEF IInv
<1>3. CASE FirstAsks
  <2>1. PICK r \in Requests : Ask(First, r) /\ pending' = r /\ pending = NONE
    BY <1>3 DEF FirstAsks
  <2>2. /\ View(notes[First])' = After(r, View(notes[First])) /\ notes'[First].known = NONE
        /\ answer' = [answer EXCEPT ![First] = PageOf(r, View(notes[First]))] /\ now' = now
        /\ notes'[Second] = notes[Second]
    BY <1>1, <2>1, AskStep
  <2>3. After(r, View(notes[Second]))' = After(r, View(notes[Second]))
        /\ PageOf(r, View(notes[Second]))' = PageOf(r, View(notes[Second]))
    BY <2>2 DEF After, PageOf, GatePage, Gate, CodeIsLive, View
  <2>4. View(notes[First]) = View(notes[Second])
    BY <2>1 DEF Alike
  <2>5. answer'[First] = PageOf(r, View(notes[First]))
    BY <1>1, <1>2, <2>2
  <2>6. Alike'
    BY <1>1, <2>1, <2>2, <2>3, <2>4, <2>5 DEF Alike
  <2> QED
    BY <1>1, <2>2, <2>6 DEF Unknown
<1>4. CASE SecondAsks
  <2>1. pending # NONE /\ Ask(Second, pending) /\ pending' = NONE /\ pending \in Requests
        /\ View(notes[First]) = After(pending, View(notes[Second]))
        /\ answer[First] = PageOf(pending, View(notes[Second]))
    BY <1>4 DEF SecondAsks, Alike
  <2>2. /\ View(notes[Second])' = After(pending, View(notes[Second])) /\ notes'[Second].known = NONE
        /\ answer' = [answer EXCEPT ![Second] = PageOf(pending, View(notes[Second]))]
        /\ notes'[First] = notes[First]
    BY <1>1, <2>1, AskStep
  <2>3. answer'[First] = answer[First] /\ answer'[Second] = PageOf(pending, View(notes[Second]))
    BY <1>1, <1>2, <2>2
  <2>4. View(notes[First])' = View(notes[First])
    BY <2>2 DEF View
  <2>5. Alike'
    BY <2>1, <2>2, <2>3, <2>4 DEF Alike
  <2> QED
    BY <1>1, <2>2, <2>5 DEF Unknown
<1>5. CASE \/ UNCHANGED <<notes, answer, now, pending>>
           \/ UNCHANGED <<notes, answer, pending>> /\ pending = NONE
  <2>1. ASSUME pending = NONE PROVE Alike'
    <3>1. pending' = NONE /\ notes' = notes /\ answer' = answer
      BY <1>5, <2>1
    <3> QED
      BY <2>1, <3>1 DEF Alike, View
  <2>2. ASSUME pending # NONE PROVE Alike'
    <3>1. pending' = pending /\ notes' = notes /\ answer' = answer /\ now' = now
      BY <1>5, <2>2
    <3>2. After(pending, View(notes[Second]))' = After(pending, View(notes[Second]))
          /\ PageOf(pending, View(notes[Second]))' = PageOf(pending, View(notes[Second]))
      BY <3>1 DEF After, PageOf, GatePage, Gate, CodeIsLive, View
    <3>3. View(notes[First])' = View(notes[First])
      BY <3>1 DEF View
    <3> QED
      BY <2>2, <3>1, <3>2, <3>3 DEF Alike
  <2>3. Unknown'
    BY <1>5 DEF Unknown
  <2> QED
    BY <2>1, <2>2, <2>3
<1> QED
  BY <1>3, <1>4, <1>5 DEF TwinNext, Between, TimePasses, Deliver, Restart, Standing, Tick, twinVars, vars

(* The page is the same for every address: no sequence of requests tells   *)
(* one that finds an account from one that does not, whatever is mailed,   *)
(* lost, disabled or restarted between them (the authenticator's comment). *)
THEOREM AnswersTellNothing ==
  ASSUME TwinsOK
  PROVE  TwinSpec => []SameAnswers
<1> DEFINE Inv == IInv /\ Unknown /\ Alike
<1>1. TwinInit => Inv
  <2> SUFFICES ASSUME TwinInit PROVE Inv
    OBVIOUS
  <2>1. First \in Sessions /\ Second \in Sessions
    BY DEF TwinsOK
  <2>2. Unknown /\ Alike
    BY <2>1 DEF TwinInit, Init, NoNotes, Unknown, Alike, View
  <2>3. IInv
    BY InitIInv DEF TwinInit
  <2> QED
    BY <2>2, <2>3
<1>2. Inv /\ [TwinNext]_twinVars => Inv'
  BY TwinIsNext, TwinStep, NextIInv
<1>3. Inv => SameAnswers
  BY DEF Alike, SameAnswers
<1> QED
  BY <1>1, <1>2, <1>3, PTL DEF TwinSpec
-----------------------------------------------------------------------------
(* The sign-in flows.                                                      *)

Late == {"list", "move", "record", "usage", "delete", "ok"}
Served == {NOTHING, OWN, Current("broker")}

FlowTypes ==
    /\ flows \in [Aliases -> Contents]
    /\ browser \in Aliases \cup {OWN} /\ attr \in Aliases \cup {NOTHING}
    /\ provider \in [Providers -> Aliases \cup {NOTHING, UNBOUND, OWN}]
    /\ release \in Releases /\ clean \in BOOLEAN
    /\ run = [pc |-> run.pc, gen |-> run.gen, before |-> run.before, todo |-> run.todo,
              listed |-> run.listed]
    /\ run.gen \in 0..MaxGen
    /\ record # NOTHING => record.gen \in 0..MaxGen /\ DOMAIN record.flows \subseteq Aliases

(* Where the converge is: what it has bound, and what it has still to do.  *)
Phases ==
    /\ run.pc \in {"idle", "import", "attr"} \cup Late
    /\ run.pc = "import" => run.todo \subseteq Currents
    /\ run.pc \in {"import", "attr"} => run.before = attr
    /\ run.pc \in {"attr"} \cup Late => browser = Current("browser")
    /\ run.pc \in Late => attr = Current("broker")
    /\ run.pc = "move" => run.todo \subseteq Providers
    /\ run.pc = "delete" => run.todo \subseteq Aliases \ (Currents \cup Bound)

(* Where nobody edits, what the import is through with is built.           *)
Built == run.pc # "idle" /\ (clean \/ ~AnyTime) =>
    \A a \in Currents : flows[a] = "built" \/ (run.pc = "import" /\ a \in run.todo)

(* Where nobody edits, the providers that are through are served.          *)
Moved == run.pc \in {"move", "record", "usage", "delete", "ok"} /\ clean =>
    \A p \in Providers : \/ provider[p] \in Served
                         \/ run.pc = "move" /\ p \in run.todo /\ Moves(run.listed[p])

Noted == run.pc \in {"usage", "delete", "ok"} /\ (clean \/ ~AnyTime) =>
    record = [gen |-> run.gen, flows |-> [a \in Currents |-> "built"]]

RunInv == FlowTypes /\ Phases /\ Built /\ Moved /\ Noted

(* Where hands were: an edited flow, or the attribute's, removed.          *)
Changed(a) == flows[a] \in Edits \/ (a = attr /\ flows[a] = "absent")

Recorded == record # NOTHING =>
    \A a \in DOMAIN record.flows : record.flows[a] = "built" /\ a[3] = record.gen

HandsKnown == \A a \in Aliases : Changed(a) =>
    record # NOTHING /\ (a[3] < record.gen \/ a \in DOMAIN record.flows)

(* What a converge builds, no hand was at.                                 *)
RunFresh == run.pc # "idle" => \A a \in Aliases : Changed(a) => a[3] < run.gen

AttrWhole == attr \in Aliases => flows[attr] # "partial"

HandInv == Recorded /\ HandsKnown /\ RunFresh /\ AttrWhole /\ BoundComplete

(* The aliases of a release and a generation.                              *)
LEMMA AliasFacts ==
  ASSUME NEW b \in Bases, NEW r \in Releases, NEW g \in 0..MaxGen
  PROVE  /\ Alias(b, r, g) \in Aliases /\ Alias(b, r, g)[3] = g
         /\ Alias(b, r, g) # NOTHING /\ Alias(b, r, g) # UNBOUND /\ Alias(b, r, g) # OWN
<1>1. Steps[r][b] \in Versions
  BY SigninAssumption
<1>2. Alias(b, r, g) \in Aliases /\ Alias(b, r, g)[3] = g
  BY <1>1 DEF Alias, Aliases
<1> QED
  BY <1>2, SigninAssumption

(* What the converge builds: its aliases.                                  *)
LEMMA CurrentFacts ==
  ASSUME release \in Releases, run.gen \in 0..MaxGen
  PROVE  /\ Currents \subseteq Aliases /\ \A a \in Currents : a[3] = run.gen
         /\ \A b \in Bases : Current(b) \in Currents
         /\ Current("browser") \in Currents /\ Current("broker") \in Currents
         /\ Current("broker") # NOTHING /\ Current("broker") # UNBOUND /\ Current("broker") # OWN
<1>1. \A b \in Bases : Current(b) \in Aliases /\ Current(b)[3] = run.gen
  BY AliasFacts DEF Current
<1>2. "browser" \in Bases /\ "broker" \in Bases
  BY DEF Bases
<1>3. \A b \in Bases : Current(b) \in Currents
  BY DEF Currents
<1>4. Currents \subseteq Aliases /\ \A a \in Currents : a[3] = run.gen
  BY <1>1 DEF Currents
<1> QED
  BY <1>1, <1>2, <1>3, <1>4, SigninAssumption

(* They change with the release and the generation only.                   *)
LEMMA CurrentsSame ==
  ASSUME release' = release, run'.gen = run.gen
  PROVE  Currents' = Currents /\ \A b : Current(b)' = Current(b)
  BY DEF Currents, Current, Alias

(* A step that ends the converge, or leaves none.                          *)
LEMMA IdleRunInv ==
  ASSUME flows' \in [Aliases -> Contents], browser' \in Aliases \cup {OWN},
         attr' \in Aliases \cup {NOTHING},
         provider' \in [Providers -> Aliases \cup {NOTHING, UNBOUND, OWN}],
         release' \in Releases, clean' \in BOOLEAN, run' = Idle,
         record' # NOTHING => record'.gen \in 0..MaxGen /\ DOMAIN record'.flows \subseteq Aliases
  PROVE  RunInv'
<1>1. FlowTypes' /\ run'.pc = "idle"
  BY SigninAssumption DEF FlowTypes, Idle
<1> QED
  BY <1>1 DEF RunInv, Phases, Late, Built, Moved, Noted

(* The initial realm, and every step, keep the converge's part.            *)
LEMMA InitRunInv == FlowsInit => RunInv
<1> SUFFICES ASSUME FlowsInit PROVE RunInv
  OBVIOUS
<1>1. FlowTypes /\ run.pc = "idle"
  BY SigninAssumption DEF FlowsInit, FlowTypes, Idle, Contents
<1> QED
  BY <1>1 DEF RunInv, Phases, Late, Built, Moved, Noted

(* The converge begins.                                                    *)
LEMMA StartRunInv == ASSUME RunInv, Start PROVE RunInv'
<1> DEFINE g == FlowGeneration(record)
           todo == {Alias(b, release, g) : b \in Bases}
<1>1. /\ run' = [pc |-> "import", gen |-> g, before |-> attr, todo |-> todo, listed |-> << >>]
      /\ clean' = TRUE /\ UNCHANGED <<flows, browser, attr, provider, record, release>>
  BY DEF Start, realm
<1>2. g \in 0..MaxGen
  <2>1. g <= MaxGen /\ g \in Nat
    BY SigninAssumption DEF Start, FlowGeneration, RunInv, FlowTypes
  <2> QED
    BY <2>1, SigninAssumption
<1>3. Currents' = todo
  BY <1>1 DEF Currents, Current
<1> HIDE DEF g, todo
<1>4. run'.pc = "import" /\ run'.gen = g /\ run'.before = attr /\ run'.todo = todo
  BY <1>1
<1>5. FlowTypes'
  BY <1>1, <1>2 DEF RunInv, FlowTypes
<1>6. Phases'
  BY <1>1, <1>3, <1>4 DEF Phases, Late
<1> QED
  BY <1>3, <1>4, <1>5, <1>6 DEF RunInv, Built, Moved, Noted

(* One flow of the import.                                                 *)
LEMMA ImportRunInv ==
  ASSUME RunInv, NEW a \in Aliases, ImportFlow(a)
  PROVE  RunInv'
<1>1. /\ run.pc = "import" /\ a \in run.todo
      /\ UNCHANGED <<browser, attr, provider, record, release, clean>>
      /\ \/ flows[a] = "built" /\ UNCHANGED flows /\ run' = [run EXCEPT !.todo = @ \ {a}]
         \/ flows' = [flows EXCEPT ![a] = "partial"] /\ UNCHANGED run
         \/ flows' = [flows EXCEPT ![a] = "built"] /\ run' = [run EXCEPT !.todo = @ \ {a}]
  BY DEF ImportFlow
<1>2. FlowTypes'
  BY <1>1 DEF RunInv, FlowTypes, Contents, Whole
<1>3. /\ run'.pc = "import" /\ run'.gen = run.gen /\ run'.before = run.before
      /\ run'.todo = run.todo \/ (run'.todo = run.todo \ {a} /\ flows'[a] = "built")
      /\ \A b \in Aliases : b # a => flows'[b] = flows[b]
  BY <1>1 DEF RunInv, FlowTypes
<1>4. Currents' = Currents /\ Currents \subseteq Aliases
  BY <1>1, <1>3, CurrentsSame, CurrentFacts DEF RunInv, FlowTypes
<1>5. Phases'
  BY <1>1, <1>3, <1>4 DEF RunInv, Phases, Late
<1>6. Built'
  <2> SUFFICES ASSUME clean \/ ~AnyTime, NEW b \in Currents
               PROVE  flows'[b] = "built" \/ b \in run'.todo
    BY <1>1, <1>3, <1>4 DEF Built
  <2>1. flows[b] = "built" \/ b \in run.todo
    BY <1>1 DEF RunInv, Built
  <2> QED
    BY <1>1, <1>3, <1>4, <2>1
<1> QED
  BY <1>2, <1>3, <1>5, <1>6 DEF RunInv, Moved, Noted

(* The steps from the import's end to the listing of the providers.        *)
LEMMA BindRunInv ==
  ASSUME RunInv, BindBrowser \/ SetAttr \/ ListProviders
  PROVE  RunInv'
<1>1. Current("browser") \in Aliases /\ Current("broker") \in Aliases
      /\ Current("broker") # NOTHING /\ Current("broker") # UNBOUND /\ Current("broker") # OWN
  BY CurrentFacts DEF RunInv, FlowTypes
<1>2. CASE BindBrowser /\ run' = Idle
  <2>1. /\ UNCHANGED <<flows, attr, provider, record, release, clean>>
        /\ browser' \in {browser, Current("browser")}
    BY <1>2 DEF BindBrowser
  <2> QED
    BY <1>1, <1>2, <2>1, IdleRunInv DEF RunInv, FlowTypes
<1>3. CASE BindBrowser /\ run' = [run EXCEPT !.pc = "attr"] /\ browser' = Current("browser")
  <2>1. run.pc = "import" /\ run.todo = {} /\ UNCHANGED <<flows, attr, provider, record, release, clean>>
    BY <1>3 DEF BindBrowser
  <2>2. FlowTypes' /\ run'.pc = "attr" /\ run'.gen = run.gen /\ run'.before = run.before
    BY <1>1, <1>3, <2>1 DEF RunInv, FlowTypes
  <2>3. Currents' = Currents /\ Current("browser")' = Current("browser")
    BY <2>1, <2>2, CurrentsSame
  <2>4. Phases'
    BY <1>3, <2>1, <2>2, <2>3 DEF RunInv, Phases, Late
  <2>5. Built'
    BY <2>1, <2>2, <2>3 DEF RunInv, Built
  <2> QED
    BY <2>2, <2>4, <2>5 DEF RunInv, Moved, Noted
<1>4. CASE SetAttr
  <2>1. /\ run.pc = "attr" /\ UNCHANGED <<flows, browser, provider, record, release, clean>>
        /\ attr' = IF run.before = Current("broker") THEN attr ELSE Current("broker")
        /\ run' = [run EXCEPT !.pc = "list", !.before = NOTHING]
    BY <1>4 DEF SetAttr
  <2>2. attr' = Current("broker")
    BY <2>1 DEF RunInv, Phases
  <2>3. FlowTypes' /\ run'.pc = "list" /\ run'.gen = run.gen
    BY <1>1, <2>1, <2>2 DEF RunInv, FlowTypes
  <2>4. Currents' = Currents /\ Current("browser")' = Current("browser")
        /\ Current("broker")' = Current("broker")
    BY <2>1, <2>3, CurrentsSame
  <2>5. Phases'
    BY <2>1, <2>2, <2>3, <2>4 DEF RunInv, Phases, Late
  <2>6. Built'
    BY <2>1, <2>3, <2>4 DEF RunInv, Built
  <2> QED
    BY <2>3, <2>5, <2>6 DEF RunInv, Moved, Noted
<1>5. CASE ListProviders
  <2>1. /\ run.pc = "list" /\ UNCHANGED <<flows, browser, attr, provider, record, release, clean>>
        /\ run' = [run EXCEPT !.pc = "move", !.listed = provider, !.todo = Providers]
    BY <1>5 DEF ListProviders, realm
  <2>2. FlowTypes' /\ run'.pc = "move" /\ run'.gen = run.gen /\ run'.listed = provider
        /\ run'.todo = Providers
    BY <2>1 DEF RunInv, FlowTypes
  <2>3. Currents' = Currents /\ Current("browser")' = Current("browser")
        /\ Current("broker")' = Current("broker")
    BY <2>1, <2>2, CurrentsSame
  <2>4. Phases'
    BY <2>1, <2>2, <2>3 DEF RunInv, Phases, Late
  <2>5. Built'
    BY <2>1, <2>2, <2>3 DEF RunInv, Built
  <2>6. Moved'
    <3> SUFFICES ASSUME NEW p \in Providers PROVE provider[p] \in Served \/ Moves(provider[p])
      BY <2>1, <2>2, <2>3 DEF Moved, Served, Moves
    <3> QED
      BY DEF RunInv, FlowTypes, Served, Moves
  <2> QED
    BY <2>2, <2>4, <2>5, <2>6 DEF RunInv, Noted
<1> QED
  BY <1>2, <1>3, <1>4, <1>5 DEF BindBrowser, Goto, Fail

(* One provider of the listing.                                            *)
LEMMA MoveRunInv ==
  ASSUME RunInv, NEW p \in Providers, MoveProvider(p)
  PROVE  RunInv'
<1>1. run.pc = "move" /\ p \in run.todo /\ UNCHANGED <<flows, browser, attr, record, release, clean>>
  BY DEF MoveProvider
<1>2. CASE run' = Idle /\ UNCHANGED provider
  BY <1>1, <1>2, IdleRunInv DEF RunInv, FlowTypes
<1>3. CASE /\ run' = [run EXCEPT !.todo = @ \ {p}]
           /\ \/ ~Moves(run.listed[p]) /\ UNCHANGED provider
              \/ provider' = [provider EXCEPT ![p] = Current("broker")]
  <2>1. Current("broker") \in Aliases /\ Current("broker") # NOTHING /\ Current("broker") # UNBOUND
    BY CurrentFacts DEF RunInv, FlowTypes
  <2>2. /\ FlowTypes' /\ run'.pc = "move" /\ run'.gen = run.gen /\ run'.listed = run.listed
        /\ run'.todo = run.todo \ {p}
        /\ \A q \in Providers : q # p => provider'[q] = provider[q]
        /\ provider'[p] = Current("broker") \/ (~Moves(run.listed[p]) /\ provider'[p] = provider[p])
    BY <1>1, <1>3, <2>1 DEF RunInv, FlowTypes
  <2>3. Currents' = Currents /\ \A b : Current(b)' = Current(b)
    BY <1>1, <2>2, CurrentsSame
  <2>4. Phases'
    BY <1>1, <2>2, <2>3 DEF RunInv, Phases, Late
  <2>5. Built'
    BY <1>1, <2>2, <2>3 DEF RunInv, Built
  <2>6. Moved'
    <3>1. Served' = Served /\ \A f : Moves(f)' = Moves(f)
      BY <2>3 DEF Served, Moves
    <3> SUFFICES ASSUME clean, NEW q \in Providers
                 PROVE  provider'[q] \in Served \/ (q \in run'.todo /\ Moves(run.listed[q]))
      BY <1>1, <2>2, <3>1 DEF Moved
    <3>2. provider[q] \in Served \/ (q \in run.todo /\ Moves(run.listed[q]))
      BY <1>1 DEF RunInv, Moved
    <3> QED
      BY <2>2, <3>2 DEF Served
  <2> QED
    BY <2>2, <2>4, <2>5, <2>6 DEF RunInv, Noted
<1> QED
  BY <1>2, <1>3 DEF MoveProvider, Fail

(* The steps from there to the end.                                        *)
LEMMA RecordRunInv ==
  ASSUME RunInv, CheckProviders \/ Record \/ ReadUsage \/ Done
  PROVE  RunInv'
<1>1. Currents \subseteq Aliases /\ \A a \in Aliases : Exists(a) <=> flows[a] # "absent"
  BY CurrentFacts DEF RunInv, FlowTypes, Exists
<1>2. UNCHANGED <<flows, browser, attr, provider, release, clean>>
  BY DEF CheckProviders, Record, ReadUsage, Done, realm
<1>3. CASE CheckProviders /\ run' = Idle
  BY <1>2, <1>3, IdleRunInv DEF CheckProviders, RunInv, FlowTypes
<1>4. ASSUME NEW pc, NEW todo, NEW listed,
             \/ run.pc = "move" /\ pc = "record" /\ run.todo = {}
             \/ run.pc = "record" /\ pc = "usage"
             \/ run.pc = "usage" /\ pc = "delete" /\ todo = FlowStale
             \/ run.pc = "delete" /\ pc = "ok",
             run' = [pc |-> pc, gen |-> run.gen, before |-> run.before, todo |-> todo, listed |-> listed],
             record' # NOTHING => record'.gen \in 0..MaxGen /\ DOMAIN record'.flows \subseteq Aliases,
             run.pc # "record" => record' = record, Noted'
      PROVE  RunInv'
  <2>1. run'.pc = pc /\ run'.gen = run.gen /\ run'.todo = todo
    BY <1>4
  <2>2. FlowTypes'
    BY <1>2, <1>4 DEF RunInv, FlowTypes
  <2>3. Currents' = Currents /\ \A b : Current(b)' = Current(b)
    BY <1>2, <2>1, CurrentsSame
  <2>4. Bound' = Bound
    BY <1>2 DEF Bound
  <2>5. pc = "delete" => todo \subseteq Aliases \ (Currents \cup Bound)
    BY <1>4 DEF FlowStale
  <2>6. Phases'
    BY <1>2, <1>4, <2>1, <2>3, <2>4, <2>5 DEF RunInv, Phases, Late
  <2>7. Built'
    BY <1>2, <1>4, <2>1, <2>3 DEF RunInv, Built
  <2>8. Moved'
    <3>1. Served' = Served
      BY <2>3 DEF Served
    <3> QED
      BY <1>2, <1>4, <2>1, <3>1 DEF RunInv, Moved
  <2> QED
    BY <1>4, <2>2, <2>6, <2>7, <2>8 DEF RunInv
<1>5. CASE CheckProviders /\ run' = [run EXCEPT !.pc = "record", !.listed = << >>]
  <2>1. run.pc = "move" /\ run.todo = {} /\ record' = record
        /\ run' = [pc |-> "record", gen |-> run.gen, before |-> run.before, todo |-> run.todo, listed |-> << >>]
    BY <1>5 DEF CheckProviders, RunInv, FlowTypes
  <2>2. Noted' /\ (record' # NOTHING => record'.gen \in 0..MaxGen /\ DOMAIN record'.flows \subseteq Aliases)
    BY <2>1 DEF Noted, RunInv, FlowTypes
  <2> QED
    BY <1>4, <2>1, <2>2
<1>6. CASE Record
  <2> DEFINE new == [gen |-> run.gen, flows |-> [a \in Currents |-> flows[a]]]
  <2>1. run.pc = "record" /\ record' = (IF \A a \in Currents : Exists(a) THEN new ELSE record)
        /\ run' = [pc |-> "usage", gen |-> run.gen, before |-> run.before, todo |-> run.todo, listed |-> run.listed]
    BY <1>6 DEF Record, Goto, RunInv, FlowTypes
  <2>2. record' # NOTHING => record'.gen \in 0..MaxGen /\ DOMAIN record'.flows \subseteq Aliases
    BY <1>1, <2>1 DEF RunInv, FlowTypes
  <2>3. Noted'
    <3>1. Currents' = Currents /\ run'.gen = run.gen
      BY <1>2, <2>1, CurrentsSame
    <3> SUFFICES ASSUME clean \/ ~AnyTime
                 PROVE  record' = [gen |-> run.gen, flows |-> [a \in Currents |-> "built"]]
      BY <1>2, <3>1 DEF Noted
    <3>2. \A a \in Currents : flows[a] = "built"
      BY <2>1 DEF RunInv, Built
    <3>3. [a \in Currents |-> flows[a]] = [a \in Currents |-> "built"]
      BY <3>2
    <3>4. \A a \in Currents : Exists(a)
      BY <1>1, <3>2
    <3> QED
      BY <2>1, <3>3, <3>4
  <2> QED
    BY <1>4, <2>1, <2>2, <2>3
<1>7. CASE ReadUsage \/ Done
  <2>1. PICK pc, todo :
          /\ \/ run.pc = "usage" /\ pc = "delete" /\ todo = FlowStale
             \/ run.pc = "delete" /\ pc = "ok"
          /\ run' = [pc |-> pc, gen |-> run.gen, before |-> run.before, todo |-> todo, listed |-> run.listed]
          /\ record' = record
    BY <1>7 DEF ReadUsage, Done, Goto, RunInv, FlowTypes
  <2>2. Noted'
    <3>1. Currents' = Currents /\ run'.gen = run.gen /\ run'.pc = pc
      BY <1>2, <2>1, CurrentsSame
    <3> QED
      BY <1>2, <2>1, <3>1 DEF RunInv, Noted
  <2>3. record' # NOTHING => record'.gen \in 0..MaxGen /\ DOMAIN record'.flows \subseteq Aliases
    BY <2>1 DEF RunInv, FlowTypes
  <2> QED
    BY <1>4, <2>1, <2>2, <2>3
<1> QED
  BY <1>3, <1>5, <1>6, <1>7 DEF CheckProviders, Fail

(* A stale flow is deleted, or Keycloak refuses.                           *)
LEMMA DeleteRunInv ==
  ASSUME RunInv, NEW a \in Aliases, DeleteFlow(a)
  PROVE  RunInv'
<1>1. /\ run.pc = "delete" /\ a \in run.todo /\ run' = [run EXCEPT !.todo = @ \ {a}]
      /\ flows' = flows \/ flows' = [flows EXCEPT ![a] = "absent"]
      /\ UNCHANGED <<browser, attr, provider, record, release, clean>>
  BY DEF DeleteFlow
<1>2. /\ FlowTypes' /\ run'.pc = "delete" /\ run'.gen = run.gen /\ run'.todo = run.todo \ {a}
      /\ \A b \in Aliases : b # a => flows'[b] = flows[b]
  BY <1>1 DEF RunInv, FlowTypes, Contents
<1>3. Currents' = Currents /\ \A b : Current(b)' = Current(b)
  BY <1>1, <1>2, CurrentsSame
<1>4. Bound' = Bound /\ a \notin Currents /\ Currents \subseteq Aliases
  BY <1>1, CurrentFacts DEF Bound, RunInv, FlowTypes, Phases
<1>5. Phases'
  BY <1>1, <1>2, <1>3, <1>4 DEF RunInv, Phases, Late
<1>6. Built'
  BY <1>1, <1>2, <1>3, <1>4 DEF RunInv, Built
<1>7. Moved' /\ Noted'
  BY <1>1, <1>2, <1>3 DEF RunInv, Moved, Noted, Served
<1> QED
  BY <1>2, <1>5, <1>6, <1>7 DEF RunInv

(* A provider is saved, deleted or swept: bound to no flow, to someone's   *)
(* own, to none or to the attribute's.                                     *)
LEMMA ProviderRunInv ==
  ASSUME RunInv, UNCHANGED <<flows, browser, attr, record, release, run>>,
         clean' \in BOOLEAN, clean' => clean \/ run.pc = "idle",
         provider' \in [Providers -> Aliases \cup {NOTHING, UNBOUND, OWN}],
         \A p \in Providers : \/ provider'[p] \in {provider[p], NOTHING, OWN, attr}
                              \/ provider'[p] = UNBOUND /\ (clean' => run.pc = "idle")
  PROVE  RunInv'
<1>1. FlowTypes' /\ run' = run
  BY DEF RunInv, FlowTypes
<1>2. Currents' = Currents /\ \A b : Current(b)' = Current(b)
  BY <1>1, CurrentsSame
<1>3. Served' = Served /\ \A f : Moves(f)' = Moves(f)
  BY <1>2 DEF Served, Moves
<1>4. run.pc = "delete" => run.todo \subseteq Aliases \ (Currents \cup Bound')
  <2> SUFFICES ASSUME run.pc = "delete", NEW a \in run.todo PROVE a \notin Bound'
    BY DEF RunInv, Phases
  <2>1. a \in Aliases /\ a \notin Currents /\ a \notin Bound /\ attr = Current("broker")
    BY DEF RunInv, Phases, Late
  <2>2. a # browser /\ a # attr /\ (\A p \in Providers : a # provider[p]) /\ a \notin {NOTHING, UNBOUND, OWN}
    BY <2>1, CurrentFacts, SigninAssumption DEF Bound, RunInv, FlowTypes
  <2> QED
    BY <2>2 DEF Bound
<1>5. Phases'
  BY <1>1, <1>2, <1>4 DEF RunInv, Phases, Late
<1>6. Built' /\ Noted'
  BY <1>1, <1>2 DEF RunInv, Built, Noted
<1>7. Moved'
  <2> SUFFICES ASSUME run.pc \in {"move", "record", "usage", "delete", "ok"}, clean', NEW p \in Providers
               PROVE  \/ provider'[p] \in Served
                      \/ run.pc = "move" /\ p \in run.todo /\ Moves(run.listed[p])
    BY <1>1, <1>3 DEF Moved
  <2>1. clean /\ attr \in Served
    BY DEF RunInv, Phases, Late, Served
  <2>2. \/ provider[p] \in Served
        \/ run.pc = "move" /\ p \in run.todo /\ Moves(run.listed[p])
    BY <2>1 DEF RunInv, Moved
  <2> QED
    BY <2>1, <2>2 DEF Served
<1> QED
  BY <1>1, <1>5, <1>6, <1>7 DEF RunInv

(* A flow is edited or removed by hand.                                    *)
LEMMA HandRunInv ==
  ASSUME RunInv, NEW a \in Aliases, NEW c \in Whole \cup {"absent"},
         AnyTime \/ run.pc = "idle", flows' = [flows EXCEPT ![a] = c], ByHand,
         UNCHANGED <<browser, attr, provider, record, release, run>>
  PROVE  RunInv'
<1>1. FlowTypes' /\ clean' = (run.pc = "idle")
  BY DEF RunInv, FlowTypes, ByHand, Contents
<1>2. Currents' = Currents /\ \A b : Current(b)' = Current(b)
  BY CurrentsSame
<1>3. Bound' = Bound
  BY DEF Bound
<1>4. Phases'
  BY <1>1, <1>2, <1>3 DEF RunInv, Phases, Late
<1>5. Built' /\ Moved' /\ Noted'
  BY <1>1 DEF Built, Moved, Noted
<1> QED
  BY <1>1, <1>4, <1>5 DEF RunInv

(* What the listener binds is no flow, someone's own, or the attribute's.  *)
LEMMA BindFacts ==
  ASSUME NEW f \in {UNBOUND, OWN}
  PROVE  Bind(f) = f \/ (Bind(f) = attr /\ Exists(attr))
  BY DEF Bind, FlowOf

(* What people and the listener do keeps the converge's part.              *)
LEMMA PeopleRunInv == ASSUME RunInv, People \/ Sweep PROVE RunInv'
<1>1. provider \in [Providers -> Aliases \cup {NOTHING, UNBOUND, OWN}] /\ clean \in BOOLEAN
  BY DEF RunInv, FlowTypes
<1>2. ASSUME NEW p \in Providers, DeleteProvider(p) PROVE RunInv'
  <2>1. provider' = [provider EXCEPT ![p] = NOTHING]
        /\ UNCHANGED <<flows, browser, attr, record, release, run, clean>>
    BY <1>2 DEF DeleteProvider
  <2>2. /\ provider' \in [Providers -> Aliases \cup {NOTHING, UNBOUND, OWN}]
        /\ \A q \in Providers : provider'[q] \in {provider[q], NOTHING}
    BY <1>1, <2>1
  <2> QED
    BY <1>1, <2>1, <2>2, ProviderRunInv
<1>3. ASSUME NEW p \in Providers, NEW f \in {UNBOUND, OWN}, SaveProvider(p, f) PROVE RunInv'
  <2>1. PICK g : /\ g = f \/ (g = attr /\ Exists(attr))
                 /\ provider' = [provider EXCEPT ![p] = g]
    BY <1>3, BindFacts DEF SaveProvider
  <2>2. /\ UNCHANGED <<flows, browser, attr, record, release, run>>
        /\ IF provider'[p] \in {OWN, attr} THEN clean' = clean ELSE clean' = (run.pc = "idle")
    BY <1>3 DEF SaveProvider, ByHand
  <2>3. /\ provider' \in [Providers -> Aliases \cup {NOTHING, UNBOUND, OWN}] /\ provider'[p] = g
        /\ \A q \in Providers : q # p => provider'[q] = provider[q]
    BY <1>1, <2>1 DEF Exists
  <2>4. clean' \in BOOLEAN /\ (clean' => clean \/ run.pc = "idle")
    BY <1>1, <2>2
  <2>5. ASSUME NEW q \in Providers, provider'[q] \notin {provider[q], NOTHING, OWN, attr}
        PROVE  provider'[q] = UNBOUND /\ (clean' => run.pc = "idle")
    BY <2>1, <2>2, <2>3, <2>5
  <2> QED
    BY <2>2, <2>3, <2>4, <2>5, ProviderRunInv
<1>4. CASE Sweep
  <2>1. provider' = [p \in Providers |-> Bind(provider[p])]
        /\ UNCHANGED <<flows, browser, attr, record, release, run, clean>>
    BY <1>4 DEF Sweep
  <2>2. \A p \in Providers : Bind(provider[p]) = provider[p] \/ (Bind(provider[p]) = attr /\ attr \in Aliases)
    BY DEF Bind, FlowOf, Exists
  <2>3. /\ provider' \in [Providers -> Aliases \cup {NOTHING, UNBOUND, OWN}]
        /\ \A q \in Providers : provider'[q] \in {provider[q], attr}
    BY <1>1, <2>1, <2>2
  <2> QED
    BY <1>1, <2>1, <2>3, ProviderRunInv
<1>5. ASSUME NEW a \in Aliases, RemoveFlow(a) PROVE RunInv'
  BY <1>5, HandRunInv DEF RemoveFlow, MayEdit
<1>6. ASSUME NEW a \in Aliases, NEW c \in Whole, EditFlow(a, c) PROVE RunInv'
  BY <1>6, HandRunInv DEF EditFlow, MayEdit
<1> QED
  BY <1>2, <1>3, <1>4, <1>5, <1>6 DEF People

(* Every step keeps the converge's part.                                   *)
LEMMA NextRunInv == ASSUME RunInv, [FlowsNext]_flowsVars PROVE RunInv'
<1>1. CASE Stop \/ Leave
  BY <1>1, IdleRunInv DEF Stop, Leave, Fail, realm, RunInv, FlowTypes
<1>2. ASSUME NEW r \in Releases, Upgrade(r) PROVE RunInv'
  <2>1. run.pc = "idle" /\ release' = r /\ UNCHANGED <<flows, browser, attr, provider, record, run, clean>>
    BY <1>2 DEF Upgrade, realm
  <2>2. FlowTypes' /\ run'.pc = "idle"
    BY <2>1 DEF RunInv, FlowTypes
  <2> QED
    BY <2>2 DEF RunInv, Phases, Late, Built, Moved, Noted
<1>3. CASE UNCHANGED flowsVars
  <2>1. UNCHANGED <<flows, browser, attr, provider, record, release, run, clean>>
    BY <1>3 DEF flowsVars
  <2>2. Currents' = Currents /\ (\A b : Current(b)' = Current(b)) /\ Bound' = Bound
    BY <2>1, CurrentsSame DEF Bound
  <2>3. FlowTypes' /\ Phases'
    BY <2>1, <2>2 DEF RunInv, FlowTypes, Phases
  <2>4. Built' /\ Moved' /\ Noted'
    BY <2>1, <2>2 DEF RunInv, Built, Moved, Served, Moves, Noted
  <2> QED
    BY <2>3, <2>4 DEF RunInv
<1> QED
  BY <1>1, <1>2, <1>3, StartRunInv, ImportRunInv, BindRunInv, MoveRunInv, RecordRunInv, DeleteRunInv,
     PeopleRunInv DEF FlowsNext, Converge

(* A converge that ends well, nothing done by hand while it ran, leaves    *)
(* the realm and every provider on this release's flows, as built, and     *)
(* recorded, whatever was edited, at whatever time, or cut short before.   *)
THEOREM OkIsCurrent == FlowsSpec => []OkMeansCurrent
<1>1. RunInv => OkMeansCurrent
  BY DEF RunInv, OkMeansCurrent, Phases, Late, Built, Moved, Noted, Served
<1>2. RunInv /\ [FlowsNext]_flowsVars => RunInv'
  BY NextRunInv
<1>3. FlowsInit => RunInv
  BY InitRunInv
<1> QED
  BY <1>1, <1>2, <1>3, PTL DEF FlowsSpec

-----------------------------------------------------------------------------
(* Whose aliases are numbers apart.                                        *)
LEMMA GenFacts ==
  ASSUME NEW a \in Aliases
  PROVE  a[3] \in 0..MaxGen /\ a[3] \in Nat
  BY SigninAssumption DEF Aliases

(* Contents that are no edit.                                              *)
LEMMA PlainContents ==
  /\ "built" \notin Edits /\ "absent" \notin Edits /\ "partial" \notin Edits
         /\ "built" \in Whole /\ "absent" \notin Whole /\ "partial" \notin Whole
         /\ \A c \in Contents : c \in Whole \/ c = "absent" \/ c = "partial"
  BY SigninAssumption DEF Whole, Contents

(* The first converge finds no hand anywhere.                              *)
LEMMA InitHandInv == FlowsInit => HandInv
<1> SUFFICES ASSUME FlowsInit PROVE HandInv
  OBVIOUS
<1>1. run.pc = "idle" /\ record = NOTHING /\ attr = NOTHING /\ NOTHING \notin Aliases
  BY SigninAssumption DEF FlowsInit, Idle
<1>2. \A a \in Aliases : flows[a] = "absent"
  BY DEF FlowsInit
<1>3. HandsKnown
  BY <1>1, <1>2, PlainContents DEF HandsKnown, Changed
<1>4. BoundComplete
  BY SigninAssumption DEF FlowsInit, Bound, BoundComplete
<1> QED
  BY <1>1, <1>3, <1>4 DEF HandInv, Recorded, RunFresh, AttrWhole

(* A step that leaves the flows, the attribute and the record.             *)
LEMMA QuietHandInv ==
  ASSUME HandInv, UNCHANGED <<flows, attr, record>>,
         run'.pc = "idle" \/ (run.pc # "idle" /\ run'.gen = run.gen), BoundComplete'
  PROVE  HandInv'
  BY DEF HandInv, Recorded, HandsKnown, Changed, RunFresh, AttrWhole

(* No hand was at what the converge builds.                                *)
LEMMA StartHandInv ==
  ASSUME RunInv, HandInv, Start
  PROVE  HandInv'
<1>1. /\ run'.gen = FlowGeneration(record) /\ run'.pc = "import"
      /\ UNCHANGED <<flows, browser, attr, provider, record, release>>
  BY DEF Start, realm
<1>2. RunFresh'
  <2> SUFFICES ASSUME NEW a \in Aliases, Changed(a) PROVE a[3] < FlowGeneration(record)
    BY <1>1 DEF RunFresh, Changed
  <2>1. record # NOTHING /\ (a[3] < record.gen \/ a \in DOMAIN record.flows) /\ record.gen \in Nat
    BY SigninAssumption DEF HandInv, HandsKnown, RunInv, FlowTypes
  <2>2. CASE a \in DOMAIN record.flows
    <3>1. record.flows[a] = "built" /\ a[3] = record.gen /\ flows[a] # "built"
      BY <2>1, <2>2, PlainContents DEF HandInv, Recorded, Changed
    <3> QED
      BY <2>1, <2>2, <3>1 DEF FlowGeneration
  <2>3. CASE a[3] < record.gen
    BY <2>1, <2>3, GenFacts DEF FlowGeneration
  <2> QED
    BY <2>1, <2>2, <2>3
<1>3. BoundComplete'
  BY <1>1 DEF HandInv, BoundComplete, Bound
<1> QED
  BY <1>1, <1>2, <1>3 DEF HandInv, Recorded, HandsKnown, Changed, AttrWhole

(* The import empties no flow that is bound, and none a hand was at.       *)
LEMMA Empties ==
  ASSUME RunInv, HandInv, NEW a \in Aliases, ImportFlow(a),
         flows[a] # "built", flows[a] # "partial"
  PROVE  flows[a] = "absent" /\ a \notin Bound /\ a # attr
<1>1. a[3] = run.gen /\ run.gen \in Nat /\ run.pc = "import"
  BY CurrentFacts, SigninAssumption DEF ImportFlow, RunInv, Phases, FlowTypes
<1>2. ~Changed(a)
  BY <1>1 DEF HandInv, RunFresh
<1>3. flows[a] \in Contents
  BY DEF RunInv, FlowTypes
<1>4. flows[a] = "absent" /\ a # attr
  BY <1>2, <1>3 DEF Changed, Contents, Whole
<1> QED
  BY <1>4, PlainContents DEF HandInv, BoundComplete

(* One flow of the import keeps the hands' part.                           *)
LEMMA ImportHandInv ==
  ASSUME RunInv, HandInv, NEW a \in Aliases, ImportFlow(a)
  PROVE  HandInv'
<1>1. /\ UNCHANGED <<browser, attr, provider, record, release, clean>>
      /\ run.pc = "import" /\ run'.pc = "import" /\ run'.gen = run.gen
  BY DEF ImportFlow, RunInv, FlowTypes
<1>2. PICK c \in {"built", "partial"} :
        /\ flows' = [flows EXCEPT ![a] = c]
        /\ c = "partial" => a \notin Bound /\ a # attr
  <2>1. flows \in [Aliases -> Contents]
    BY DEF RunInv, FlowTypes
  <2>2. CASE flows[a] = "built" /\ UNCHANGED flows
    BY <2>1, <2>2
  <2>3. CASE flows' = [flows EXCEPT ![a] = "built"]
    BY <2>3
  <2>4. CASE flows' = [flows EXCEPT ![a] = "partial"] /\ flows[a] \notin {"built", "partial"}
    BY <2>4, Empties
  <2> QED
    BY <2>2, <2>3, <2>4 DEF ImportFlow
<1>3. /\ flows'[a] = c /\ \A b \in Aliases : b # a => flows'[b] = flows[b]
  BY <1>2 DEF RunInv, FlowTypes
<1>4. ~Changed(a)' /\ \A b \in Aliases : b # a => (Changed(b)' <=> Changed(b))
  BY <1>1, <1>2, <1>3, PlainContents DEF Changed
<1>5. HandsKnown' /\ RunFresh'
  BY <1>1, <1>4 DEF HandInv, HandsKnown, RunFresh
<1>6. AttrWhole'
  BY <1>1, <1>2, <1>3 DEF HandInv, AttrWhole
<1>7. BoundComplete'
  <2>1. Bound' = Bound
    BY <1>1 DEF Bound
  <2> QED
    BY <1>2, <1>3, <2>1, PlainContents DEF HandInv, BoundComplete
<1> QED
  BY <1>1, <1>5, <1>6, <1>7 DEF HandInv, Recorded

(* The steps that bind: to what is built.                                  *)
LEMMA BindHandInv ==
  ASSUME ~AnyTime, RunInv, HandInv,
         BindBrowser \/ SetAttr \/ \E p \in Providers : MoveProvider(p)
  PROVE  HandInv'
<1>1. /\ Current("browser") \in Currents /\ Current("broker") \in Currents /\ Currents \subseteq Aliases
  BY CurrentFacts DEF RunInv, FlowTypes
<1>2. UNCHANGED <<flows, record, release>> /\ run.pc # "idle"
  BY DEF BindBrowser, SetAttr, MoveProvider
<1>3. \A a \in Currents : (run.pc = "import" => run.todo = {}) => flows[a] = "built"
  BY <1>2 DEF RunInv, Built
<1>4. CASE BindBrowser
  <2>1. /\ UNCHANGED <<attr, provider>> /\ run.todo = {} /\ browser' \in {browser, Current("browser")}
        /\ run'.pc = "idle" \/ run'.gen = run.gen
    BY <1>4 DEF BindBrowser, Fail, Idle, Goto, RunInv, FlowTypes
  <2>2. flows[Current("browser")] \in Whole
    BY <1>1, <1>3, <2>1, PlainContents
  <2>3. BoundComplete'
    BY <1>2, <2>1, <2>2 DEF HandInv, BoundComplete, Bound
  <2> QED
    BY <1>2, <2>1, <2>3, QuietHandInv
<1>5. CASE SetAttr
  <2>1. /\ UNCHANGED <<browser, provider>> /\ run.pc = "attr" /\ run'.pc = "list" /\ run'.gen = run.gen
        /\ attr' \in {attr, Current("broker")}
    BY <1>5 DEF SetAttr, RunInv, FlowTypes
  <2>2. flows[Current("broker")] = "built"
    BY <1>1, <1>3, <2>1
  <2>3. \A a \in Aliases : Changed(a)' => Changed(a)
    BY <1>2, <2>1, <2>2 DEF Changed
  <2>4. HandsKnown' /\ RunFresh'
    BY <1>2, <2>1, <2>3 DEF HandInv, HandsKnown, RunFresh
  <2>5. AttrWhole'
    BY <1>2, <2>1, <2>2 DEF HandInv, AttrWhole
  <2>6. BoundComplete'
    BY <1>2, <2>1 DEF HandInv, BoundComplete, Bound
  <2> QED
    BY <1>2, <2>4, <2>5, <2>6 DEF HandInv, Recorded
<1>6. ASSUME NEW p \in Providers, MoveProvider(p) PROVE HandInv'
  <2>1. /\ UNCHANGED <<attr, browser>> /\ run.pc = "move" /\ (run'.pc = "idle" \/ run'.gen = run.gen)
        /\ provider' = provider \/ provider' = [provider EXCEPT ![p] = Current("broker")]
    BY <1>6 DEF MoveProvider, Fail, Idle, RunInv, FlowTypes
  <2>2. flows[Current("broker")] \in Whole
    BY <1>1, <1>3, <2>1, PlainContents
  <2>3. \A q \in Providers : provider'[q] \in {provider[q], Current("broker")}
    BY <2>1 DEF RunInv, FlowTypes
  <2>4. BoundComplete'
    BY <1>2, <2>1, <2>2, <2>3 DEF HandInv, BoundComplete, Bound
  <2> QED
    BY <1>2, <2>1, <2>4, QuietHandInv
<1> QED
  BY <1>4, <1>5, <1>6

(* What is recorded is what was built, and every hand was before it.       *)
LEMMA RecordHandInv ==
  ASSUME ~AnyTime, RunInv, HandInv, Record
  PROVE  HandInv'
<1>1. run.pc = "record" /\ run'.pc = "usage" /\ run'.gen = run.gen
      /\ UNCHANGED <<flows, browser, attr, provider, release>>
  BY DEF Record, Goto, realm, RunInv, FlowTypes
<1>2. Currents' = Currents /\ Currents \subseteq Aliases /\ \A a \in Currents : a[3] = run.gen
  BY <1>1, CurrentsSame, CurrentFacts DEF RunInv, FlowTypes
<1>3. record' = [gen |-> run.gen, flows |-> [a \in Currents |-> "built"]]
  <2>1. Noted'
    BY RecordRunInv DEF RunInv
  <2> QED
    BY <1>1, <1>2, <2>1 DEF Noted
<1>4. record' # NOTHING
  <2>1. [a \in Currents |-> "built"] \in [Currents -> Contents]
    BY DEF Contents, Whole
  <2>2. [a \in Currents |-> "built"] \in UNION {[as -> Contents] : as \in SUBSET Aliases}
    BY <1>2, <2>1
  <2>3. run.gen \in 0..MaxGen
    BY DEF RunInv, FlowTypes
  <2> QED
    BY <1>3, <2>2, <2>3, SigninAssumption
<1>5. record'.gen = run.gen /\ record'.flows = [a \in Currents |-> "built"]
  BY <1>3
<1>6. Recorded'
  BY <1>2, <1>5 DEF Recorded
<1>7. RunFresh /\ \A a \in Aliases : Changed(a)' <=> Changed(a)
  BY <1>1 DEF HandInv, Changed
<1>8. HandsKnown' /\ RunFresh'
  BY <1>1, <1>4, <1>5, <1>7 DEF HandsKnown, RunFresh
<1>9. AttrWhole' /\ BoundComplete'
  BY <1>1 DEF HandInv, AttrWhole, BoundComplete, Bound
<1> QED
  BY <1>6, <1>8, <1>9 DEF HandInv

(* What is deleted is no flow of this converge's, and nothing names it.    *)
LEMMA DeleteHandInv ==
  ASSUME RunInv, HandInv, NEW a \in Aliases, DeleteFlow(a)
  PROVE  HandInv'
<1>1. /\ run.pc = "delete" /\ a \in run.todo /\ run'.pc = "delete" /\ run'.gen = run.gen
      /\ UNCHANGED <<browser, attr, provider, record>>
      /\ flows' \in {flows, [flows EXCEPT ![a] = "absent"]}
  BY DEF DeleteFlow, RunInv, FlowTypes
<1>2. a \notin Bound /\ a # attr
  BY <1>1, CurrentFacts DEF RunInv, FlowTypes, Phases, Late
<1>3. /\ \A b \in Aliases : b # a => flows'[b] = flows[b]
      /\ flows'[a] \in {flows[a], "absent"}
  BY <1>1 DEF RunInv, FlowTypes
<1>4. \A b \in Aliases : Changed(b)' => Changed(b)
  BY <1>1, <1>2, <1>3, PlainContents DEF Changed
<1>5. HandsKnown' /\ RunFresh'
  BY <1>1, <1>4 DEF HandInv, HandsKnown, RunFresh
<1>6. AttrWhole'
  BY <1>1, <1>2, <1>3 DEF HandInv, AttrWhole
<1>7. BoundComplete'
  <2>1. Bound' = Bound
    BY <1>1 DEF Bound
  <2> QED
    BY <1>2, <1>3, <2>1 DEF HandInv, BoundComplete
<1> QED
  BY <1>1, <1>5, <1>6, <1>7 DEF HandInv, Recorded

(* The listener binds a provider to a flow that is there, and whole.       *)
LEMMA ProviderHandInv ==
  ASSUME RunInv, HandInv, UNCHANGED <<flows, browser, attr, record, run>>,
         \A p \in Providers : \/ provider'[p] \in {provider[p], NOTHING, UNBOUND, OWN}
                              \/ provider'[p] = attr /\ Exists(attr)
  PROVE  HandInv'
<1>1. Exists(attr) => attr \in Aliases /\ flows[attr] \in Whole
  BY PlainContents DEF Exists, HandInv, AttrWhole, RunInv, FlowTypes
<1>2. \A a \in Aliases : a \notin {NOTHING, UNBOUND, OWN}
  BY SigninAssumption
<1>3. ASSUME NEW a \in Bound' \cap Aliases PROVE flows[a] \in Whole
  <2>1. a \in Bound \/ (a = attr /\ Exists(attr))
    BY <1>2, <1>3 DEF Bound
  <2> QED
    BY <1>1, <2>1 DEF HandInv, BoundComplete
<1>4. BoundComplete'
  BY <1>3 DEF BoundComplete
<1> QED
  BY <1>4, QuietHandInv

(* A hand is at a recorded flow, and no converge runs.                     *)
LEMMA EditHandInv ==
  ASSUME ~AnyTime, RunInv, HandInv, NEW a \in Aliases, MayEdit(a),
         NEW c \in Whole \cup {"absent"}, c = "absent" => a \notin Bound,
         flows' = [flows EXCEPT ![a] = c], UNCHANGED <<browser, attr, provider, record, run>>
  PROVE  HandInv'
<1>1. run.pc = "idle" /\ record # NOTHING /\ a \in DOMAIN record.flows
  BY DEF MayEdit
<1>2. flows'[a] = c /\ \A b \in Aliases : b # a => flows'[b] = flows[b]
  BY DEF RunInv, FlowTypes
<1>3. HandsKnown' /\ RunFresh'
  BY <1>1, <1>2 DEF HandInv, HandsKnown, RunFresh, Changed
<1>4. AttrWhole'
  BY <1>2, PlainContents DEF HandInv, AttrWhole
<1>5. BoundComplete'
  <2>1. Bound' = Bound
    BY DEF Bound
  <2> QED
    BY <1>2, <2>1 DEF HandInv, BoundComplete
<1> QED
  BY <1>3, <1>4, <1>5 DEF HandInv, Recorded

(* Every step keeps the hands' part.                                       *)
LEMMA NextHandInv ==
  ASSUME ~AnyTime, RunInv, HandInv, [FlowsNext]_flowsVars
  PROVE  HandInv'
<1>1. CASE \/ ListProviders \/ CheckProviders \/ ReadUsage \/ Done \/ Leave \/ Stop
           \/ (\E r \in Releases : Upgrade(r)) \/ UNCHANGED flowsVars
  <2>1. /\ UNCHANGED <<flows, browser, attr, provider, record>>
        /\ run'.pc = "idle" \/ (run.pc # "idle" /\ run'.gen = run.gen)
    <3>1. CASE ListProviders
      BY <3>1 DEF ListProviders, realm, RunInv, FlowTypes
    <3>2. CASE CheckProviders
      <4>1. run.pc = "move" /\ UNCHANGED <<flows, browser, attr, provider, record>>
            /\ (run' = Idle \/ run' = [run EXCEPT !.pc = "record", !.listed = << >>])
        BY <3>2 DEF CheckProviders, Fail, realm
      <4>2. CASE run' = Idle
        BY <4>1, <4>2 DEF Idle
      <4>3. CASE run' = [run EXCEPT !.pc = "record", !.listed = << >>]
        BY <4>1, <4>3 DEF RunInv, FlowTypes
      <4> QED
        BY <4>1, <4>2, <4>3
    <3>3. CASE ReadUsage \/ Done
      BY <3>3 DEF ReadUsage, Done, Goto, realm, RunInv, FlowTypes
    <3>4. CASE Leave \/ Stop \/ (\E r \in Releases : Upgrade(r)) \/ UNCHANGED flowsVars
      BY <3>4 DEF Leave, Stop, Fail, Idle, Upgrade, realm, flowsVars
    <3> QED
      BY <1>1, <3>1, <3>2, <3>3, <3>4
  <2>2. BoundComplete'
    BY <2>1 DEF HandInv, BoundComplete, Bound
  <2> QED
    BY <2>1, <2>2, QuietHandInv
<1>2. ASSUME NEW p \in Providers, DeleteProvider(p) PROVE HandInv'
  <2>1. \A q \in Providers : provider'[q] \in {provider[q], NOTHING}
    BY <1>2 DEF DeleteProvider, RunInv, FlowTypes
  <2> QED
    BY <1>2, <2>1, ProviderHandInv DEF DeleteProvider
<1>3. ASSUME NEW p \in Providers, NEW f \in {UNBOUND, OWN}, SaveProvider(p, f) PROVE HandInv'
  <2>1. PICK g : /\ g = f \/ (g = attr /\ Exists(attr))
                 /\ provider' = [provider EXCEPT ![p] = g]
    BY <1>3, BindFacts DEF SaveProvider
  <2>2. provider'[p] = g /\ \A q \in Providers : q # p => provider'[q] = provider[q]
    BY <2>1 DEF RunInv, FlowTypes
  <2>3. UNCHANGED <<flows, browser, attr, record, run>>
    BY <1>3 DEF SaveProvider
  <2>4. \A q \in Providers : \/ provider'[q] \in {provider[q], NOTHING, UNBOUND, OWN}
                             \/ provider'[q] = attr /\ Exists(attr)
    BY <2>1, <2>2
  <2> QED
    BY <2>3, <2>4, ProviderHandInv
<1>4. CASE Sweep
  <2>1. provider' = [p \in Providers |-> Bind(provider[p])]
        /\ UNCHANGED <<flows, browser, attr, record, run>>
    BY <1>4 DEF Sweep
  <2>2. \A p \in Providers : Bind(provider[p]) = provider[p] \/ (Bind(provider[p]) = attr /\ Exists(attr))
    BY DEF Bind, FlowOf
  <2> QED
    BY <2>1, <2>2, ProviderHandInv
<1>5. ASSUME NEW a \in Aliases, RemoveFlow(a) PROVE HandInv'
  BY <1>5, EditHandInv DEF RemoveFlow
<1>6. ASSUME NEW a \in Aliases, NEW c \in Whole, EditFlow(a, c) PROVE HandInv'
  BY <1>6, EditHandInv, PlainContents DEF EditFlow
<1> QED
  BY <1>1, <1>2, <1>3, <1>4, <1>5, <1>6, StartHandInv, ImportHandInv, BindHandInv, RecordHandInv, DeleteHandInv
     DEF FlowsNext, Converge, People

(* "A converge that stops half way leaves the realm on the previous        *)
(* complete version": where people edit recorded flows between converges,  *)
(* what the realm and the providers are bound to is there, and whole.      *)
THEOREM BoundIsComplete == ASSUME AnyTime = FALSE PROVE FlowsSpec => []BoundComplete
<1>1. FlowsInit => RunInv /\ HandInv
  BY InitRunInv, InitHandInv
<1>2. RunInv /\ HandInv /\ [FlowsNext]_flowsVars => (RunInv /\ HandInv)'
  BY NextRunInv, NextHandInv
<1>3. HandInv => BoundComplete
  BY DEF HandInv
<1> QED
  BY <1>1, <1>2, <1>3, PTL DEF FlowsSpec

(* A hand edit of a recorded flow is never written over by a converge:     *)
(* the import empties only what no hand was at, under the next generation. *)
THEOREM EditsAreKept == ASSUME AnyTime = FALSE PROVE FlowsSpec => EditsStand
<1>1. FlowsInit => RunInv /\ HandInv
  BY InitRunInv, InitHandInv
<1>2. RunInv /\ HandInv /\ [FlowsNext]_flowsVars => (RunInv /\ HandInv)'
  BY NextRunInv, NextHandInv
<1>3. ASSUME RunInv, HandInv, [FlowsNext]_flowsVars, NEW a \in Aliases, flows[a] \in Edits, flows'[a] # flows[a]
      PROVE  flows'[a] \in Whole \cup {"absent"}
  <2>1. flows \in [Aliases -> Contents] /\ flows[a] # "built" /\ flows[a] # "partial" /\ flows[a] # "absent"
    BY <1>3, PlainContents DEF RunInv, FlowTypes
  <2>2. ASSUME NEW b \in Aliases, ImportFlow(b) PROVE FALSE
    <3>1. a = b
      BY <1>3, <2>1, <2>2 DEF ImportFlow
    <3> QED
      BY <1>3, <2>1, <2>2, <3>1, Empties
  <2>3. ASSUME NEW b \in Aliases, NEW c \in Whole \cup {"absent"}, flows' = [flows EXCEPT ![b] = c]
        PROVE  flows'[a] \in Whole \cup {"absent"}
    BY <1>3, <2>1, <2>3
  <2>4. CASE flows' = flows
    BY <1>3, <2>4
  <2>5. ASSUME NEW b \in Aliases, DeleteFlow(b) \/ RemoveFlow(b) PROVE flows'[a] \in Whole \cup {"absent"}
    BY <2>3, <2>4, <2>5 DEF DeleteFlow, RemoveFlow
  <2>6. ASSUME NEW b \in Aliases, NEW c \in Whole, EditFlow(b, c) PROVE flows'[a] \in Whole \cup {"absent"}
    BY <2>3, <2>6 DEF EditFlow
  <2>7. CASE \/ Start \/ BindBrowser \/ SetAttr \/ ListProviders \/ CheckProviders \/ Record \/ ReadUsage
             \/ Done \/ Leave \/ Stop \/ (\E p \in Providers : MoveProvider(p) \/ DeleteProvider(p))
             \/ (\E p \in Providers, f \in {UNBOUND, OWN} : SaveProvider(p, f))
             \/ Sweep \/ (\E r \in Releases : Upgrade(r)) \/ UNCHANGED flowsVars
    BY <2>4, <2>7 DEF Start, BindBrowser, SetAttr, ListProviders, CheckProviders, Record, ReadUsage, Done,
       Leave, Stop, MoveProvider, DeleteProvider, SaveProvider, Sweep, Upgrade, realm, flowsVars
  <2> QED
    BY <1>3, <2>2, <2>5, <2>6, <2>7 DEF FlowsNext, Converge, People
<1>4. RunInv /\ HandInv /\ [FlowsNext]_flowsVars =>
        \A a \in Aliases : flows[a] \in Edits /\ flows'[a] # flows[a] => flows'[a] \in Whole \cup {"absent"}
  BY <1>3
<1> QED
  BY <1>1, <1>2, <1>4, PTL DEF FlowsSpec, EditsStand
=============================================================================
