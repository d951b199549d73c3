---------------------------- MODULE TrustProofs ----------------------------
(* Whom a node takes errands from, and what it serves under its names:       *)
(* proofs about Enrolment and Certificates, for any number of nodes, tokens, *)
(* addresses, calls and names.                                               *)
EXTENDS Enrolment, Certificates, TLAPS

------------------------------------------------------------------------------
(* Enrolment: nobody takes errands from an authority that did not enrol it,  *)
(* whether or not calls reach the door one at a time.                        *)

(* A call on its way is somebody's, with a token.                            *)
CallsAreSomebodys ==
    \A c \in Call : calls[c].at # "idle" =>
        calls[c].joiner \in Joiner /\ calls[c].token \in Token

(* Unless it was given up on, its joiner still waits for it.                 *)
StillAwaited ==
    \A c \in Call : calls[c].at # "idle" /\ ~calls[c].late =>
        /\ join[calls[c].joiner].at = "waiting"
        /\ join[calls[c].joiner].token = calls[c].token

OneAwaited ==
    \A c, d \in Call :
        /\ calls[c].at # "idle" /\ ~calls[c].late
        /\ calls[d].at # "idle" /\ ~calls[d].late
        /\ calls[c].joiner = calls[d].joiner
        => c = d

(* Past the door's own claim, the token is that joiner's for good.           *)
SpentByCaller ==
    \A c \in Call : calls[c].at \in {"spent", "saved"} =>
        token[calls[c].token].by = calls[c].joiner

SpentByAnswered ==
    \A n \in Joiner : join[n].at \in {"answered", "trusted"} =>
        join[n].token \in Token /\ token[join[n].token].by = n

UnmintedIsNobodys ==
    \A t \in Token : token[t].is = "unminted" => token[t].by = NoJoiner

EnrolmentInvariant ==
    /\ EnrolmentTypeOK
    /\ CallsAreSomebodys /\ StillAwaited /\ OneAwaited
    /\ SpentByCaller /\ SpentByAnswered /\ UnmintedIsNobodys
    /\ TrustIsMutual

------------------------------------------------------------------------------

(* What is at rest is of the kinds that are kept.                            *)
LEMMA RestTypes ==
    /\ NoCall \in Calling /\ NoCall.at = "idle"
    /\ AtRest \in Joining /\ AtRest.at = "idle"
BY DEF NoCall, AtRest, Calling, Joining, Halfway

(* Before anything is minted there is nothing to hold.                       *)
LEMMA EnrolmentStartsRight == EnrolmentInit => EnrolmentInvariant
<1>. SUFFICES ASSUME EnrolmentInit PROVE EnrolmentInvariant
  OBVIOUS
<1>1. [is |-> "unminted", addr |-> NoAddress, by |-> NoJoiner] \in Promise
  BY DEF Promise
<1>2. EnrolmentTypeOK
  BY <1>1, RestTypes DEF EnrolmentInit, EnrolmentTypeOK
<1>. QED
  BY <1>2, RestTypes
     DEF EnrolmentInit, EnrolmentInvariant, CallsAreSomebodys, StillAwaited, OneAwaited,
         SpentByCaller, SpentByAnswered, UnmintedIsNobodys, TrustIsMutual

(* A step that leaves the tokens' spenders, the calls, the joins and the     *)
(* trust alone keeps all of it but the types.                                *)
LEMMA ElsewhereKeeps ==
    ASSUME EnrolmentInvariant, EnrolmentTypeOK',
           calls' = calls, join' = join, trusts' = trusts,
           \A t \in Token : token'[t].by = token[t].by,
           \A t \in Token : token'[t].is = "unminted" => token[t].is = "unminted"
    PROVE  EnrolmentInvariant'
BY DEF EnrolmentInvariant, EnrolmentTypeOK, CallsAreSomebodys, StillAwaited, OneAwaited,
       SpentByCaller, SpentByAnswered, UnmintedIsNobodys, TrustIsMutual

(* Calls that end, or are only given up on, keep it: so many fewer are owed  *)
(* an answer.                                                                *)
LEMMA FewerCallsKeep ==
    ASSUME EnrolmentInvariant, EnrolmentTypeOK', token' = token, trusts' = trusts,
           \A c \in Call : \/ calls'[c].at = "idle"
                           \/ /\ calls'[c].at = calls[c].at
                              /\ calls'[c].joiner = calls[c].joiner
                              /\ calls'[c].token = calls[c].token
                              /\ calls[c].late => calls'[c].late,
           NEW n \in Joiner,
           \/ join'[n] = join[n]
           \/ /\ join'[n].at = "idle"
              /\ \A c \in Call : calls'[c].at # "idle" /\ calls'[c].joiner = n => calls'[c].late,
           \A m \in Joiner \ {n} : join'[m] = join[m]
    PROVE  EnrolmentInvariant'
<1>. USE DEF EnrolmentInvariant
<1>1. CallsAreSomebodys'
  BY DEF CallsAreSomebodys
<1>2. StillAwaited'
  BY <1>1 DEF StillAwaited, CallsAreSomebodys
<1>3. OneAwaited'
  BY DEF OneAwaited
<1>4. SpentByCaller'
  BY DEF SpentByCaller
<1>5. SpentByAnswered'
  BY DEF SpentByAnswered
<1>6. UnmintedIsNobodys' /\ TrustIsMutual'
  BY DEF UnmintedIsNobodys, TrustIsMutual
<1>. QED
  BY <1>1, <1>2, <1>3, <1>4, <1>5, <1>6

------------------------------------------------------------------------------
(* One lemma for each step.                                                  *)

(* Reading an address to promise touches nothing that is held.               *)
LEMMA AllocateKeeps ==
    ASSUME EnrolmentInvariant, Allocate
    PROVE  EnrolmentInvariant'
<1>1. EnrolmentTypeOK'
  BY DEF Allocate, EnrolmentInvariant, EnrolmentTypeOK
<1>. QED
  BY <1>1, ElsewhereKeeps DEF Allocate

(* A token that is minted was nobody's, and is nobody's.                     *)
LEMMA CreateKeeps ==
    ASSUME EnrolmentInvariant, NEW t \in Token, Create(t)
    PROVE  EnrolmentInvariant'
<1>. DEFINE r == [is |-> "live", addr |-> minting, by |-> NoJoiner]
<1>1. /\ token' = token \/ token' = [token EXCEPT ![t] = r]
      /\ token[t].is = "unminted" /\ minting' = NoAddress
      /\ row' = row /\ calls' = calls /\ join' = join /\ trusts' = trusts
      /\ mine' = mine /\ strayed' = strayed
  BY DEF Create
<1>2. r \in Promise /\ r.by = NoJoiner /\ r.is = "live"
  BY DEF EnrolmentInvariant, EnrolmentTypeOK, Promise
<1>. HIDE DEF r
<1>3. EnrolmentTypeOK'
  BY <1>1, <1>2 DEF EnrolmentInvariant, EnrolmentTypeOK
<1>4. token[t].by = NoJoiner
  BY <1>1 DEF EnrolmentInvariant, UnmintedIsNobodys
<1>5. \A u \in Token : /\ token'[u].by = token[u].by
                       /\ token'[u].is = "unminted" => token[u].is = "unminted"
  BY <1>1, <1>2, <1>4 DEF EnrolmentInvariant, EnrolmentTypeOK
<1>. QED
  BY <1>1, <1>3, <1>5, ElsewhereKeeps

(* A token that is withdrawn stays whose it was.                             *)
LEMMA WithdrawKeeps ==
    ASSUME EnrolmentInvariant, NEW t \in Token, Withdraw(t)
    PROVE  EnrolmentInvariant'
<1>. DEFINE r == [token[t] EXCEPT !.is = "withdrawn"]
<1>1. /\ token' = [token EXCEPT ![t] = r] /\ minting' = minting
      /\ row' = row /\ calls' = calls /\ join' = join /\ trusts' = trusts
      /\ mine' = mine /\ strayed' = strayed
  BY Zenon DEF Withdraw
<1>2. token[t] \in Promise
  BY DEF EnrolmentInvariant, EnrolmentTypeOK
<1>3. r \in Promise /\ r.by = token[t].by /\ r.is = "withdrawn"
  BY <1>2 DEF Promise
<1>. HIDE DEF r
<1>4. EnrolmentTypeOK'
  BY <1>1, <1>3 DEF EnrolmentInvariant, EnrolmentTypeOK
<1>5. \A u \in Token : /\ token'[u].by = token[u].by
                       /\ token'[u].is = "unminted" => token[u].is = "unminted"
  BY <1>1, <1>3 DEF EnrolmentInvariant, EnrolmentTypeOK
<1>. QED
  BY <1>1, <1>4, <1>5, ElsewhereKeeps

(* Forgetting a node changes the record of nodes alone.                      *)
LEMMA ForgetKeeps ==
    ASSUME EnrolmentInvariant, NEW n \in Joiner, Forget(n)
    PROVE  EnrolmentInvariant'
<1>1. EnrolmentTypeOK'
  BY DEF Forget, EnrolmentInvariant, EnrolmentTypeOK
<1>. QED
  BY <1>1, ElsewhereKeeps DEF Forget

(* A new call is the only one its joiner awaits.                             *)
LEMMA AnnounceKeeps ==
    ASSUME EnrolmentInvariant, NEW n \in Joiner, NEW t \in Token, NEW c \in Call,
           Announce(n, t, c)
    PROVE  EnrolmentInvariant'
<1>. DEFINE k == [at |-> "sent", joiner |-> n, token |-> t, known |-> NoAddress, late |-> FALSE]
            j == [at |-> "waiting", token |-> t, addr |-> NoAddress]
<1>. USE DEF EnrolmentInvariant
<1>1. /\ join[n].at = "idle" /\ calls[c].at = "idle"
      /\ calls' = [calls EXCEPT ![c] = k] /\ join' = [join EXCEPT ![n] = j]
      /\ token' = token /\ minting' = minting /\ row' = row /\ trusts' = trusts
      /\ mine' = mine /\ strayed' = strayed
  BY RestTypes DEF Announce
<1>2. k \in Calling /\ k.at = "sent" /\ k.joiner = n /\ k.token = t /\ ~k.late
  BY DEF Calling, Halfway
<1>3. j \in Joining /\ j.at = "waiting" /\ j.token = t
  BY DEF Joining
<1>. HIDE DEF k, j
<1>4. /\ calls'[c] = k /\ \A d \in Call \ {c} : calls'[d] = calls[d]
      /\ join'[n] = j /\ \A m \in Joiner \ {n} : join'[m] = join[m]
  BY <1>1 DEF EnrolmentTypeOK
<1>5. EnrolmentTypeOK'
  BY <1>1, <1>2, <1>3 DEF EnrolmentTypeOK
<1>6. \A d \in Call : calls[d].at # "idle" /\ calls[d].joiner = n => calls[d].late
  BY <1>1 DEF StillAwaited
<1>7. CallsAreSomebodys'
  BY <1>2, <1>4 DEF CallsAreSomebodys
<1>8. StillAwaited'
  BY <1>2, <1>3, <1>4, <1>6 DEF StillAwaited, CallsAreSomebodys
<1>9. OneAwaited'
  BY <1>2, <1>4, <1>6 DEF OneAwaited
<1>10. SpentByCaller'
  BY <1>1, <1>2, <1>4 DEF SpentByCaller
<1>11. SpentByAnswered'
  BY <1>1, <1>3, <1>4 DEF SpentByAnswered
<1>12. UnmintedIsNobodys' /\ TrustIsMutual'
  BY <1>1 DEF UnmintedIsNobodys, TrustIsMutual
<1>. QED
  BY <1>5, <1>7, <1>8, <1>9, <1>10, <1>11, <1>12

(* Whoever is told no waits no longer, and the call is over.                 *)
LEMMA RefusesKeeps ==
    ASSUME EnrolmentInvariant, NEW c \in Call, calls[c].at # "idle", Refuses(c),
           UNCHANGED <<token, minting, row, trusts, mine, strayed>>
    PROVE  EnrolmentInvariant'
<1>. DEFINE n == calls[c].joiner
<1>. USE DEF EnrolmentInvariant
<1>1. /\ calls' = [calls EXCEPT ![c] = NoCall]
      /\ IF calls[c].late THEN join' = join ELSE join' = [join EXCEPT ![n] = AtRest]
      /\ token' = token /\ minting' = minting /\ row' = row /\ trusts' = trusts
      /\ mine' = mine /\ strayed' = strayed
  BY DEF Refuses
<1>2. n \in Joiner
  BY DEF CallsAreSomebodys
<1>3. /\ calls'[c] = NoCall /\ \A d \in Call \ {c} : calls'[d] = calls[d]
      /\ \A m \in Joiner \ {n} : join'[m] = join[m]
      /\ IF calls[c].late THEN join'[n] = join[n] ELSE join'[n] = AtRest
  BY <1>1, <1>2 DEF EnrolmentTypeOK
<1>4. EnrolmentTypeOK'
  BY <1>1, <1>2, RestTypes DEF EnrolmentTypeOK
<1>5. ~calls[c].late =>
        \A d \in Call : calls'[d].at # "idle" /\ calls'[d].joiner = n => calls'[d].late
  BY <1>3, RestTypes DEF OneAwaited
<1>6. \A d \in Call : \/ calls'[d].at = "idle"
                      \/ /\ calls'[d].at = calls[d].at /\ calls'[d].joiner = calls[d].joiner
                         /\ calls'[d].token = calls[d].token
                         /\ calls[d].late => calls'[d].late
  BY <1>3, RestTypes
<1>. HIDE DEF EnrolmentInvariant, n
<1>. QED
  BY <1>1, <1>2, <1>3, <1>4, <1>5, <1>6, RestTypes, FewerCallsKeep

(* A call that goes on inside the door stays who it is for; the one claim    *)
(* there is made of a token that was nobody's.                               *)
LEMMA GoesOnKeeps ==
    ASSUME EnrolmentInvariant, EnrolmentTypeOK', NEW c \in Call,
           calls[c].at # "idle", calls'[c].at # "idle",
           calls'[c].joiner = calls[c].joiner, calls'[c].token = calls[c].token,
           calls'[c].late = calls[c].late,
           \A d \in Call \ {c} : calls'[d] = calls[d],
           join' = join, trusts' = trusts,
           \A t \in Token : token'[t].by = token[t].by \/ token[t].by = NoJoiner,
           \A t \in Token : token'[t].is = "unminted" => token'[t].by = NoJoiner,
           calls'[c].at \in {"spent", "saved"} => token'[calls[c].token].by = calls[c].joiner
    PROVE  EnrolmentInvariant'
<1>. USE DEF EnrolmentInvariant
<1>1. CallsAreSomebodys'
  BY DEF CallsAreSomebodys
<1>2. StillAwaited'
  BY DEF StillAwaited
<1>3. OneAwaited'
  BY DEF OneAwaited
<1>4. SpentByCaller'
  BY EnrolmentAssumption DEF SpentByCaller, CallsAreSomebodys
<1>5. SpentByAnswered'
  BY EnrolmentAssumption DEF SpentByAnswered
<1>6. UnmintedIsNobodys'
  BY DEF UnmintedIsNobodys
<1>7. TrustIsMutual'
  BY EnrolmentAssumption DEF TrustIsMutual, EnrolmentTypeOK
<1>. QED
  BY <1>1, <1>2, <1>3, <1>4, <1>5, <1>6, <1>7

(* Looking a token up claims nothing.                                        *)
LEMMA DoorLooksKeeps ==
    ASSUME EnrolmentInvariant, NEW c \in Call, DoorLooks(c)
    PROVE  EnrolmentInvariant'
<1>1. calls[c].at = "sent" /\ UNCHANGED <<token, minting, row, trusts, mine, strayed>>
  BY DEF DoorLooks
<1>2. CASE Refuses(c)
  BY <1>1, <1>2, RefusesKeeps
<1>3. CASE /\ calls' = [calls EXCEPT ![c].at = "looked", ![c].known = row[calls[c].joiner]]
           /\ join' = join
  <2>. DEFINE k == [calls[c] EXCEPT !.at = "looked", !.known = row[calls[c].joiner]]
  <2>1. calls' = [calls EXCEPT ![c] = k]
    BY <1>3, Zenon
  <2>2. calls[c] \in Calling /\ row[calls[c].joiner] \in Address \cup {NoAddress}
    BY <1>1 DEF EnrolmentInvariant, EnrolmentTypeOK, CallsAreSomebodys
  <2>3. /\ k \in Calling /\ k.at = "looked" /\ k.joiner = calls[c].joiner
        /\ k.token = calls[c].token /\ k.late = calls[c].late
    BY <2>2 DEF Calling, Halfway
  <2>. HIDE DEF k
  <2>4. calls'[c] = k /\ \A d \in Call \ {c} : calls'[d] = calls[d]
    BY <2>1 DEF EnrolmentInvariant, EnrolmentTypeOK
  <2>5. EnrolmentTypeOK'
    BY <1>1, <1>3, <2>1, <2>3 DEF EnrolmentInvariant, EnrolmentTypeOK
  <2>6. token' = token /\ \A t \in Token : token[t].is = "unminted" => token[t].by = NoJoiner
    BY <1>1 DEF EnrolmentInvariant, UnmintedIsNobodys
  <2>. QED
    BY <1>1, <1>3, <2>3, <2>4, <2>5, <2>6, GoesOnKeeps
<1>. QED
  BY <1>2, <1>3 DEF DoorLooks

(* Spending a token makes it its caller's where it was nobody's.             *)
LEMMA DoorSpendsKeeps ==
    ASSUME EnrolmentInvariant, NEW c \in Call, DoorSpends(c)
    PROVE  EnrolmentInvariant'
<1>. DEFINE t == calls[c].token
            n == calls[c].joiner
<1>1. /\ calls[c].at = "looked" /\ minting' = minting /\ row' = row /\ trusts' = trusts
      /\ mine' = mine /\ strayed' = strayed
  BY DEF DoorSpends
<1>2. n \in Joiner /\ t \in Token
  BY <1>1 DEF EnrolmentInvariant, CallsAreSomebodys
<1>3. CASE ~(token[t].is = "live" /\ token[t].by \in {NoJoiner, n})
  <2>1. Refuses(c) /\ token' = token
    BY <1>3 DEF DoorSpends
  <2>. QED
    BY <1>1, <2>1, RefusesKeeps
<1>4. CASE token[t].is = "live" /\ token[t].by \in {NoJoiner, n}
  <2>. DEFINE k == [calls[c] EXCEPT !.at = "spent"]
              r == [token[t] EXCEPT !.by = n]
  <2>1. /\ token' = [token EXCEPT ![t].by = n] /\ calls' = [calls EXCEPT ![c].at = "spent"]
        /\ join' = join
    BY <1>4 DEF DoorSpends
  <2>2. token' = [token EXCEPT ![t] = r] /\ calls' = [calls EXCEPT ![c] = k]
    BY <2>1, Zenon
  <2>3. calls[c] \in Calling /\ token[t] \in Promise
    BY <1>2 DEF EnrolmentInvariant, EnrolmentTypeOK
  <2>4. /\ k \in Calling /\ k.at = "spent" /\ k.joiner = n /\ k.token = t
        /\ k.late = calls[c].late
    BY <2>3 DEF Calling, Halfway
  <2>5. r \in Promise /\ r.by = n /\ r.is = "live"
    BY <1>2, <1>4, <2>3 DEF Promise
  <2>. HIDE DEF k, r
  <2>6. calls'[c] = k /\ \A d \in Call \ {c} : calls'[d] = calls[d]
    BY <2>2 DEF EnrolmentInvariant, EnrolmentTypeOK
  <2>7. token'[t] = r /\ \A u \in Token \ {t} : token'[u] = token[u]
    BY <1>2, <2>2 DEF EnrolmentInvariant, EnrolmentTypeOK
  <2>8. EnrolmentTypeOK'
    BY <1>1, <1>2, <2>1, <2>2, <2>4, <2>5 DEF EnrolmentInvariant, EnrolmentTypeOK
  <2>9. \A u \in Token : token'[u].by = token[u].by \/ token[u].by = NoJoiner
    BY <1>4, <2>5, <2>7
  <2>10. \A u \in Token : token'[u].is = "unminted" => token'[u].by = NoJoiner
    BY <2>5, <2>7 DEF EnrolmentInvariant, UnmintedIsNobodys
  <2>. QED
    BY <1>1, <2>1, <2>4, <2>5, <2>6, <2>7, <2>8, <2>9, <2>10, GoesOnKeeps
<1>. QED
  BY <1>3, <1>4

(* The row is written for the node whose token was spent.                    *)
LEMMA DoorSavesKeeps ==
    ASSUME EnrolmentInvariant, NEW c \in Call, DoorSaves(c)
    PROVE  EnrolmentInvariant'
<1>. DEFINE n == calls[c].joiner
            a == AddressFor(c)
<1>1. /\ calls[c].at = "spent" /\ token' = token /\ minting' = minting /\ trusts' = trusts
      /\ mine' = mine /\ strayed' = strayed
  BY DEF DoorSaves
<1>2. n \in Joiner /\ calls[c].token \in Token
  BY <1>1 DEF EnrolmentInvariant, CallsAreSomebodys
<1>3. CASE \E m \in Joiner \ {n} : row[m] = a
  <2>1. Refuses(c) /\ row' = row
    BY <1>3 DEF DoorSaves
  <2>. QED
    BY <1>1, <2>1, RefusesKeeps
<1>4. CASE ~\E m \in Joiner \ {n} : row[m] = a
  <2>. DEFINE k == [calls[c] EXCEPT !.at = "saved", !.known = a]
  <2>1. /\ row' = [row EXCEPT ![n] = a]
        /\ calls' = [calls EXCEPT ![c].at = "saved", ![c].known = a]
        /\ join' = join
    BY <1>4 DEF DoorSaves
  <2>2. calls[c] \in Calling /\ token[calls[c].token] \in Promise
    BY <1>2 DEF EnrolmentInvariant, EnrolmentTypeOK
  <2>3. a \in Address \cup {NoAddress}
    BY <2>2 DEF AddressFor, Calling, Promise
  <2>4. calls' = [calls EXCEPT ![c] = k]
    BY <2>1, Zenon
  <2>. HIDE DEF a
  <2>5. /\ k \in Calling /\ k.at = "saved" /\ k.joiner = n /\ k.token = calls[c].token
        /\ k.late = calls[c].late
    BY <2>2, <2>3 DEF Calling, Halfway
  <2>. HIDE DEF k
  <2>6. calls'[c] = k /\ \A d \in Call \ {c} : calls'[d] = calls[d]
    BY <2>4 DEF EnrolmentInvariant, EnrolmentTypeOK
  <2>7. EnrolmentTypeOK'
    BY <1>1, <1>2, <2>1, <2>3, <2>4, <2>5 DEF EnrolmentInvariant, EnrolmentTypeOK
  <2>8. token'[calls[c].token].by = calls[c].joiner
    BY <1>1 DEF EnrolmentInvariant, SpentByCaller
  <2>9. \A u \in Token : /\ token'[u].by = token[u].by
                         /\ token'[u].is = "unminted" => token'[u].by = NoJoiner
    BY <1>1 DEF EnrolmentInvariant, UnmintedIsNobodys
  <2>. QED
    BY <1>1, <2>1, <2>5, <2>6, <2>7, <2>8, <2>9, GoesOnKeeps
<1>. QED
  BY <1>3, <1>4

(* The answer reaches a joiner that still waits for it: the token it tried   *)
(* is its own.                                                               *)
LEMMA DoorAnswersKeeps ==
    ASSUME EnrolmentInvariant, NEW c \in Call, DoorAnswers(c)
    PROVE  EnrolmentInvariant'
<1>. DEFINE n == calls[c].joiner
            j == [join[n] EXCEPT !.at = "answered", !.addr = calls[c].known]
<1>1. /\ calls[c].at = "saved" /\ calls' = [calls EXCEPT ![c] = NoCall]
      /\ token' = token /\ minting' = minting /\ row' = row /\ trusts' = trusts
      /\ mine' = mine /\ strayed' = strayed
  BY DEF DoorAnswers
<1>2. n \in Joiner /\ calls[c].token \in Token
  BY <1>1 DEF EnrolmentInvariant, CallsAreSomebodys
<1>3. calls'[c] = NoCall /\ \A d \in Call \ {c} : calls'[d] = calls[d]
  BY <1>1 DEF EnrolmentInvariant, EnrolmentTypeOK
<1>4. \A d \in Call : \/ calls'[d].at = "idle"
                      \/ /\ calls'[d].at = calls[d].at /\ calls'[d].joiner = calls[d].joiner
                         /\ calls'[d].token = calls[d].token
                         /\ calls[d].late => calls'[d].late
  BY <1>3, RestTypes
<1>5. CASE calls[c].late
  <2>1. join' = join
    BY <1>5 DEF DoorAnswers
  <2>2. EnrolmentTypeOK'
    BY <1>1, <2>1, RestTypes DEF EnrolmentInvariant, EnrolmentTypeOK
  <2>. QED
    BY <1>1, <1>2, <1>4, <2>1, <2>2, FewerCallsKeep
<1>6. CASE ~calls[c].late
  <2>1. join' = [join EXCEPT ![n] = j]
    BY <1>6, Zenon DEF DoorAnswers
  <2>2. join[n] \in Joining /\ calls[c] \in Calling
    BY <1>2 DEF EnrolmentInvariant, EnrolmentTypeOK
  <2>3. j \in Joining /\ j.at = "answered" /\ j.token = join[n].token
    BY <2>2 DEF Joining, Calling
  <2>. HIDE DEF j
  <2>4. join[n].token = calls[c].token
    BY <1>1, <1>6 DEF EnrolmentInvariant, StillAwaited
  <2>5. join'[n] = j /\ \A m \in Joiner \ {n} : join'[m] = join[m]
    BY <1>2, <2>1 DEF EnrolmentInvariant, EnrolmentTypeOK
  <2>6. token[calls[c].token].by = n
    BY <1>1 DEF EnrolmentInvariant, SpentByCaller
  <2>7. \A d \in Call : calls'[d].at # "idle" /\ calls'[d].joiner = n => calls'[d].late
    BY <1>1, <1>3, <1>6, RestTypes DEF EnrolmentInvariant, OneAwaited
  <2>. USE DEF EnrolmentInvariant
  <2>8. EnrolmentTypeOK'
    BY <1>1, <1>2, <2>1, <2>3, RestTypes DEF EnrolmentTypeOK
  <2>9. CallsAreSomebodys'
    BY <1>4 DEF CallsAreSomebodys
  <2>10. StillAwaited'
    BY <1>4, <2>5, <2>7, <2>9 DEF StillAwaited, CallsAreSomebodys
  <2>11. OneAwaited'
    BY <1>4 DEF OneAwaited
  <2>12. SpentByCaller'
    BY <1>1, <1>4 DEF SpentByCaller
  <2>13. SpentByAnswered'
    BY <1>1, <1>2, <2>3, <2>4, <2>5, <2>6 DEF SpentByAnswered
  <2>14. UnmintedIsNobodys' /\ TrustIsMutual'
    BY <1>1 DEF UnmintedIsNobodys, TrustIsMutual
  <2>. QED
    BY <2>8, <2>9, <2>10, <2>11, <2>12, <2>13, <2>14
<1>. QED
  BY <1>5, <1>6

(* Giving up on a node's calls leaves each where it was, and none awaited.   *)
LEMMA GivingUp ==
    ASSUME EnrolmentTypeOK, NEW n \in Joiner, calls' = GivesUpOn(n)
    PROVE  /\ calls' \in [Call -> Calling]
           /\ \A c \in Call : /\ calls'[c].at = calls[c].at
                              /\ calls'[c].joiner = calls[c].joiner
                              /\ calls'[c].token = calls[c].token
                              /\ calls[c].late => calls'[c].late
                              /\ calls'[c].joiner = n => calls'[c].late
<1>. DEFINE g(c) == [calls[c] EXCEPT !.late = TRUE]
<1>1. \A c \in Call : calls[c] \in Calling
  BY DEF EnrolmentTypeOK
<1>2. \A c \in Call : /\ g(c) \in Calling /\ g(c).late
                      /\ g(c).at = calls[c].at /\ g(c).joiner = calls[c].joiner
                      /\ g(c).token = calls[c].token
  BY <1>1 DEF Calling
<1>3. calls' = [c \in Call |-> IF calls[c].joiner = n THEN g(c) ELSE calls[c]]
  BY DEF GivesUpOn
<1>. HIDE DEF g
<1>. QED
  BY <1>1, <1>2, <1>3

(* A joiner that gives up waits for no call of its own any more.             *)
LEMMA AnnounceTimesOutKeeps ==
    ASSUME EnrolmentInvariant, NEW n \in Joiner, AnnounceTimesOut(n)
    PROVE  EnrolmentInvariant'
<1>1. /\ join' = [join EXCEPT ![n] = AtRest] /\ calls' = GivesUpOn(n)
      /\ token' = token /\ minting' = minting /\ row' = row /\ trusts' = trusts
      /\ mine' = mine /\ strayed' = strayed
  BY DEF AnnounceTimesOut
<1>2. join'[n].at = "idle" /\ \A m \in Joiner \ {n} : join'[m] = join[m]
  BY <1>1, RestTypes DEF EnrolmentInvariant, EnrolmentTypeOK
<1>3. EnrolmentTypeOK'
  BY <1>1, GivingUp, RestTypes DEF EnrolmentInvariant, EnrolmentTypeOK
<1>4. EnrolmentTypeOK
  BY DEF EnrolmentInvariant
<1>. QED
  BY <1>1, <1>2, <1>3, <1>4, GivingUp, FewerCallsKeep

(* A stop of the node forgets the join and gives up on its calls.            *)
LEMMA NodeStopsKeeps ==
    ASSUME EnrolmentInvariant, NEW n \in Joiner, NodeStops(n)
    PROVE  EnrolmentInvariant'
<1>1. /\ join' = [join EXCEPT ![n] = AtRest] /\ calls' = GivesUpOn(n)
      /\ strayed' = strayed \cup {n} \/ strayed' = strayed
      /\ token' = token /\ minting' = minting /\ row' = row /\ trusts' = trusts
      /\ mine' = mine
  BY DEF NodeStops
<1>2. join'[n].at = "idle" /\ \A m \in Joiner \ {n} : join'[m] = join[m]
  BY <1>1, RestTypes DEF EnrolmentInvariant, EnrolmentTypeOK
<1>3. EnrolmentTypeOK'
  BY <1>1, GivingUp, RestTypes DEF EnrolmentInvariant, EnrolmentTypeOK
<1>4. EnrolmentTypeOK
  BY DEF EnrolmentInvariant
<1>. QED
  BY <1>1, <1>2, <1>3, <1>4, GivingUp, FewerCallsKeep

(* A call that is lost leaves its joiner waiting for nothing.                *)
LEMMA CallLostKeeps ==
    ASSUME EnrolmentInvariant, NEW c \in Call, CallLost(c)
    PROVE  EnrolmentInvariant'
<1>1. /\ calls[c].at = "sent" /\ calls' = [calls EXCEPT ![c] = NoCall]
      /\ token' = token /\ minting' = minting /\ row' = row /\ trusts' = trusts
      /\ mine' = mine /\ strayed' = strayed /\ join' = join
  BY DEF CallLost
<1>2. calls[c].joiner \in Joiner
  BY <1>1 DEF EnrolmentInvariant, CallsAreSomebodys
<1>3. calls'[c].at = "idle" /\ \A d \in Call \ {c} : calls'[d] = calls[d]
  BY <1>1, RestTypes DEF EnrolmentInvariant, EnrolmentTypeOK
<1>4. EnrolmentTypeOK'
  BY <1>1, RestTypes DEF EnrolmentInvariant, EnrolmentTypeOK
<1>. QED
  BY <1>1, <1>2, <1>3, <1>4, FewerCallsKeep

(* A stop of the authority loses every call in its door.                     *)
LEMMA AuthorityStopsKeeps ==
    ASSUME EnrolmentInvariant, AuthorityStops
    PROVE  EnrolmentInvariant'
<1>1. /\ calls' = [c \in Call |-> NoCall] /\ minting' = NoAddress
      /\ token' = token /\ row' = row /\ trusts' = trusts
      /\ mine' = mine /\ strayed' = strayed /\ join' = join
  BY DEF AuthorityStops
<1>2. \A c \in Call : calls'[c].at = "idle"
  BY <1>1, RestTypes
<1>3. EnrolmentTypeOK'
  BY <1>1, RestTypes DEF EnrolmentInvariant, EnrolmentTypeOK
<1>. QED
  BY <1>1, <1>2, <1>3 DEF EnrolmentInvariant, CallsAreSomebodys, StillAwaited, OneAwaited,
     SpentByCaller, SpentByAnswered, UnmintedIsNobodys, TrustIsMutual

(* What is trusted with is the token the answer was for.                     *)
LEMMA TrustKeeps ==
    ASSUME EnrolmentInvariant, NEW n \in Joiner, Trust(n)
    PROVE  EnrolmentInvariant'
<1>. DEFINE j == [join[n] EXCEPT !.at = "trusted"]
<1>. USE DEF EnrolmentInvariant
<1>1. /\ join[n].at = "answered" /\ join' = [join EXCEPT ![n] = j]
      /\ trusts' = [trusts EXCEPT ![n] = join[n].token]
      /\ token' = token /\ minting' = minting /\ row' = row /\ calls' = calls
      /\ mine' = mine /\ strayed' = strayed
  BY Zenon DEF Trust, there
<1>2. join[n] \in Joining
  BY DEF EnrolmentTypeOK
<1>3. j \in Joining /\ j.at = "trusted" /\ j.token = join[n].token
  BY <1>2 DEF Joining
<1>. HIDE DEF j
<1>4. /\ join'[n] = j /\ \A m \in Joiner \ {n} : join'[m] = join[m]
      /\ trusts'[n] = join[n].token /\ \A m \in Joiner \ {n} : trusts'[m] = trusts[m]
  BY <1>1 DEF EnrolmentTypeOK
<1>5. join[n].token \in Token /\ token[join[n].token].by = n
  BY <1>1 DEF SpentByAnswered
<1>6. EnrolmentTypeOK'
  BY <1>1, <1>3, <1>5 DEF EnrolmentTypeOK
<1>7. StillAwaited'
  BY <1>1, <1>4 DEF StillAwaited, CallsAreSomebodys
<1>8. SpentByAnswered'
  BY <1>1, <1>3, <1>4, <1>5 DEF SpentByAnswered
<1>9. CallsAreSomebodys' /\ OneAwaited' /\ SpentByCaller' /\ UnmintedIsNobodys'
  BY <1>1 DEF CallsAreSomebodys, OneAwaited, SpentByCaller, UnmintedIsNobodys
<1>10. TrustIsMutual'
  BY <1>1, <1>4, <1>5 DEF TrustIsMutual
<1>. QED
  BY <1>6, <1>7, <1>8, <1>9, <1>10

(* The end of a join is reached with none of its calls awaited.              *)
LEMMA SaveMyselfKeeps ==
    ASSUME EnrolmentInvariant, NEW n \in Joiner, SaveMyself(n)
    PROVE  EnrolmentInvariant'
<1>1. /\ join[n].at = "trusted" /\ join' = [join EXCEPT ![n] = AtRest]
      /\ mine' = [mine EXCEPT ![n] = join[n].addr]
      /\ token' = token /\ minting' = minting /\ row' = row /\ calls' = calls
      /\ trusts' = trusts /\ strayed' = strayed
  BY DEF SaveMyself, there
<1>2. join'[n].at = "idle" /\ \A m \in Joiner \ {n} : join'[m] = join[m]
  BY <1>1, RestTypes DEF EnrolmentInvariant, EnrolmentTypeOK
<1>3. \A c \in Call : calls[c].at # "idle" /\ calls[c].joiner = n => calls[c].late
  BY <1>1 DEF EnrolmentInvariant, StillAwaited
<1>4. join[n].addr \in Address \cup {NoAddress}
  BY DEF EnrolmentInvariant, EnrolmentTypeOK, Joining
<1>5. EnrolmentTypeOK'
  BY <1>1, <1>4, RestTypes DEF EnrolmentInvariant, EnrolmentTypeOK
<1>. QED
  BY <1>1, <1>2, <1>3, <1>5, FewerCallsKeep

(* Trusting one authority less breaks nothing.                               *)
LEMMA RevokeAuthorityKeeps ==
    ASSUME EnrolmentInvariant, NEW n \in Joiner, RevokeAuthority(n)
    PROVE  EnrolmentInvariant'
<1>1. /\ trusts' = [trusts EXCEPT ![n] = NoToken]
      /\ token' = token /\ minting' = minting /\ row' = row /\ calls' = calls
      /\ join' = join /\ mine' = mine /\ strayed' = strayed
  BY DEF RevokeAuthority, there
<1>2. EnrolmentTypeOK'
  BY <1>1 DEF EnrolmentInvariant, EnrolmentTypeOK
<1>3. TrustIsMutual'
  BY <1>1 DEF EnrolmentInvariant, EnrolmentTypeOK, TrustIsMutual
<1>. QED
  BY <1>1, <1>2, <1>3 DEF EnrolmentInvariant, CallsAreSomebodys, StillAwaited, OneAwaited,
     SpentByCaller, SpentByAnswered, UnmintedIsNobodys

------------------------------------------------------------------------------

(* Every step of the door, of the nodes and of the operator keeps it.        *)
LEMMA EnrolmentKeeps ==
    ASSUME EnrolmentInvariant, [EnrolmentNext]_enrolment
    PROVE  EnrolmentInvariant'
<1>1. CASE UNCHANGED enrolment
  <2>1. /\ token' = token /\ minting' = minting /\ row' = row /\ calls' = calls
        /\ join' = join /\ trusts' = trusts /\ mine' = mine /\ strayed' = strayed
    BY <1>1 DEF enrolment, there
  <2>2. EnrolmentTypeOK'
    BY <2>1 DEF EnrolmentInvariant, EnrolmentTypeOK
  <2>. QED
    BY <2>1, <2>2, ElsewhereKeeps
<1>2. ASSUME NEW c \in Call, AtTheDoor(c) PROVE EnrolmentInvariant'
  BY <1>2, DoorLooksKeeps, DoorSpendsKeeps, DoorSavesKeeps, DoorAnswersKeeps, CallLostKeeps
     DEF AtTheDoor
<1>3. ASSUME NEW n \in Joiner, JoiningStep(n) PROVE EnrolmentInvariant'
  BY <1>3, AnnounceKeeps, AnnounceTimesOutKeeps, TrustKeeps, SaveMyselfKeeps,
     RevokeAuthorityKeeps, NodeStopsKeeps DEF JoiningStep
<1>4. CASE Operates
  BY <1>4, AllocateKeeps, CreateKeeps, WithdrawKeeps, ForgetKeeps, AuthorityStopsKeeps
     DEF Operates
<1>. QED
  BY <1>1, <1>2, <1>3, <1>4 DEF EnrolmentNext

(* The inductive invariant holds throughout.                                 *)
THEOREM EnrolmentHolds == EnrolmentSpec => []EnrolmentInvariant
<1>1. EnrolmentInit => EnrolmentInvariant
  BY EnrolmentStartsRight
<1>2. EnrolmentInvariant /\ [EnrolmentNext]_enrolment => EnrolmentInvariant'
  BY EnrolmentKeeps
<1>. QED
  BY <1>1, <1>2, PTL DEF EnrolmentSpec

(* Whoever trusts an authority was enrolled by it with that very token, so   *)
(* that no token stands for two nodes, through late and lost answers, stops  *)
(* of either side and tokens tried again.                                    *)
THEOREM TrustedBothWays == EnrolmentSpec => []TrustIsMutual
<1>1. EnrolmentInvariant => TrustIsMutual
  BY DEF EnrolmentInvariant
<1>. QED
  BY <1>1, EnrolmentHolds, PTL

------------------------------------------------------------------------------
(* Addresses, where nothing else happens inside a call or a mint.            *)

OneInTheDoor == \A c, d \in Call : InTheDoor(c) /\ InTheDoor(d) => c = d

(* What a mint has read is still nobody's when it is written.                *)
MintsAlone ==
    minting # NoAddress => minting \notin Taken /\ \A c \in Call : ~InTheDoor(c)

(* Inside the door the token still stands and the node is where it was.      *)
DoorReadsRight ==
    \A c \in Call : InTheDoor(c) =>
        token[calls[c].token].is = "live" /\ calls[c].known = row[calls[c].joiner]

MintedHasAddress == \A t \in Token : token[t].is # "unminted" => token[t].addr # NoAddress

(* What a node is being told, or was told, is what the authority has for it. *)
RowIsTold ==
    /\ \A c \in Call : calls[c].at = "saved" /\ calls[c].joiner \notin strayed =>
          calls[c].known # NoAddress /\ calls[c].known = row[calls[c].joiner]
    /\ \A n \in Joiner \ strayed :
          /\ join[n].at \in {"answered", "trusted"} =>
                join[n].addr # NoAddress /\ join[n].addr = row[n]
          /\ trusts[n] # NoToken => row[n] # NoAddress
          /\ trusts[n] # NoToken /\ join[n].at # "trusted" => mine[n] = row[n]

AddressInvariant ==
    /\ EnrolmentInvariant
    /\ OneInTheDoor /\ MintsAlone /\ DoorReadsRight /\ MintedHasAddress
    /\ PromisedAddressIsFree /\ RowIsTold

(* Before anything is minted no address is anybody's.                        *)
LEMMA AddressesStartRight == EnrolmentInit => AddressInvariant
<1>. SUFFICES ASSUME EnrolmentInit PROVE AddressInvariant
  OBVIOUS
<1>1. EnrolmentInvariant
  BY EnrolmentStartsRight
<1>2. OneInTheDoor /\ MintsAlone /\ DoorReadsRight
  BY RestTypes DEF EnrolmentInit, OneInTheDoor, MintsAlone, DoorReadsRight, InTheDoor
<1>3. MintedHasAddress /\ PromisedAddressIsFree
  BY DEF EnrolmentInit, MintedHasAddress, PromisedAddressIsFree
<1>4. RowIsTold
  BY RestTypes DEF EnrolmentInit, RowIsTold, NoCall, AtRest
<1>. QED
  BY <1>1, <1>2, <1>3, <1>4 DEF AddressInvariant

(* Inside the door nothing is minted and nobody else is.                     *)
LEMMA DoorIsAlone ==
    ASSUME AddressInvariant, NEW c \in Call, InTheDoor(c)
    PROVE  minting = NoAddress /\ \A d \in Call \ {c} : ~InTheDoor(d)
BY DEF AddressInvariant, OneInTheDoor, MintsAlone

(* Calls that end, are given up on or only begin, and joins that end or      *)
(* begin, tell nobody an address.                                            *)
LEMMA NothingToldKeeps ==
    ASSUME AddressInvariant, EnrolmentInvariant', token' = token, row' = row, mine' = mine,
           minting' \in {minting, NoAddress}, strayed \subseteq strayed',
           \A c \in Call :
              \/ calls'[c].at \in {"idle", "sent"}
              \/ /\ calls'[c].at = calls[c].at /\ calls'[c].joiner = calls[c].joiner
                 /\ calls'[c].token = calls[c].token /\ calls'[c].known = calls[c].known,
           \A n \in Joiner :
              \/ join'[n] = join[n]
              \/ /\ join'[n].at \in {"idle", "waiting"}
                 /\ join[n].at \in {"idle", "waiting"} \/ n \in strayed',
           \A n \in Joiner : trusts'[n] \in {trusts[n], NoToken}
    PROVE  AddressInvariant'
<1>. USE DEF AddressInvariant
<1>1. \A c \in Call : InTheDoor(c)' => /\ InTheDoor(c) /\ calls'[c].joiner = calls[c].joiner
                                       /\ calls'[c].token = calls[c].token
                                       /\ calls'[c].known = calls[c].known
  BY DEF InTheDoor
<1>2. OneInTheDoor'
  BY <1>1 DEF OneInTheDoor
<1>3. Taken' = Taken
  BY DEF Taken
<1>4. MintsAlone'
  BY <1>1, <1>3 DEF MintsAlone
<1>5. DoorReadsRight'
  BY <1>1 DEF DoorReadsRight
<1>6. MintedHasAddress' /\ PromisedAddressIsFree'
  BY DEF MintedHasAddress, PromisedAddressIsFree
<1>7. RowIsTold'
  <2>1. \A c \in Call : calls'[c].at = "saved" /\ calls'[c].joiner \notin strayed' =>
           calls'[c].known # NoAddress /\ calls'[c].known = row'[calls'[c].joiner]
    BY DEF RowIsTold
  <2>. SUFFICES ASSUME NEW n \in Joiner \ strayed'
                PROVE  /\ join'[n].at \in {"answered", "trusted"} =>
                             join'[n].addr # NoAddress /\ join'[n].addr = row'[n]
                       /\ trusts'[n] # NoToken => row'[n] # NoAddress
                       /\ trusts'[n] # NoToken /\ join'[n].at # "trusted" => mine'[n] = row'[n]
    BY <2>1 DEF RowIsTold
  <2>2. join'[n] = join[n] \/ join[n].at # "trusted"
    OBVIOUS
  <2>. QED
    BY <2>2 DEF RowIsTold
<1>. QED
  BY <1>2, <1>4, <1>5, <1>6, <1>7

(* What a mint reads is nobody's, and nobody is in the door.                 *)
LEMMA AllocateKeepsAddresses ==
    ASSUME Apart, AddressInvariant, EnrolmentInvariant', Allocate
    PROVE  AddressInvariant'
<1>. USE DEF AddressInvariant
<1>1. /\ minting' \in Address \ Taken /\ token' = token /\ row' = row /\ calls' = calls
      /\ join' = join /\ trusts' = trusts /\ mine' = mine /\ strayed' = strayed
      /\ \A c \in Call : ~InTheDoor(c)
  BY DEF Allocate, Quiet
<1>2. Taken' = Taken /\ \A c \in Call : ~InTheDoor(c)'
  BY <1>1 DEF Taken, InTheDoor
<1>. QED
  BY <1>1, <1>2 DEF OneInTheDoor, MintsAlone, DoorReadsRight, MintedHasAddress,
     PromisedAddressIsFree, RowIsTold

(* A token is minted with an address nobody has and no other token stands    *)
(* for.                                                                      *)
LEMMA CreateKeepsAddresses ==
    ASSUME AddressInvariant, EnrolmentInvariant', NEW t \in Token, Create(t)
    PROVE  AddressInvariant'
<1>. DEFINE r == [is |-> "live", addr |-> minting, by |-> NoJoiner]
<1>. USE DEF AddressInvariant, EnrolmentInvariant
<1>1. /\ token' = token \/ token' = [token EXCEPT ![t] = r]
      /\ token[t].is = "unminted" /\ minting # NoAddress /\ minting' = NoAddress
      /\ row' = row /\ calls' = calls /\ join' = join /\ trusts' = trusts
      /\ mine' = mine /\ strayed' = strayed
  BY DEF Create
<1>2. r.is = "live" /\ r.addr = minting
  OBVIOUS
<1>. HIDE DEF r
<1>3. \A u \in Token : token'[u] = token[u] \/ (u = t /\ token'[u] = r)
  BY <1>1 DEF EnrolmentTypeOK
<1>4. /\ \A n \in Joiner : row[n] # minting
      /\ \A u \in Token : token[u].is = "live" => token[u].addr # minting
  BY <1>1 DEF MintsAlone, Taken
<1>5. MintedHasAddress'
  BY <1>1, <1>2, <1>3 DEF MintedHasAddress
<1>6. PromisedAddressIsFree'
  BY <1>1, <1>2, <1>3, <1>4 DEF PromisedAddressIsFree
<1>7. \A c \in Call : ~InTheDoor(c)' /\ ~InTheDoor(c)
  BY <1>1 DEF MintsAlone, InTheDoor
<1>8. OneInTheDoor' /\ MintsAlone' /\ DoorReadsRight'
  BY <1>1, <1>7 DEF OneInTheDoor, MintsAlone, DoorReadsRight
<1>9. RowIsTold'
  BY <1>1 DEF RowIsTold
<1>. QED
  BY <1>5, <1>6, <1>8, <1>9

(* A token is only withdrawn with nobody in the door.                        *)
LEMMA WithdrawKeepsAddresses ==
    ASSUME Apart, AddressInvariant, EnrolmentInvariant', NEW t \in Token, Withdraw(t)
    PROVE  AddressInvariant'
<1>. DEFINE r == [token[t] EXCEPT !.is = "withdrawn"]
<1>. USE DEF AddressInvariant, EnrolmentInvariant
<1>1. /\ token' = [token EXCEPT ![t] = r] /\ minting' = minting /\ minting = NoAddress
      /\ row' = row /\ calls' = calls /\ join' = join /\ trusts' = trusts
      /\ mine' = mine /\ strayed' = strayed /\ token[t].is = "live"
      /\ \A c \in Call : ~InTheDoor(c)
  BY Zenon DEF Withdraw, Quiet
<1>2. token[t] \in Promise
  BY DEF EnrolmentTypeOK
<1>3. r.is = "withdrawn" /\ r.addr = token[t].addr
  BY <1>2 DEF Promise
<1>. HIDE DEF r
<1>4. \A u \in Token : token'[u] = token[u] \/ (u = t /\ token'[u] = r)
  BY <1>1 DEF EnrolmentTypeOK
<1>5. MintedHasAddress' /\ PromisedAddressIsFree'
  BY <1>1, <1>3, <1>4 DEF MintedHasAddress, PromisedAddressIsFree
<1>6. \A c \in Call : ~InTheDoor(c)'
  BY <1>1 DEF InTheDoor
<1>7. OneInTheDoor' /\ MintsAlone' /\ DoorReadsRight'
  BY <1>1, <1>6 DEF OneInTheDoor, MintsAlone, DoorReadsRight
<1>8. RowIsTold'
  BY <1>1 DEF RowIsTold
<1>. QED
  BY <1>5, <1>7, <1>8

(* A node that is forgotten is one to ask nothing of, and is in no door.     *)
LEMMA ForgetKeepsAddresses ==
    ASSUME Apart, AddressInvariant, EnrolmentInvariant', NEW n \in Joiner, Forget(n)
    PROVE  AddressInvariant'
<1>. USE DEF AddressInvariant, EnrolmentInvariant
<1>1. /\ row' = [row EXCEPT ![n] = NoAddress] /\ strayed' = strayed \cup {n}
      /\ token' = token /\ minting' = minting /\ minting = NoAddress /\ calls' = calls
      /\ join' = join /\ trusts' = trusts /\ mine' = mine
      /\ \A c \in Call : ~InTheDoor(c)
  BY DEF Forget, Quiet
<1>2. /\ \A m \in Joiner : m \notin strayed' => row'[m] = row[m] /\ m \notin strayed
      /\ \A m \in Joiner : row'[m] \in {row[m], NoAddress}
  BY <1>1 DEF EnrolmentTypeOK
<1>3. \A c \in Call : ~InTheDoor(c)'
  BY <1>1 DEF InTheDoor
<1>4. OneInTheDoor' /\ MintsAlone' /\ DoorReadsRight'
  BY <1>1, <1>3 DEF OneInTheDoor, MintsAlone, DoorReadsRight
<1>5. MintedHasAddress' /\ PromisedAddressIsFree'
  BY <1>1, <1>2 DEF MintedHasAddress, PromisedAddressIsFree
<1>6. RowIsTold'
  <2>1. \A c \in Call : calls[c].at = "saved" => calls[c].joiner \in Joiner
    BY DEF CallsAreSomebodys
  <2>. QED
    BY <1>1, <1>2, <2>1 DEF RowIsTold
<1>. QED
  BY <1>4, <1>5, <1>6

(* Whoever comes in reads a token that stands and the row that is there.     *)
LEMMA DoorLooksKeepsAddresses ==
    ASSUME Apart, AddressInvariant, EnrolmentInvariant', NEW c \in Call,
           calls[c].at = "sent", Quiet, token[calls[c].token].is = "live",
           calls' = [calls EXCEPT ![c].at = "looked", ![c].known = row[calls[c].joiner]],
           UNCHANGED <<token, minting, row, join, trusts, mine, strayed>>
    PROVE  AddressInvariant'
<1>. DEFINE k == [calls[c] EXCEPT !.at = "looked", !.known = row[calls[c].joiner]]
<1>. USE DEF AddressInvariant, EnrolmentInvariant
<1>1. calls' = [calls EXCEPT ![c] = k]
  BY Zenon
<1>2. calls[c] \in Calling
  BY DEF EnrolmentTypeOK
<1>3. /\ k.at = "looked" /\ k.joiner = calls[c].joiner /\ k.token = calls[c].token
      /\ k.known = row[calls[c].joiner]
  BY <1>2 DEF Calling
<1>. HIDE DEF k
<1>4. calls'[c] = k /\ \A d \in Call \ {c} : calls'[d] = calls[d]
  BY <1>1 DEF EnrolmentTypeOK
<1>5. minting = NoAddress /\ \A d \in Call \ {c} : ~InTheDoor(d)'
  BY <1>4 DEF Quiet, InTheDoor
<1>6. OneInTheDoor' /\ MintsAlone'
  BY <1>5 DEF OneInTheDoor, MintsAlone
<1>7. DoorReadsRight'
  BY <1>3, <1>4, <1>5 DEF DoorReadsRight
<1>8. MintedHasAddress' /\ PromisedAddressIsFree'
  BY DEF MintedHasAddress, PromisedAddressIsFree
<1>9. RowIsTold'
  <2>1. \A d \in Call : calls'[d].at = "saved" => calls'[d] = calls[d]
    BY <1>3, <1>4
  <2>2. row' = row /\ join' = join /\ trusts' = trusts /\ mine' = mine /\ strayed' = strayed
    OBVIOUS
  <2>. QED
    BY <2>1, <2>2 DEF RowIsTold
<1>. QED
  BY <1>6, <1>7, <1>8, <1>9

(* A token that is spent stands for its node, and still for one address.     *)
LEMMA DoorSpendsKeepsAddresses ==
    ASSUME AddressInvariant, EnrolmentInvariant', NEW c \in Call, calls[c].at = "looked",
           token' = [token EXCEPT ![calls[c].token].by = calls[c].joiner],
           calls' = [calls EXCEPT ![c].at = "spent"],
           UNCHANGED <<join, minting, row, trusts, mine, strayed>>
    PROVE  AddressInvariant'
<1>. DEFINE t == calls[c].token
            n == calls[c].joiner
            k == [calls[c] EXCEPT !.at = "spent"]
            r == [token[t] EXCEPT !.by = n]
<1>. USE DEF AddressInvariant, EnrolmentInvariant
<1>1. calls' = [calls EXCEPT ![c] = k] /\ token' = [token EXCEPT ![t] = r]
  BY Zenon
<1>2. t \in Token /\ n \in Joiner
  BY DEF CallsAreSomebodys
<1>3. calls[c] \in Calling /\ token[t] \in Promise
  BY <1>2 DEF EnrolmentTypeOK
<1>4. k.at = "spent" /\ k.joiner = n /\ k.token = t /\ k.known = calls[c].known
  BY <1>3 DEF Calling
<1>5. r.is = token[t].is /\ r.addr = token[t].addr /\ r.by = n
  BY <1>3 DEF Promise
<1>. HIDE DEF k, r
<1>6. calls'[c] = k /\ \A d \in Call \ {c} : calls'[d] = calls[d]
  BY <1>1 DEF EnrolmentTypeOK
<1>7. \A u \in Token : /\ token'[u].is = token[u].is /\ token'[u].addr = token[u].addr
                       /\ token'[u].by = token[u].by \/ token'[u].by # NoJoiner
  BY <1>1, <1>2, <1>5, EnrolmentAssumption DEF EnrolmentTypeOK
<1>8. InTheDoor(c)
  BY DEF InTheDoor
<1>9. minting' = NoAddress /\ \A d \in Call \ {c} : ~InTheDoor(d)'
  BY <1>6, <1>8, DoorIsAlone DEF InTheDoor
<1>10. OneInTheDoor' /\ MintsAlone'
  BY <1>9 DEF OneInTheDoor, MintsAlone
<1>11. DoorReadsRight'
  BY <1>2, <1>4, <1>6, <1>7, <1>8, <1>9 DEF DoorReadsRight
<1>12. MintedHasAddress' /\ PromisedAddressIsFree'
  BY <1>7 DEF MintedHasAddress, PromisedAddressIsFree
<1>13. RowIsTold'
  BY <1>4, <1>6 DEF RowIsTold
<1>. QED
  BY <1>10, <1>11, <1>12, <1>13

(* The row is the token's address, which no other token promises, or stays.  *)
LEMMA DoorSavesKeepsAddresses ==
    ASSUME AddressInvariant, EnrolmentInvariant', NEW c \in Call, calls[c].at = "spent",
           row' = [row EXCEPT ![calls[c].joiner] = AddressFor(c)],
           calls' = [calls EXCEPT ![c].at = "saved", ![c].known = AddressFor(c)],
           UNCHANGED <<token, minting, join, trusts, mine, strayed>>
    PROVE  AddressInvariant'
<1>. DEFINE t == calls[c].token
            n == calls[c].joiner
            a == AddressFor(c)
            k == [calls[c] EXCEPT !.at = "saved", !.known = a]
<1>. USE DEF AddressInvariant, EnrolmentInvariant
<1>1. calls' = [calls EXCEPT ![c] = k]
  BY Zenon
<1>2. t \in Token /\ n \in Joiner /\ token[t].by = n /\ calls[c] \in Calling
  BY DEF CallsAreSomebodys, SpentByCaller, EnrolmentTypeOK
<1>3. InTheDoor(c)
  BY DEF InTheDoor
<1>4. token[t].is = "live" /\ calls[c].known = row[n] /\ token[t].addr # NoAddress
  BY <1>2, <1>3 DEF DoorReadsRight, MintedHasAddress
<1>5. /\ a # NoAddress /\ (row[n] # NoAddress => a = row[n])
      /\ (row[n] = NoAddress => a = token[t].addr)
  BY <1>4 DEF AddressFor
<1>. HIDE DEF a
<1>6. k.at = "saved" /\ k.joiner = n /\ k.token = t /\ k.known = a
  BY <1>2 DEF Calling
<1>. HIDE DEF k
<1>7. calls'[c] = k /\ \A d \in Call \ {c} : calls'[d] = calls[d]
  BY <1>1 DEF EnrolmentTypeOK
<1>8. row'[n] = a /\ \A m \in Joiner \ {n} : row'[m] = row[m]
  BY <1>2 DEF EnrolmentTypeOK, a
<1>9. minting' = NoAddress /\ \A d \in Call : ~InTheDoor(d)'
  BY <1>3, <1>6, <1>7, DoorIsAlone DEF InTheDoor
<1>10. OneInTheDoor' /\ MintsAlone' /\ DoorReadsRight'
  BY <1>9 DEF OneInTheDoor, MintsAlone, DoorReadsRight
<1>11. MintedHasAddress'
  BY DEF MintedHasAddress
<1>12. PromisedAddressIsFree'
  <2>. SUFFICES ASSUME NEW u \in Token, token[u].is = "live", token[u].by = NoJoiner
                PROVE  row'[n] # token[u].addr
    BY <1>8 DEF PromisedAddressIsFree
  <2>1. u # t
    BY <1>2, EnrolmentAssumption
  <2>. QED
    BY <1>2, <1>4, <1>5, <1>8, <2>1 DEF PromisedAddressIsFree
<1>13. RowIsTold'
  <2>1. \A d \in Call : calls'[d].at = "saved" /\ calls'[d].joiner \notin strayed =>
           calls'[d].known # NoAddress /\ calls'[d].known = row'[calls'[d].joiner]
    <3>. SUFFICES ASSUME NEW d \in Call, d # c,
                         calls[d].at = "saved", calls[d].joiner \notin strayed
                  PROVE  calls[d].known # NoAddress /\ calls[d].known = row'[calls[d].joiner]
      <4>1. calls'[c].known # NoAddress /\ calls'[c].known = row'[calls'[c].joiner]
        BY <1>5, <1>6, <1>7, <1>8
      <4>. QED
        BY <1>7, <4>1
    <3>1. calls[d].joiner \in Joiner
      BY DEF CallsAreSomebodys
    <3>. QED
      BY <1>5, <1>8, <3>1 DEF RowIsTold
  <2>2. \A m \in Joiner : row[m] # NoAddress => row'[m] = row[m]
    BY <1>5, <1>8
  <2>. QED
    BY <2>1, <2>2 DEF RowIsTold
<1>. QED
  BY <1>10, <1>11, <1>12, <1>13

(* What is answered is what the row says.                                    *)
LEMMA DoorAnswersKeepsAddresses ==
    ASSUME AddressInvariant, EnrolmentInvariant', NEW c \in Call, DoorAnswers(c)
    PROVE  AddressInvariant'
<1>. DEFINE n == calls[c].joiner
            j == [join[n] EXCEPT !.at = "answered", !.addr = calls[c].known]
<1>. USE DEF AddressInvariant, EnrolmentInvariant
<1>1. /\ calls[c].at = "saved" /\ calls' = [calls EXCEPT ![c] = NoCall]
      /\ token' = token /\ minting' = minting /\ row' = row /\ trusts' = trusts
      /\ mine' = mine /\ strayed' = strayed
  BY DEF DoorAnswers
<1>2. n \in Joiner
  BY <1>1 DEF CallsAreSomebodys
<1>3. calls'[c].at = "idle" /\ \A d \in Call \ {c} : calls'[d] = calls[d]
  BY <1>1, RestTypes DEF EnrolmentTypeOK
<1>4. CASE calls[c].late
  <2>1. join' = join
    BY <1>4 DEF DoorAnswers
  <2>. HIDE DEF AddressInvariant, EnrolmentInvariant
  <2>. QED
    BY <1>1, <1>3, <2>1, NothingToldKeeps
<1>5. CASE ~calls[c].late
  <2>1. join' = [join EXCEPT ![n] = j]
    BY <1>5, Zenon DEF DoorAnswers
  <2>2. join[n] \in Joining
    BY <1>2 DEF EnrolmentTypeOK
  <2>3. j.at = "answered" /\ j.addr = calls[c].known
    BY <2>2 DEF Joining
  <2>. HIDE DEF j
  <2>4. join'[n] = j /\ \A m \in Joiner \ {n} : join'[m] = join[m]
    BY <1>2, <2>1 DEF EnrolmentTypeOK
  <2>5. join[n].at = "waiting"
    BY <1>1, <1>5 DEF StillAwaited
  <2>6. \A d \in Call : InTheDoor(d)' => InTheDoor(d) /\ calls'[d] = calls[d]
    BY <1>3 DEF InTheDoor
  <2>7. OneInTheDoor' /\ DoorReadsRight'
    BY <1>1, <2>6 DEF OneInTheDoor, DoorReadsRight
  <2>8. MintsAlone'
    BY <1>1, <2>6 DEF MintsAlone, Taken
  <2>9. MintedHasAddress' /\ PromisedAddressIsFree'
    BY <1>1 DEF MintedHasAddress, PromisedAddressIsFree
  <2>10. RowIsTold'
    BY <1>1, <1>2, <1>3, <2>3, <2>4, <2>5 DEF RowIsTold
  <2>. QED
    BY <2>7, <2>8, <2>9, <2>10
<1>. QED
  BY <1>4, <1>5

(* A node takes for its own what it was told.                                *)
LEMMA TrustKeepsAddresses ==
    ASSUME AddressInvariant, EnrolmentInvariant', NEW n \in Joiner, Trust(n) \/ SaveMyself(n)
    PROVE  AddressInvariant'
<1>. USE DEF AddressInvariant, EnrolmentInvariant
<1>1. /\ token' = token /\ minting' = minting /\ row' = row /\ calls' = calls
      /\ strayed' = strayed
      /\ \A m \in Joiner \ {n} : /\ join'[m] = join[m] /\ trusts'[m] = trusts[m]
                                 /\ mine'[m] = mine[m]
  BY DEF Trust, SaveMyself, there, EnrolmentTypeOK
<1>2. OneInTheDoor' /\ DoorReadsRight' /\ MintsAlone'
  BY <1>1 DEF OneInTheDoor, DoorReadsRight, MintsAlone, InTheDoor, Taken
<1>3. MintedHasAddress' /\ PromisedAddressIsFree'
  BY <1>1 DEF MintedHasAddress, PromisedAddressIsFree
<1>4. CASE Trust(n)
  <2>. DEFINE j == [join[n] EXCEPT !.at = "trusted"]
  <2>1. join[n].at = "answered" /\ join' = [join EXCEPT ![n] = j] /\ mine' = mine
    BY <1>4, Zenon DEF Trust
  <2>2. join[n] \in Joining
    BY DEF EnrolmentTypeOK
  <2>3. j.at = "trusted" /\ j.addr = join[n].addr
    BY <2>2 DEF Joining
  <2>. HIDE DEF j
  <2>4. join'[n] = j
    BY <2>1 DEF EnrolmentTypeOK
  <2>5. RowIsTold'
    BY <1>1, <2>1, <2>3, <2>4 DEF RowIsTold
  <2>. QED
    BY <1>2, <1>3, <2>5
<1>5. CASE SaveMyself(n)
  <2>1. /\ join[n].at = "trusted" /\ join'[n].at = "idle" /\ mine'[n] = join[n].addr
        /\ trusts' = trusts
    BY <1>5, RestTypes DEF SaveMyself, EnrolmentTypeOK
  <2>2. RowIsTold'
    BY <1>1, <2>1 DEF RowIsTold
  <2>. QED
    BY <1>2, <1>3, <2>2
<1>. QED
  BY <1>4, <1>5

(* Whoever is refused waited, and is told no address.                        *)
LEMMA RefusesKeepsAddresses ==
    ASSUME AddressInvariant, EnrolmentInvariant', NEW c \in Call, calls[c].at # "idle", Refuses(c),
           UNCHANGED <<token, minting, row, trusts, mine, strayed>>
    PROVE  AddressInvariant'
<1>1. \A d \in Call : calls'[d].at = "idle" \/ calls'[d] = calls[d]
  BY RestTypes DEF Refuses, AddressInvariant, EnrolmentInvariant, EnrolmentTypeOK
<1>2. \A n \in Joiner : join'[n] = join[n] \/ (join[n].at = "waiting" /\ join'[n].at = "idle")
  <2>1. ~calls[c].late => join[calls[c].joiner].at = "waiting" /\ calls[c].joiner \in Joiner
    BY DEF AddressInvariant, EnrolmentInvariant, StillAwaited, CallsAreSomebodys
  <2>. QED
    BY <2>1, RestTypes DEF Refuses, AddressInvariant, EnrolmentInvariant, EnrolmentTypeOK
<1>. QED
  BY <1>1, <1>2, NothingToldKeeps

(* What happens in the door.                                                 *)
LEMMA DoorKeepsAddresses ==
    ASSUME Apart, AddressInvariant, EnrolmentInvariant', NEW c \in Call, AtTheDoor(c)
    PROVE  AddressInvariant'
<1>1. CASE DoorLooks(c)
  BY <1>1, RefusesKeepsAddresses, DoorLooksKeepsAddresses DEF DoorLooks
<1>2. CASE DoorSpends(c)
  BY <1>2, RefusesKeepsAddresses, DoorSpendsKeepsAddresses DEF DoorSpends
<1>3. CASE DoorSaves(c)
  BY <1>3, RefusesKeepsAddresses, DoorSavesKeepsAddresses DEF DoorSaves
<1>4. CASE CallLost(c)
  <2>1. \A d \in Call : calls'[d].at = "idle" \/ calls'[d] = calls[d]
    BY <1>4, RestTypes DEF CallLost, AddressInvariant, EnrolmentInvariant, EnrolmentTypeOK
  <2>. QED
    BY <1>4, <2>1, NothingToldKeeps DEF CallLost
<1>. QED
  BY <1>1, <1>2, <1>3, <1>4, DoorAnswersKeepsAddresses DEF AtTheDoor

(* What a node does on its own.                                              *)
LEMMA JoiningKeepsAddresses ==
    ASSUME AddressInvariant, EnrolmentInvariant', NEW n \in Joiner, JoiningStep(n)
    PROVE  AddressInvariant'
<1>. USE DEF AddressInvariant, EnrolmentInvariant
<1>0. EnrolmentTypeOK /\ \A c \in Call : calls[c] \in Calling
  BY DEF EnrolmentTypeOK
<1>1. ASSUME NEW t \in Token, NEW c \in Call, Announce(n, t, c) PROVE AddressInvariant'
  <2>1. \A d \in Call : calls'[d].at = "sent" \/ calls'[d] = calls[d]
    BY <1>0, <1>1 DEF Announce, EnrolmentTypeOK
  <2>2. \A m \in Joiner : join'[m] = join[m] \/ (join'[m].at = "waiting" /\ join[m].at = "idle")
    BY <1>0, <1>1 DEF Announce, EnrolmentTypeOK
  <2>3. AddressInvariant
    OBVIOUS
  <2>. HIDE DEF AddressInvariant, EnrolmentInvariant
  <2>. QED
    BY <1>1, <2>1, <2>2, <2>3, NothingToldKeeps DEF Announce
<1>2. ASSUME calls' = GivesUpOn(n), join' = [join EXCEPT ![n] = AtRest],
             join[n].at \in {"answered", "trusted"} => n \in strayed', strayed \subseteq strayed',
             UNCHANGED <<token, minting, row, trusts, mine>>
      PROVE  AddressInvariant'
  <2>1. \A d \in Call : /\ calls'[d].at = calls[d].at /\ calls'[d].joiner = calls[d].joiner
                        /\ calls'[d].token = calls[d].token /\ calls'[d].known = calls[d].known
    BY <1>0, <1>2 DEF GivesUpOn, Calling
  <2>2. \A m \in Joiner : \/ join'[m] = join[m]
                          \/ /\ join'[m].at = "idle"
                             /\ join[m].at \in {"idle", "waiting"} \/ m \in strayed'
    BY <1>0, <1>2, RestTypes DEF EnrolmentTypeOK, Joining
  <2>3. AddressInvariant
    OBVIOUS
  <2>. HIDE DEF AddressInvariant, EnrolmentInvariant
  <2>. QED
    BY <1>2, <2>1, <2>2, <2>3, NothingToldKeeps
<1>3. CASE RevokeAuthority(n)
  <2>1. \A m \in Joiner : trusts'[m] \in {trusts[m], NoToken}
    BY <1>0, <1>3 DEF RevokeAuthority, EnrolmentTypeOK
  <2>2. AddressInvariant
    OBVIOUS
  <2>. HIDE DEF AddressInvariant, EnrolmentInvariant
  <2>. QED
    BY <1>3, <2>1, <2>2, NothingToldKeeps DEF RevokeAuthority, there
<1>. HIDE DEF AddressInvariant, EnrolmentInvariant
<1>4. CASE AnnounceTimesOut(n)
  BY <1>2, <1>4 DEF AnnounceTimesOut
<1>5. CASE NodeStops(n)
  BY <1>2, <1>5 DEF NodeStops
<1>. QED
  BY <1>1, <1>3, <1>4, <1>5, TrustKeepsAddresses DEF JoiningStep

(* Every step keeps what is promised and what is told apart.                 *)
LEMMA AddressesKeep ==
    ASSUME Apart, AddressInvariant, [EnrolmentNext]_enrolment
    PROVE  AddressInvariant'
<1>1. EnrolmentInvariant /\ EnrolmentInvariant'
  BY EnrolmentKeeps DEF AddressInvariant
<1>2. CASE UNCHANGED enrolment
  BY <1>1, <1>2, NothingToldKeeps DEF enrolment, there
<1>3. CASE Operates
  <2>1. CASE AuthorityStops
    <3>1. \A c \in Call : calls'[c].at = "idle"
      BY <2>1, RestTypes DEF AuthorityStops
    <3>. QED
      BY <1>1, <2>1, <3>1, NothingToldKeeps DEF AuthorityStops
  <2>. QED
    BY <1>1, <1>3, <2>1, AllocateKeepsAddresses, CreateKeepsAddresses, WithdrawKeepsAddresses,
       ForgetKeepsAddresses DEF Operates
<1>. QED
  BY <1>1, <1>2, <1>3, DoorKeepsAddresses, JoiningKeepsAddresses DEF EnrolmentNext

(* The inductive invariant of the addresses.                                 *)
THEOREM AddressesHold == ASSUME Apart PROVE EnrolmentSpec => []AddressInvariant
<1>1. EnrolmentInit => AddressInvariant
  BY AddressesStartRight
<1>2. AddressInvariant /\ [EnrolmentNext]_enrolment => AddressInvariant'
  BY AddressesKeep
<1>. QED
  BY <1>1, <1>2, PTL DEF EnrolmentSpec

(* An address in a token somebody still carries is nobody's, and in no other *)
(* token that stands, where calls and mints reach the door one at a time.    *)
THEOREM PromisesAreFree == ASSUME Apart PROVE EnrolmentSpec => []PromisedAddressIsFree
<1>1. AddressInvariant => PromisedAddressIsFree
  BY DEF AddressInvariant
<1>. QED
  BY <1>1, AddressesHold, PTL

(* Once its join is over a node has the address its authority has for it,    *)
(* however often it joined and whatever answers it missed.                   *)
THEOREM AddressesAgree == ASSUME Apart PROVE EnrolmentSpec => []AddressAgreed
<1>1. AddressInvariant => AddressAgreed
  BY DEF AddressInvariant, RowIsTold, AddressAgreed
<1>. QED
  BY <1>1, AddressesHold, PTL

------------------------------------------------------------------------------
(* Certificates: between its passes the listener serves what is stored under *)
(* every name that is not a database's, for any choices, any lifetime and    *)
(* any number of changes, orders that fail and stops.                        *)

(* The listener is behind only between a write of the loop and the reload    *)
(* that follows it, and the pass over the databases writes under their names *)
(* alone.                                                                    *)
ListenerFollows ==
    loop.at \notin {"swap", "pruned"} =>
        \A n \in Name \ Managed : served[n] = stored[n]

ListenerInvariant == CertificatesTypeOK /\ ListenerFollows

(* The loop between passes, and a handler at rest, are of the kinds there    *)
(* are.                                                                      *)
LEMMA IdleIsTyped == Unread \in Looping /\ Idle \in Handing
BY DEF Unread, Between, Idle, Looping, Handing

(* A step that leaves the name it was about.                                 *)
LEMMA BetweenIsTyped ==
    ASSUME NEW at \in {"rest", "names", "policy", "prune", "pruned"}, NEW todo \in SUBSET Name
    PROVE  Between(at, todo) \in Looping /\ Between(at, todo).at = at
BY DEF Between, Looping

(* What the node signs itself is a certificate.                              *)
LEMMA SignedIsTyped ==
    ASSUME CertificatesTypeOK
    PROVE  /\ Signed \in Cert
           /\ clock + Lasts \in Until
           /\ \A names \in SUBSET Name : CoverOf(names) \in Cover
<1>1. clock + Lasts \in Until
  BY CertificatesAssumption DEF CertificatesTypeOK, Until
<1>. QED
  BY <1>1 DEF CertificatesTypeOK, Signed, Cert, Cover, CoverOf

(* At the start everything is where it was left, and the listener has none.  *)
LEMMA InitHolds ==
    ASSUME CertificatesInit PROVE ListenerInvariant
<1>1. Lasts \in Until /\ 0 \in 0 .. MaxClock
  BY CertificatesAssumption DEF Until
<1>2. cover \in Cover /\ shown \in Cover
  BY <1>1 DEF CertificatesInit, Cover
<1>3. 0 \in 0 .. MaxChanges
  BY CertificatesAssumption
<1>4. loop \in Looping /\ hand \in Handing /\ loop.at \notin AboutOne /\ hand.at = "rest"
  BY IdleIsTyped DEF CertificatesInit, Unread, Between, Idle, AboutOne
<1>. QED
  BY <1>1, <1>2, <1>3, <1>4
     DEF CertificatesInit, ListenerInvariant, CertificatesTypeOK, ListenerFollows

------------------------------------------------------------------------------
(* The loop                                                                  *)

(* Every step of the loop keeps the listener at what was stored.             *)
LEMMA LoopHolds ==
    ASSUME ListenerInvariant, Loop PROVE ListenerInvariant'
<1>. USE DEF ListenerInvariant
<1>1. CASE RefreshLocal
  <2>1. cover' \in Cover
    BY <1>1, SignedIsTyped DEF RefreshLocal, CertificatesTypeOK
  <2>2. loop' \in Looping /\ loop'.at = "names"
    BY <1>1, IdleIsTyped DEF RefreshLocal, Unread, Between, Looping
  <2>. QED
    BY <1>1, <2>1, <2>2
       DEF RefreshLocal, CertificatesTypeOK, ListenerFollows, AboutOne, listener
<1>2. CASE ReadNames
  <2>1. loop' \in Looping /\ loop'.at \in {"rest", "policy"}
    <3>1. CASE acme
      <4>1. loop' = Between("policy", wanted)
        BY <1>2, <3>1 DEF ReadNames
      <4>2. wanted \in SUBSET Name
        BY DEF CertificatesTypeOK
      <4>. QED
        BY <4>1, <4>2, BetweenIsTyped
    <3>2. CASE ~acme
      <4>1. loop' = Unread
        BY <1>2, <3>2 DEF ReadNames, PassEnds
      <4>. QED
        BY <4>1, IdleIsTyped DEF Unread, Between
    <3>. QED
      BY <3>1, <3>2
  <2>2. passes' \in 0 .. 2
    BY <1>2 DEF ReadNames, PassEnds, CertificatesTypeOK
  <2>. QED
    BY <1>2, <2>1, <2>2
       DEF ReadNames, CertificatesTypeOK, ListenerFollows, AboutOne, listener
<1>3. ASSUME NEW n \in Name, ReadPolicy(n) PROVE ListenerInvariant'
  <2>1. RenewWith(n) \in {"self", "file", "acme"}
    BY DEF RenewWith, Default, CertificatesTypeOK
  <2>2. loop' \in Looping /\ (loop'.at \in AboutOne => loop'.name \in Name)
        /\ loop'.at \notin {"swap", "pruned"}
    BY <1>3, <2>1 DEF ReadPolicy, Looping, AboutOne, CertificatesTypeOK
  <2>3. loop.at \notin {"swap", "pruned"} /\ UNCHANGED <<stored, served>>
    BY <1>3 DEF ReadPolicy, listener
  <2>4. ListenerFollows'
    BY <2>3 DEF ListenerFollows
  <2>. QED
    BY <1>3, <2>2, <2>4 DEF ReadPolicy, CertificatesTypeOK, listener
<1>4. CASE Ensure
  <2>1. loop' \in Looping /\ (loop'.at \in AboutOne => loop'.name \in Name)
        /\ loop'.at \notin {"swap", "pruned"}
    BY <1>4, IdleIsTyped
       DEF Ensure, NextName, Unread, Between, Looping, AboutOne, CertificatesTypeOK
  <2>. QED
    BY <1>4, <2>1 DEF Ensure, CertificatesTypeOK, ListenerFollows, listener
<1>5. ASSUME NEW signed \in BOOLEAN, Obtain(signed) PROVE ListenerInvariant'
  <2>1. loop' \in Looping /\ (loop'.at \in AboutOne => loop'.name \in Name)
        /\ (loop'.at \notin {"swap", "pruned"} => ~signed)
    BY <1>5, IdleIsTyped
       DEF Obtain, NextName, Unread, Between, Looping, AboutOne, CertificatesTypeOK
  <2>2. stored' \in [Name -> Cert \cup {NoCert}]
    BY <1>5, SignedIsTyped DEF Obtain, Cert, CertificatesTypeOK
  <2>3. ~signed => stored' = stored
    BY <1>5 DEF Obtain
  <2>4. loop.at \notin {"swap", "pruned"}
    BY <1>5 DEF Obtain
  <2>. QED
    BY <1>5, <2>1, <2>2, <2>3, <2>4 DEF Obtain, CertificatesTypeOK, ListenerFollows, listener
<1>6. CASE ReadFile
  <2>1. loop.name \in Name /\ file[loop.name] \in Until
    BY <1>6 DEF ReadFile, CertificatesTypeOK, AboutOne
  <2>2. [from |-> "file", until |-> file[loop.name]] \in Cert
    BY <2>1 DEF Cert
  <2>3. loop' \in Looping /\ loop'.at \in {"install", "floor"} /\ loop'.name = loop.name
    BY <1>6, <2>2 DEF ReadFile, Looping, AboutOne, CertificatesTypeOK
  <2>. QED
    BY <1>6, <2>1, <2>3 DEF ReadFile, CertificatesTypeOK, ListenerFollows, AboutOne, listener
<1>7. CASE InstallFile
  <2>1. loop' \in Looping /\ loop'.at = "swap" /\ loop.found \in Cert \cup {NoCert}
        /\ loop'.name \in Name
    BY <1>7 DEF InstallFile, Looping, AboutOne, CertificatesTypeOK
  <2>. QED
    BY <1>7, <2>1 DEF InstallFile, CertificatesTypeOK, ListenerFollows, AboutOne, listener
<1>8. CASE Swap
  <2>1. loop' \in Looping /\ loop'.at \in {"floor", "policy"}
        /\ (loop'.at = "floor" => loop'.name \in Name)
    BY <1>8, IdleIsTyped DEF Swap, NextName, Unread, Between, Looping, AboutOne, CertificatesTypeOK
  <2>. QED
    BY <1>8, <2>1 DEF Swap, Replaced, CertificatesTypeOK, ListenerFollows, AboutOne
<1>9. CASE HoldTheFloor
  <2>1. stored' \in [Name -> Cert \cup {NoCert}]
    BY <1>9, SignedIsTyped DEF HoldTheFloor, CertificatesTypeOK
  <2>2. loop' \in Looping /\ loop'.at \in {"policy", "swap"}
        /\ (loop'.at # "swap" => stored' = stored)
        /\ (loop'.at = "swap" => loop'.name \in Name)
    BY <1>9, IdleIsTyped
       DEF HoldTheFloor, NextName, Unread, Between, Looping, AboutOne, CertificatesTypeOK
  <2>3. loop.at = "floor"
    BY <1>9 DEF HoldTheFloor
  <2>. QED
    BY <1>9, <2>1, <2>2, <2>3
       DEF HoldTheFloor, CertificatesTypeOK, ListenerFollows, AboutOne, listener
<1>10. CASE ReadStale
  <2>0. Stale \in SUBSET Name
    BY DEF Stale
  <2>1. loop' \in Looping /\ loop'.at \in {"rest", "prune"}
    <3>1. CASE Stale = {}
      <4>1. loop' = Unread
        BY <1>10, <3>1 DEF ReadStale, PassEnds
      <4>. QED
        BY <4>1, IdleIsTyped DEF Unread, Between
    <3>2. CASE Stale # {}
      <4>1. loop' = Between("prune", Stale)
        BY <1>10, <3>2 DEF ReadStale
      <4>. QED
        BY <4>1, <2>0, BetweenIsTyped
    <3>. QED
      BY <3>1, <3>2
  <2>2. passes' \in 0 .. 2
    BY <1>10 DEF ReadStale, PassEnds, CertificatesTypeOK
  <2>. QED
    BY <1>10, <2>1, <2>2 DEF ReadStale, CertificatesTypeOK, ListenerFollows, AboutOne, listener
<1>11. CASE Prune
  <2>1. loop' \in Looping /\ loop'.at = "pruned"
    BY <1>11, IdleIsTyped DEF Prune, Unread, Between, Looping
  <2>2. stored' \in [Name -> Cert \cup {NoCert}]
    BY <1>11 DEF Prune, CertificatesTypeOK
  <2>. QED
    BY <1>11, <2>1, <2>2 DEF Prune, CertificatesTypeOK, ListenerFollows, AboutOne, listener
<1>12. CASE SwapPruned
  <2>1. loop' \in Looping /\ loop'.at = "rest" /\ passes' \in 0 .. 2
    BY <1>12, IdleIsTyped DEF SwapPruned, PassEnds, Unread, Between, Looping, CertificatesTypeOK
  <2>. QED
    BY <1>12, <2>1 DEF SwapPruned, Replaced, CertificatesTypeOK, ListenerFollows, AboutOne
<1>. QED
  BY <1>1, <1>2, <1>3, <1>4, <1>5, <1>6, <1>7, <1>8, <1>9, <1>10, <1>11, <1>12 DEF Loop

------------------------------------------------------------------------------
(* The pass over the databases, and what happens to both                     *)

(* So does the pass over the databases, whose names are not the loop's.      *)
LEMMA HandHolds ==
    ASSUME ListenerInvariant, Hand PROVE ListenerInvariant'
<1>. USE DEF ListenerInvariant
<1>1. ASSUME NEW d \in Managed, Look(d) PROVE ListenerInvariant'
  <2>1. stored[d] \in Cert \cup {NoCert}
    BY CertificatesAssumption DEF CertificatesTypeOK
  <2>2. hand' \in Handing /\ hand'.name \in Managed
    BY <1>1, <2>1 DEF Look, Handing
  <2>. QED
    BY <1>1, <2>2 DEF Look, CertificatesTypeOK, ListenerFollows, listener
<1>2. CASE SignForDatabase
  <2>1. hand.name \in Managed /\ hand.name \in Name
    BY <1>2, CertificatesAssumption DEF SignForDatabase, CertificatesTypeOK
  <2>2. stored' \in [Name -> Cert \cup {NoCert}]
    BY <1>2, SignedIsTyped DEF SignForDatabase, CertificatesTypeOK
  <2>3. \A n \in Name \ Managed : stored'[n] = stored[n]
    BY <1>2, <2>1 DEF SignForDatabase, CertificatesTypeOK
  <2>4. hand' \in Handing /\ hand'.name \in Managed
    BY <1>2, <2>1, <2>2 DEF SignForDatabase, Handing, CertificatesTypeOK
  <2>. QED
    BY <1>2, <2>2, <2>3, <2>4
       DEF SignForDatabase, CertificatesTypeOK, ListenerFollows, listener
<1>3. CASE HandOverCertificate
  <2>1. hand.name \in Managed /\ hand.found \in Cert \cup {NoCert}
    BY <1>3 DEF HandOverCertificate, CertificatesTypeOK, Handing
  <2>2. hand' \in Handing /\ hand'.at = "rest"
    BY <1>3, IdleIsTyped DEF HandOverCertificate, Idle
  <2>. QED
    BY <1>3, <2>1, <2>2
       DEF HandOverCertificate, CertificatesTypeOK, ListenerFollows, listener
<1>. QED
  BY <1>1, <1>2, <1>3 DEF Hand

(* And so does whatever is chosen, changed or stopped around them.           *)
LEMMA AroundHolds ==
    ASSUME ListenerInvariant,
           \/ SetAcme \/ Restart \/ Tick
           \/ \E n \in Name :
                 \/ SetWanted(n)
                 \/ \E with \in Choices : StoreSource(n, with)
                 \/ \E good \in BOOLEAN : WriteFile(n, good)
    PROVE  ListenerInvariant'
<1>. USE DEF ListenerInvariant
<1>1. Changing => changes' \in 0 .. MaxChanges /\ passes' \in 0 .. 2
  BY CertificatesAssumption DEF Changing, CertificatesTypeOK
<1>2. CASE SetAcme
  BY <1>1, <1>2 DEF SetAcme, CertificatesTypeOK, ListenerFollows, listener
<1>3. CASE Restart
  <2>1. cover' \in Cover
    BY <1>3, SignedIsTyped DEF Restart
  <2>2. loop' \in Looping /\ hand' \in Handing /\ loop'.at = "rest" /\ hand'.at = "rest"
    BY <1>3, IdleIsTyped DEF Restart, Unread, Between, Idle
  <2>. QED
    BY <1>1, <1>3, <2>1, <2>2 DEF Restart, CertificatesTypeOK, ListenerFollows, AboutOne
<1>4. CASE Tick
  <2>1. clock' \in 0 .. MaxClock
    BY <1>4, CertificatesAssumption DEF Tick, CertificatesTypeOK
  <2>. QED
    BY <1>4, <2>1 DEF Tick, CertificatesTypeOK, ListenerFollows, listener
<1>5. ASSUME NEW n \in Name, SetWanted(n) PROVE ListenerInvariant'
  BY <1>1, <1>5 DEF SetWanted, CertificatesTypeOK, ListenerFollows, listener
<1>6. ASSUME NEW n \in Name, NEW with \in Choices, StoreSource(n, with)
      PROVE  ListenerInvariant'
  <2>1. choice' \in [Name -> {"none", "self", "file", "acme"}]
    BY <1>6, CertificatesAssumption DEF StoreSource, CertificatesTypeOK
  <2>. QED
    BY <1>1, <1>6, <2>1 DEF StoreSource, CertificatesTypeOK, ListenerFollows, listener
<1>7. ASSUME NEW n \in Name, NEW good \in BOOLEAN, WriteFile(n, good)
      PROVE  ListenerInvariant'
  <2>1. 0 \in Until /\ clock + Lasts \in Until
    BY SignedIsTyped, CertificatesAssumption DEF Until
  <2>2. file' \in [Name -> Until]
    BY <1>7, <2>1 DEF WriteFile, CertificatesTypeOK
  <2>. QED
    BY <1>1, <1>7, <2>2 DEF WriteFile, CertificatesTypeOK, ListenerFollows, listener
<1>. QED
  BY <1>2, <1>3, <1>4, <1>5, <1>6, <1>7

------------------------------------------------------------------------------

(* The certificates keep their types, and the listener follows the store.    *)
THEOREM ListenerHolds == CertificatesSpec => []ListenerInvariant
<1>1. CertificatesInit => ListenerInvariant
  BY InitHolds
<1>2. ListenerInvariant /\ [CertificatesNext]_certificates => ListenerInvariant'
  <2>1. ASSUME ListenerInvariant, CertificatesNext PROVE ListenerInvariant'
    BY <2>1, LoopHolds, HandHolds, AroundHolds DEF CertificatesNext
  <2>2. ASSUME ListenerInvariant, UNCHANGED certificates PROVE ListenerInvariant'
    BY <2>2 DEF ListenerInvariant, CertificatesTypeOK, ListenerFollows, certificates
  <2>. QED
    BY <2>1, <2>2
<1>. QED
  BY <1>1, <1>2, PTL DEF CertificatesSpec

(* Between passes the listener serves exactly what a restart would load      *)
(* under every name that is not a database's.                                *)
THEOREM ServedAsStored == CertificatesSpec => []ServedIsStored
<1>1. ListenerInvariant => ServedIsStored
  BY DEF ListenerInvariant, ListenerFollows, ServedIsStored
<1>. QED
  BY <1>1, ListenerHolds, PTL

------------------------------------------------------------------------------
(* A whole pass that nothing changed under leaves what was chosen.           *)

FileStored(n) ==
    acme /\ choice[n] = "file" /\ file[n] > clock + 1 =>
        stored[n] = [from |-> "file", until |-> file[n]]

Held(n) == acme /\ choice[n] = "file" => ~OnTheFloor(stored[n])

(* The name in hand whose file is not read, and the one that is not held     *)
(* above the floor yet.                                                      *)
Reading == IF loop.at \in {"file", "install"} THEN {loop.name} ELSE {}

Holding ==
    IF loop.at \in {"file", "install", "floor"} \/ (loop.at = "swap" /\ loop.with = "file")
    THEN {loop.name} ELSE {}

(* The names the pass has still to come to.                                  *)
Ahead ==
    IF loop.at \in {"rest", "names"} THEN Name
    ELSE IF loop.at \in {"policy"} \cup AboutOne THEN loop.todo ELSE {}

(* What has been decided in this pass, if nothing changed since the one      *)
(* before it.                                                                *)
Decided ==
    /\ loop.at # "rest" => cover.names = wanted
    /\ loop.at \in {"acme", "order"} => choice[loop.name] # "file"
    /\ loop.at \in {"file", "install"} => loop.with = "file"
    /\ loop.at = "install" => loop.found = [from |-> "file", until |-> file[loop.name]]
    /\ loop.at = "prune" => loop.todo \cap wanted = {}

(* What it has passed is as it was chosen, and all of it once it is over.    *)
PassIsRight ==
    /\ shown.names = cover.names
    /\ passes # 0 =>
          /\ Decided
          /\ \A n \in wanted \ Managed :
                /\ n \notin Ahead \cup Reading => FileStored(n)
                /\ n \notin Ahead \cup Holding => Held(n)
    /\ passes = 2 =>
          /\ cover.names = wanted
          /\ \A n \in wanted \ Managed : FileStored(n) /\ (n \notin Holding => Held(n))

(* What a database is handed, or was in this window, outlasts the next.      *)
HandIsRight ==
    /\ hand.at = "hand" /\ hand.found # NoCert /\ hand.found.from = "self" =>
          hand.found.until > clock + 1
    /\ \A d \in handed : volume[d] # NoCert /\ volume[d].from = "self" =>
          volume[d].until > clock + 1

WindowInvariant == ListenerInvariant /\ PassIsRight /\ HandIsRight


(* A step that changes nothing a name's certificate is judged by.            *)
LEMMA NamesAsBefore ==
    ASSUME UNCHANGED <<acme, choice, file, stored, clock>>
    PROVE  \A n : (FileStored(n)' <=> FileStored(n)) /\ (Held(n)' <=> Held(n))
BY DEF FileStored, Held, OnTheFloor, Left

(* A pass that starts has everything ahead of it, and leaves what the last   *)
(* one came to.                                                              *)
LEMMA PassStarts ==
    ASSUME WindowInvariant, RefreshLocal PROVE PassIsRight'
<1>1. cover'.names = wanted /\ shown'.names = cover'.names
  BY DEF RefreshLocal, CoverOf, WindowInvariant, PassIsRight, listener
<1>2. loop.at = "rest" /\ loop' = Between("names", {})
      /\ UNCHANGED <<wanted, acme, choice, file, stored, clock, passes>>
  BY DEF RefreshLocal
<1>3. loop'.at = "names"
  BY <1>2 DEF Between
<1>4. Ahead' = Name /\ Holding = {}
  BY <1>2, <1>3 DEF Ahead, Holding
<1>5. wanted \subseteq Name
  BY DEF WindowInvariant, ListenerInvariant, CertificatesTypeOK
<1>6. Decided'
  BY <1>1, <1>2, <1>3 DEF Decided
<1>. QED
  BY <1>1, <1>2, <1>4, <1>5, <1>6, NamesAsBefore DEF WindowInvariant, PassIsRight

(* A pass that ends has come to every name.                                  *)
LEMMA PassIsOver ==
    ASSUME WindowInvariant, PassEnds, shown'.names = cover'.names,
           UNCHANGED <<wanted, acme, choice, file, stored, cover, clock>>,
           loop.at # "rest",
           Ahead \cup Reading \cup Holding = {} \/ ~acme
    PROVE  PassIsRight'
<1>1. loop'.at = "rest" /\ Ahead' = Name
  BY DEF PassEnds, Unread, Between, Ahead
<1>2. wanted \subseteq Name /\ passes \in 0 .. 2
  BY DEF WindowInvariant, ListenerInvariant, CertificatesTypeOK
<1>3. Decided'
  BY <1>1 DEF Decided, AboutOne
<1>4. ASSUME passes' = 2, NEW n \in wanted \ Managed PROVE FileStored(n) /\ Held(n)
  <2>1. CASE ~acme
    BY <2>1 DEF FileStored, Held
  <2>2. CASE acme
    BY <1>2, <1>4, <2>2 DEF PassEnds, WindowInvariant, PassIsRight
  <2>. QED
    BY <2>1, <2>2
<1>5. passes' = 2 => cover.names = wanted
  BY <1>2 DEF PassEnds, WindowInvariant, PassIsRight, Decided
<1>. QED
  BY <1>1, <1>2, <1>3, <1>4, <1>5, NamesAsBefore DEF PassIsRight

(* A pass that has just read the names has everything still to read.         *)
LEMMA ReadNamesIsRight ==
    ASSUME WindowInvariant, ReadNames PROVE PassIsRight'
<1>1. loop.at = "names" /\ shown'.names = cover'.names
      /\ UNCHANGED <<wanted, acme, choice, file, stored, cover, clock>>
  BY DEF ReadNames, WindowInvariant, PassIsRight, listener
<1>2. CASE ~acme
  BY <1>1, <1>2, PassIsOver DEF ReadNames
<1>3. CASE acme
  <2>1. loop' = Between("policy", wanted) /\ passes' = passes
    BY <1>3 DEF ReadNames
  <2>2. loop'.at = "policy" /\ loop'.todo = wanted
    BY <2>1 DEF Between
  <2>3. Ahead' = wanted /\ Holding = {}
    BY <1>1, <2>2 DEF Ahead, Holding
  <2>4. passes # 0 => cover.names = wanted
    BY <1>1 DEF WindowInvariant, PassIsRight, Decided
  <2>5. passes # 0 => Decided'
    BY <1>1, <2>2, <2>4 DEF Decided
  <2>. QED
    BY <1>1, <2>1, <2>3, <2>5, NamesAsBefore DEF WindowInvariant, PassIsRight
<1>. QED
  BY <1>2, <1>3

(* A step of the loop from one name it has in hand to where it has less to   *)
(* come to, each name it leaves being as it was chosen.                      *)
LEMMA StillRight ==
    ASSUME WindowInvariant, shown'.names = cover'.names,
           UNCHANGED <<wanted, cover, passes>>,
           loop.at # "rest", loop'.at \notin {"rest", "names"},
           passes # 0 => Decided',
           ASSUME passes # 0, NEW n \in wanted \ Managed,
                  FileStored(n) \/ n \in Ahead \cup Reading,
                  Held(n) \/ n \in Ahead \cup Holding
           PROVE  /\ FileStored(n)' \/ n \in (Ahead \cup Reading)'
                  /\ Held(n)' \/ n \in (Ahead \cup Holding)'
                  /\ FileStored(n) => FileStored(n)'
                  /\ Held(n) \/ n \in Holding => Held(n)' \/ n \in Holding'
    PROVE  PassIsRight'
<1>1. passes # 0 => \A n \in wanted \ Managed :
          /\ FileStored(n) \/ n \in Ahead \cup Reading
          /\ Held(n) \/ n \in Ahead \cup Holding
          /\ passes = 2 => FileStored(n) /\ (Held(n) \/ n \in Holding)
  BY DEF WindowInvariant, PassIsRight
<1>2. passes = 2 => cover.names = wanted
  BY DEF WindowInvariant, PassIsRight
<1>. QED
  BY <1>1, <1>2 DEF PassIsRight


(* A name read stays with what was chosen for it when it was.                *)
LEMMA ReadPolicyIsRight ==
    ASSUME WindowInvariant, NEW p \in Name, ReadPolicy(p) PROVE PassIsRight'
<1>1. loop.at = "policy" /\ p \in loop.todo /\ shown'.names = cover'.names
      /\ UNCHANGED <<wanted, acme, choice, file, stored, cover, clock, passes>>
  BY DEF ReadPolicy, WindowInvariant, PassIsRight, listener
<1>2. loop \in Looping
  BY DEF WindowInvariant, ListenerInvariant, CertificatesTypeOK
<1>3. passes # 0 => cover.names = wanted
  BY <1>1 DEF WindowInvariant, PassIsRight, Decided
<1>4. Ahead = loop.todo /\ Reading = {} /\ Holding = {}
  BY <1>1 DEF Ahead, Reading, Holding
<1>5. CASE RenewWith(p) = "self"
  <2>1. loop' = [loop EXCEPT !.todo = @ \ {p}]
    BY <1>5 DEF ReadPolicy
  <2>2. loop'.at = "policy" /\ loop'.todo = loop.todo \ {p}
    BY <1>1, <1>2, <2>1 DEF Looping
  <2>3. Ahead' = loop.todo \ {p}
    BY <2>2 DEF Ahead
  <2>4. FileStored(p) /\ Held(p)
    BY <1>5 DEF RenewWith, Default, FileStored, Held
  <2>5. passes # 0 => Decided'
    BY <1>1, <1>3, <2>2 DEF Decided
  <2>. QED
    BY <1>1, <1>4, <2>2, <2>3, <2>4, <2>5, NamesAsBefore, StillRight
<1>6. CASE RenewWith(p) # "self"
  <2>0. loop' = [loop EXCEPT !.todo = @ \ {p}, !.name = p, !.with = RenewWith(p),
                             !.at = RenewWith(p)]
    BY <1>6 DEF ReadPolicy
  <2>1. RenewWith(p) \in {"acme", "file"} /\ (RenewWith(p) = "acme" => choice[p] # "file")
    BY <1>6 DEF RenewWith, Default, WindowInvariant, ListenerInvariant, CertificatesTypeOK
  <2>2. loop'.at = RenewWith(p) /\ loop'.with = RenewWith(p) /\ loop'.name = p
        /\ loop'.todo = loop.todo \ {p}
    BY <1>2, <2>0 DEF Looping
  <2>3. Ahead' = loop.todo \ {p}
    BY <2>1, <2>2 DEF Ahead, AboutOne
  <2>4. passes # 0 => Decided'
    BY <1>1, <1>3, <2>1, <2>2 DEF Decided
  <2>5. loop'.at = "file" => Reading' = {p} /\ Holding' = {p}
    BY <2>2 DEF Reading, Holding
  <2>6. loop'.at = "acme" => FileStored(p) /\ Held(p)
    BY <2>1, <2>2 DEF FileStored, Held
  <2>. QED
    BY <1>1, <1>4, <2>1, <2>2, <2>3, <2>4, <2>5, <2>6, NamesAsBefore, StillRight
<1>. QED
  BY <1>5, <1>6

(* Where the loop writes under the name in hand, and nowhere else.           *)
LEMMA AboutOneIsRight ==
    ASSUME WindowInvariant, Ensure \/ (\E signed \in BOOLEAN : Obtain(signed)) \/ Swap
    PROVE  PassIsRight'
<1>1. loop \in Looping /\ stored \in [Name -> Cert \cup {NoCert}]
  BY DEF WindowInvariant, ListenerInvariant, CertificatesTypeOK
<1>2. loop.at \in {"acme", "order", "swap"} /\ shown'.names = cover'.names
      /\ UNCHANGED <<wanted, acme, choice, file, cover, clock, passes>>
  BY DEF Ensure, Obtain, Swap, Replaced, WindowInvariant, PassIsRight, listener
<1>3. passes # 0 => cover.names = wanted
  BY <1>2 DEF WindowInvariant, PassIsRight, Decided
<1>4. Ahead = loop.todo /\ Reading = {}
  BY <1>2 DEF Ahead, Reading, AboutOne
<1>5. passes # 0 /\ loop.at \in {"acme", "order"} => choice[loop.name] # "file"
  BY DEF WindowInvariant, PassIsRight, Decided
<1>6. \A n \in Name : n # loop.name \/ loop.at \in {"acme", "swap"} => stored'[n] = stored[n]
  BY <1>1, <1>2 DEF Ensure, Obtain, Swap
<1>7. passes # 0 => \A n \in wanted :
          (FileStored(n)' <=> FileStored(n)) /\ (Held(n)' <=> Held(n))
  <2>1. wanted \subseteq Name
    BY DEF WindowInvariant, ListenerInvariant, CertificatesTypeOK
  <2>. QED
    BY <1>2, <1>5, <1>6, <2>1 DEF FileStored, Held, OnTheFloor, Left
<1>8. /\ loop'.at \in {"order", "swap", "floor", "policy"} /\ loop'.todo = loop.todo
      /\ loop'.at # "policy" => loop'.name = loop.name /\ loop'.with = loop.with
      /\ loop'.at = "order" => loop.at = "acme"
      /\ loop'.at = "floor" => loop.at = "swap" /\ loop.with = "file"
      /\ loop'.at # "floor" /\ loop.at = "swap" => loop.with # "file"
  BY <1>1, <1>2 DEF Ensure, Obtain, Swap, NextName, Between, Looping
<1>9. Ahead' = loop.todo /\ Reading' = {}
  BY <1>8 DEF Ahead, Reading, AboutOne
<1>10. \A n \in Holding : n \in Holding'
  BY <1>2, <1>8 DEF Holding
<1>11. passes # 0 => Decided'
  BY <1>2, <1>3, <1>5, <1>8 DEF Decided
<1>. QED
  BY <1>2, <1>4, <1>7, <1>8, <1>9, <1>10, <1>11, StillRight

(* A file that is read is the one that is installed, if it is newer.         *)
LEMMA ReadFileIsRight ==
    ASSUME WindowInvariant, ReadFile PROVE PassIsRight'
<1>. DEFINE found == [from |-> "file", until |-> file[loop.name]]
<1>1. loop \in Looping /\ clock \in Nat /\ file[loop.name] \in Nat
  BY CertificatesAssumption
     DEF ReadFile, WindowInvariant, ListenerInvariant, CertificatesTypeOK, AboutOne, Until
<1>2. loop.at = "file" /\ shown'.names = cover'.names
      /\ UNCHANGED <<wanted, acme, choice, file, stored, cover, clock, passes>>
  BY DEF ReadFile, WindowInvariant, PassIsRight, listener
<1>3. passes # 0 => cover.names = wanted /\ loop.with = "file"
  BY <1>2 DEF WindowInvariant, PassIsRight, Decided
<1>4. Ahead = loop.todo /\ Reading = {loop.name} /\ Holding = {loop.name}
  BY <1>2 DEF Ahead, Reading, Holding, AboutOne
<1>5. /\ loop'.at \in {"install", "floor"} /\ loop'.todo = loop.todo
      /\ loop'.name = loop.name /\ loop'.with = loop.with
      /\ loop'.at = "install" => loop'.found = found
      /\ loop'.at = "floor" => file[loop.name] <= clock \/ stored[loop.name] = found
  BY <1>1 DEF ReadFile, Looping
<1>6. loop'.at = "floor" => FileStored(loop.name)
  BY <1>1, <1>5 DEF FileStored
<1>7. Ahead' = loop.todo /\ Holding' = {loop.name}
      /\ (loop'.at = "install" => Reading' = {loop.name})
  BY <1>5 DEF Ahead, Reading, Holding, AboutOne
<1>8. passes # 0 => Decided'
  BY <1>2, <1>3, <1>5 DEF Decided
<1>. QED
  BY <1>2, <1>4, <1>5, <1>6, <1>7, <1>8, NamesAsBefore, StillRight

(* What is installed from a file is what the file holds.                     *)
LEMMA InstallFileIsRight ==
    ASSUME WindowInvariant, InstallFile PROVE PassIsRight'
<1>1. loop \in Looping /\ stored \in [Name -> Cert \cup {NoCert}] /\ loop.name \in Name
  BY DEF InstallFile, WindowInvariant, ListenerInvariant, CertificatesTypeOK, AboutOne
<1>2. loop.at = "install" /\ shown'.names = cover'.names
      /\ UNCHANGED <<wanted, acme, choice, file, cover, clock, passes>>
  BY DEF InstallFile, WindowInvariant, PassIsRight, listener
<1>3. passes # 0 => /\ cover.names = wanted /\ loop.with = "file"
                    /\ loop.found = [from |-> "file", until |-> file[loop.name]]
  BY <1>2 DEF WindowInvariant, PassIsRight, Decided
<1>4. Ahead = loop.todo /\ Reading = {loop.name} /\ Holding = {loop.name}
  BY <1>2 DEF Ahead, Reading, Holding, AboutOne
<1>5. stored' = [stored EXCEPT ![loop.name] = loop.found]
      /\ loop'.at = "swap" /\ loop'.todo = loop.todo
      /\ loop'.name = loop.name /\ loop'.with = loop.with
  BY <1>1 DEF InstallFile, Looping
<1>6. passes # 0 => FileStored(loop.name)'
  BY <1>1, <1>2, <1>3, <1>5 DEF FileStored
<1>7. \A n \in Name : n # loop.name =>
          (FileStored(n)' <=> FileStored(n)) /\ (Held(n)' <=> Held(n))
  BY <1>1, <1>2, <1>5 DEF FileStored, Held, OnTheFloor, Left
<1>8. Ahead' = loop.todo /\ (passes # 0 => Holding' = {loop.name})
  BY <1>3, <1>5 DEF Ahead, Holding, AboutOne
<1>9. passes # 0 => Decided'
  BY <1>2, <1>3, <1>5 DEF Decided
<1>10. wanted \subseteq Name
  BY DEF WindowInvariant, ListenerInvariant, CertificatesTypeOK
<1>. QED
  BY <1>2, <1>4, <1>5, <1>6, <1>7, <1>8, <1>9, <1>10, StillRight

(* A name without a certificate of its own kind gets one the node signs.     *)
LEMMA HoldTheFloorIsRight ==
    ASSUME WindowInvariant, HoldTheFloor PROVE PassIsRight'
<1>1. loop \in Looping /\ stored \in [Name -> Cert \cup {NoCert}] /\ loop.name \in Name
      /\ clock \in Nat /\ file[loop.name] \in Nat
  BY CertificatesAssumption
     DEF HoldTheFloor, WindowInvariant, ListenerInvariant, CertificatesTypeOK, AboutOne, Until
<1>2. loop.at = "floor" /\ shown'.names = cover'.names
      /\ UNCHANGED <<wanted, acme, choice, file, cover, clock, passes>>
  BY DEF HoldTheFloor, WindowInvariant, PassIsRight, listener
<1>3. passes # 0 => cover.names = wanted
  BY <1>2 DEF WindowInvariant, PassIsRight, Decided
<1>4. Ahead = loop.todo /\ Reading = {} /\ Holding = {loop.name}
  BY <1>2 DEF Ahead, Reading, Holding, AboutOne
<1>5. \A n \in Name : n # loop.name =>
          (FileStored(n)' <=> FileStored(n)) /\ (Held(n)' <=> Held(n))
  BY <1>1, <1>2 DEF HoldTheFloor, FileStored, Held, OnTheFloor, Left
<1>6. PICK h \in Name : h = loop.name
  BY <1>1
<1>7. Held(h)' /\ (FileStored(h) => FileStored(h)')
  <2>1. CASE OnTheFloor(stored[h])
    <3>1. stored'[h] = Signed /\ Signed.from = "self"
      BY <1>1, <1>6, <2>1 DEF HoldTheFloor, Signed
    <3>2. stored[h] = [from |-> "file", until |-> file[h]] => file[h] <= clock + 1
      BY <1>1, <1>6, <2>1 DEF OnTheFloor, Left
    <3>. QED
      BY <1>1, <1>2, <1>6, <3>1, <3>2 DEF OnTheFloor, Held, FileStored
  <2>2. CASE ~OnTheFloor(stored[h])
    <3>1. stored' = stored
      BY <1>6, <2>2 DEF HoldTheFloor
    <3>. QED
      BY <1>2, <2>2, <3>1 DEF OnTheFloor, Left, Held, FileStored
  <2>. QED
    BY <2>1, <2>2
<1>8. loop'.at \in {"policy", "swap"} /\ loop'.todo = loop.todo
      /\ (loop'.at = "swap" => loop'.with = "self")
  BY <1>1 DEF HoldTheFloor, NextName, Between, Looping
<1>9. Ahead' = loop.todo
  BY <1>8 DEF Ahead, AboutOne
<1>10. passes # 0 => Decided'
  BY <1>2, <1>3, <1>8 DEF Decided
<1>11. wanted \subseteq Name
  BY DEF WindowInvariant, ListenerInvariant, CertificatesTypeOK
<1>. QED
  BY <1>2, <1>4, <1>5, <1>6, <1>7, <1>8, <1>9, <1>10, <1>11, StillRight

(* What is stale is read once every name has been seen to.                   *)
LEMMA ReadStaleIsRight ==
    ASSUME WindowInvariant, ReadStale PROVE PassIsRight'
<1>1. loop.at = "policy" /\ loop.todo = {} /\ shown'.names = cover'.names
      /\ UNCHANGED <<wanted, acme, choice, file, stored, cover, clock>>
  BY DEF ReadStale, WindowInvariant, PassIsRight, listener
<1>2. Ahead = {} /\ Reading = {} /\ Holding = {}
  BY <1>1 DEF Ahead, Reading, Holding
<1>3. CASE Stale = {}
  BY <1>1, <1>2, <1>3, PassIsOver DEF ReadStale
<1>4. CASE Stale # {}
  <2>1. passes' = passes /\ loop'.at = "prune" /\ loop'.todo = Stale
    BY <1>4 DEF ReadStale, Between
  <2>2. passes # 0 => cover.names = wanted
    BY <1>1 DEF WindowInvariant, PassIsRight, Decided
  <2>3. Stale \cap wanted = {}
    BY DEF Stale
  <2>4. passes # 0 => Decided'
    BY <1>1, <2>1, <2>2, <2>3 DEF Decided
  <2>. QED
    BY <1>1, <1>2, <2>1, <2>4, NamesAsBefore, StillRight
<1>. QED
  BY <1>3, <1>4

(* What is pruned is what no name of this pass had.                          *)
LEMMA PruneIsRight ==
    ASSUME WindowInvariant, Prune PROVE PassIsRight'
<1>1. loop.at = "prune" /\ loop'.at = "pruned" /\ shown'.names = cover'.names
      /\ UNCHANGED <<wanted, acme, choice, file, cover, clock, passes>>
  BY DEF Prune, Between, WindowInvariant, PassIsRight, listener
<1>2. Ahead = {} /\ Reading = {} /\ Holding = {}
  BY <1>1 DEF Ahead, Reading, Holding, AboutOne
<1>3. passes # 0 => cover.names = wanted /\ loop.todo \cap wanted = {}
  BY <1>1 DEF WindowInvariant, PassIsRight, Decided
<1>4. wanted \subseteq Name
  BY DEF WindowInvariant, ListenerInvariant, CertificatesTypeOK
<1>5. passes # 0 => \A n \in wanted : stored'[n] = stored[n]
  BY <1>3, <1>4 DEF Prune
<1>6. passes # 0 => \A n \in wanted :
          (FileStored(n)' <=> FileStored(n)) /\ (Held(n)' <=> Held(n))
  BY <1>1, <1>5 DEF FileStored, Held, OnTheFloor, Left
<1>7. passes # 0 => Decided'
  BY <1>1, <1>3 DEF Decided
<1>. QED
  BY <1>1, <1>2, <1>6, <1>7, StillRight

(* The pass ends with the listener at what is stored.                        *)
LEMMA SwapPrunedIsRight ==
    ASSUME WindowInvariant, SwapPruned PROVE PassIsRight'
<1>1. loop.at = "pruned" /\ shown'.names = cover'.names
      /\ UNCHANGED <<wanted, acme, choice, file, stored, cover, clock>>
  BY DEF SwapPruned, Replaced
<1>2. Ahead = {} /\ Reading = {} /\ Holding = {}
  BY <1>1 DEF Ahead, Reading, Holding, AboutOne
<1>. QED
  BY <1>1, <1>2, PassIsOver DEF SwapPruned

(* Every step of a pass leaves it as far as it was, or one name further.     *)
LEMMA LoopIsRight ==
    ASSUME WindowInvariant, Loop PROVE PassIsRight'
BY PassStarts, ReadNamesIsRight, ReadPolicyIsRight, AboutOneIsRight, ReadFileIsRight,
   InstallFileIsRight, HoldTheFloorIsRight, ReadStaleIsRight, PruneIsRight,
   SwapPrunedIsRight
   DEF Loop

------------------------------------------------------------------------------
(* The pass over the databases, and what happens to both.                    *)

(* The pass over the databases is as far as it was, whatever is beside it.   *)
LEMMA HandIsRightStill ==
    ASSUME WindowInvariant, CertificatesNext PROVE HandIsRight'
<1>. USE CertificatesAssumption
<1>1. clock \in Nat /\ volume \in [Managed -> Cert \cup {NoCert}] /\ handed \subseteq Managed
      /\ stored \in [Name -> Cert \cup {NoCert}] /\ hand \in Handing
  BY DEF WindowInvariant, ListenerInvariant, CertificatesTypeOK
<1>2. ASSUME UNCHANGED <<hand, volume, handed, clock>> PROVE HandIsRight'
  BY <1>2 DEF WindowInvariant, HandIsRight
<1>3. ASSUME NEW d \in Managed, Look(d) PROVE HandIsRight'
  <2>1. hand'.found # NoCert => hand'.found.from # "self"
    BY <1>3 DEF Look, Elsewhere
  <2>. QED
    BY <1>3, <2>1 DEF Look, WindowInvariant, HandIsRight
<1>4. CASE SignForDatabase
  <2>1. hand.name \in Managed /\ hand.name \in Name
    BY <1>4 DEF SignForDatabase, WindowInvariant, ListenerInvariant, CertificatesTypeOK
  <2>2. hand'.found = stored'[hand.name]
    BY <1>1, <1>4 DEF SignForDatabase, Handing
  <2>3. CASE Fresh(stored[hand.name]) /\ stored[hand.name].from = "self"
    <3>1. stored'[hand.name] = stored[hand.name] /\ stored[hand.name] \in Cert
      BY <1>1, <1>4, <2>1, <2>3 DEF SignForDatabase, Fresh
    <3>2. stored[hand.name].until > clock + 1
      BY <1>1, <2>3, <3>1 DEF Fresh, Left, Cert, Until
    <3>. QED
      BY <1>1, <1>4, <2>2, <3>1, <3>2 DEF SignForDatabase, WindowInvariant, HandIsRight
  <2>4. CASE ~(Fresh(stored[hand.name]) /\ stored[hand.name].from = "self")
    <3>1. stored'[hand.name] = Signed
      BY <1>1, <1>4, <2>1, <2>4 DEF SignForDatabase
    <3>2. Signed.until > clock + 1
      BY <1>1 DEF Signed
    <3>. QED
      BY <1>1, <1>4, <2>2, <3>1, <3>2 DEF SignForDatabase, WindowInvariant, HandIsRight
  <2>. QED
    BY <2>3, <2>4
<1>5. CASE HandOverCertificate
  <2>1. hand.at = "hand" /\ hand.name \in Managed
    BY <1>5 DEF HandOverCertificate, WindowInvariant, ListenerInvariant, CertificatesTypeOK
  <2>2. volume' = [volume EXCEPT ![hand.name] = hand.found] /\ hand'.at = "rest"
        /\ handed' = handed \cup {hand.name} /\ clock' = clock
    BY <1>5 DEF HandOverCertificate, Idle
  <2>. QED
    BY <1>1, <2>1, <2>2 DEF WindowInvariant, HandIsRight
<1>6. CASE Restart
  BY <1>6 DEF Restart, Changing, Idle, WindowInvariant, HandIsRight
<1>7. CASE Tick
  BY <1>7 DEF Tick, HandIsRight
<1>8. ASSUME NEW n \in Name PROVE ReadPolicy(n) \/ SetWanted(n) => HandIsRight'
  BY <1>2 DEF ReadPolicy, SetWanted
<1>9. ASSUME NEW n \in Name, NEW with \in Choices, StoreSource(n, with) PROVE HandIsRight'
  BY <1>2, <1>9 DEF StoreSource
<1>10. ASSUME NEW n \in Name, NEW good \in BOOLEAN, WriteFile(n, good) PROVE HandIsRight'
  BY <1>2, <1>10 DEF WriteFile
<1>11. ASSUME NEW signed \in BOOLEAN, Obtain(signed) PROVE HandIsRight'
  BY <1>2, <1>11 DEF Obtain
<1>12. CASE RefreshLocal \/ ReadNames \/ Ensure \/ ReadFile \/ InstallFile \/ Swap
  BY <1>2, <1>12 DEF RefreshLocal, ReadNames, Ensure, ReadFile, InstallFile, Swap
<1>13. CASE HoldTheFloor \/ ReadStale \/ Prune \/ SwapPruned \/ SetAcme
  BY <1>2, <1>13 DEF HoldTheFloor, ReadStale, Prune, SwapPruned, SetAcme
<1>. QED
  BY <1>3, <1>4, <1>5, <1>6, <1>7, <1>8, <1>9, <1>10, <1>11, <1>12, <1>13
     DEF CertificatesNext, Loop, Hand

(* What changes anything at all starts the count of the passes again, and    *)
(* what the databases are handed is stored under their names alone.          *)
LEMMA OthersAreRight ==
    ASSUME WindowInvariant, CertificatesNext, ~Loop PROVE PassIsRight'
<1>1. ASSUME passes' = 0, shown'.names = cover'.names PROVE PassIsRight'
  BY <1>1 DEF PassIsRight
<1>2. ASSUME UNCHANGED <<wanted, acme, choice, file, cover, shown, loop, clock, passes>>,
             \A n \in Name \ Managed : stored'[n] = stored[n]
      PROVE  PassIsRight'
  <2>1. Ahead' = Ahead /\ Reading' = Reading /\ Holding' = Holding /\ (Decided' <=> Decided)
    BY <1>2 DEF Ahead, Reading, Holding, Decided
  <2>2. wanted \subseteq Name
    BY DEF WindowInvariant, ListenerInvariant, CertificatesTypeOK
  <2>3. \A n \in wanted \ Managed :
            (FileStored(n)' <=> FileStored(n)) /\ (Held(n)' <=> Held(n))
    BY <1>2, <2>2 DEF FileStored, Held, OnTheFloor, Left
  <2>. QED
    BY <1>2, <2>1, <2>3 DEF WindowInvariant, PassIsRight
<1>3. ASSUME NEW d \in Managed, Look(d) PROVE PassIsRight'
  BY <1>2, <1>3 DEF Look, listener
<1>4. CASE SignForDatabase
  <2>1. hand.name \in Managed /\ stored \in [Name -> Cert \cup {NoCert}]
    BY <1>4 DEF SignForDatabase, WindowInvariant, ListenerInvariant, CertificatesTypeOK
  <2>. QED
    BY <1>2, <1>4, <2>1 DEF SignForDatabase, listener
<1>5. CASE HandOverCertificate
  BY <1>2, <1>5 DEF HandOverCertificate, listener
<1>6. CASE SetAcme \/ Restart \/ Tick
  BY <1>1, <1>6
     DEF SetAcme, Restart, Tick, Changing, listener, WindowInvariant, PassIsRight
<1>7. ASSUME NEW n \in Name, SetWanted(n) PROVE PassIsRight'
  BY <1>1, <1>7 DEF SetWanted, Changing, listener, WindowInvariant, PassIsRight
<1>8. ASSUME NEW n \in Name, NEW with \in Choices, StoreSource(n, with) PROVE PassIsRight'
  BY <1>1, <1>8 DEF StoreSource, Changing, listener, WindowInvariant, PassIsRight
<1>9. ASSUME NEW n \in Name, NEW good \in BOOLEAN, WriteFile(n, good) PROVE PassIsRight'
  BY <1>1, <1>9 DEF WriteFile, Changing, listener, WindowInvariant, PassIsRight
<1>. QED
  BY <1>3, <1>4, <1>5, <1>6, <1>7, <1>8, <1>9 DEF CertificatesNext, Hand

------------------------------------------------------------------------------

(* What a pass has come to since anything changed is as it was chosen, and   *)
(* what a database was handed outlasts the window that follows.              *)
THEOREM WindowHolds == CertificatesSpec => []WindowInvariant
<1>1. CertificatesInit => WindowInvariant
  BY InitHolds DEF CertificatesInit, WindowInvariant, PassIsRight, HandIsRight, Idle
<1>2. WindowInvariant /\ [CertificatesNext]_certificates => WindowInvariant'
  <2>1. ASSUME WindowInvariant, CertificatesNext PROVE WindowInvariant'
    <3>1. ListenerInvariant'
      BY <2>1, LoopHolds, HandHolds, AroundHolds DEF CertificatesNext, WindowInvariant
    <3>2. PassIsRight' /\ HandIsRight'
      BY <2>1, LoopIsRight, OthersAreRight, HandIsRightStill
    <3>. QED
      BY <3>1, <3>2 DEF WindowInvariant
  <2>2. ASSUME WindowInvariant, UNCHANGED certificates PROVE WindowInvariant'
    <3>1. ListenerInvariant'
      BY <2>2
         DEF WindowInvariant, ListenerInvariant, CertificatesTypeOK, ListenerFollows, certificates
    <3>2. Ahead' = Ahead /\ Reading' = Reading /\ Holding' = Holding /\ (Decided' <=> Decided)
      BY <2>2 DEF Ahead, Reading, Holding, Decided, certificates
    <3>3. PassIsRight' /\ HandIsRight'
      BY <2>2, <3>2, NamesAsBefore
         DEF WindowInvariant, PassIsRight, HandIsRight, certificates
    <3>. QED
      BY <3>1, <3>3 DEF WindowInvariant
  <2>. QED
    BY <2>1, <2>2
<1>. QED
  BY <1>1, <1>2, PTL DEF CertificatesSpec

(* Two whole passes after anything changed every name asked of the node is   *)
(* answered for, and by the file an operator chose as long as it is good.    *)
THEOREM NamesAnsweredAsChosen == CertificatesSpec => []AnsweredAsChosen
<1>1. ASSUME WindowInvariant PROVE AnsweredAsChosen
  <2>1. SUFFICES ASSUME passes = 2, loop.at = "rest", NEW n \in wanted \ Managed
                 PROVE  /\ n \in shown.names
                        /\ acme /\ choice[n] = "file" /\ file[n] > clock + 1 =>
                              served[n] = [from |-> "file", until |-> file[n]]
    BY DEF AnsweredAsChosen
  <2>2. n \in shown.names /\ FileStored(n)
    BY <1>1, <2>1 DEF WindowInvariant, PassIsRight
  <2>3. served[n] = stored[n]
    BY <1>1, <2>1
       DEF WindowInvariant, ListenerInvariant, ListenerFollows, CertificatesTypeOK
  <2>. QED
    BY <2>2, <2>3 DEF FileStored
<1>. QED
  BY <1>1, WindowHolds, PTL

(* Time alone takes no name off the air whose certificate is read from a     *)
(* file, and no database with one of the node's own.                         *)
THEOREM HeldThroughTheWindow == CertificatesSpec => HeldInTime
<1>1. ASSUME WindowInvariant, [CertificatesNext]_certificates, clock' # clock PROVE Tick
  BY <1>1
     DEF CertificatesNext, Loop, Hand, certificates, RefreshLocal, ReadNames, Ensure,
         ReadFile, InstallFile, Swap, HoldTheFloor, ReadStale, Prune, SwapPruned,
         ReadPolicy, Obtain, Look, SignForDatabase, HandOverCertificate, SetAcme,
         Restart, SetWanted, StoreSource, WriteFile, Changing
<1>2. ASSUME WindowInvariant, Tick, NEW n \in wanted \ Managed, acme, choice[n] = "file",
             served[n] # NoCert, served[n].from = "file"
      PROVE  ~Expired(served[n])'
  <2>1. passes = 2 /\ loop.at = "rest" /\ clock' = clock + 1 /\ served' = served
    BY <1>2 DEF Tick, listener
  <2>2. served[n] = stored[n] /\ Held(n) /\ clock \in Nat /\ served[n] \in Cert
    BY <1>2, <2>1, CertificatesAssumption
       DEF WindowInvariant, ListenerInvariant, ListenerFollows, CertificatesTypeOK,
           PassIsRight, Holding
  <2>3. served[n].until \in Nat
    BY <2>2, CertificatesAssumption DEF Cert, Until
  <2>4. served[n].until > clock + 1
    BY <1>2, <2>2, <2>3 DEF Held, OnTheFloor, Left
  <2>. QED
    BY <2>1, <2>2, <2>3, <2>4 DEF Expired, Left
<1>3. ASSUME WindowInvariant, Tick, NEW d \in Managed, volume[d] # NoCert,
             volume[d].from = "self"
      PROVE  ~Expired(volume[d])'
  <2>1. handed = Managed /\ clock' = clock + 1 /\ volume' = volume
    BY <1>3 DEF Tick
  <2>2. volume[d].until > clock + 1 /\ volume[d] \in Cert /\ clock \in Nat
    BY <1>3, <2>1, CertificatesAssumption
       DEF WindowInvariant, HandIsRight, ListenerInvariant, CertificatesTypeOK
  <2>3. volume[d].until \in Nat
    BY <2>2, CertificatesAssumption DEF Cert, Until
  <2>. QED
    BY <2>1, <2>2, <2>3 DEF Expired, Left
<1>4. WindowInvariant /\ [CertificatesNext]_certificates =>
        (clock' # clock =>
          /\ \A n \in wanted \ Managed :
                /\ acme /\ choice[n] = "file"
                /\ served[n] # NoCert /\ served[n].from = "file" /\ ~Expired(served[n])
                => ~Expired(served[n])'
          /\ \A d \in Managed :
                volume[d] # NoCert /\ volume[d].from = "self" /\ ~Expired(volume[d])
                => ~Expired(volume[d])')
  BY <1>1, <1>2, <1>3
<1>. QED
  BY <1>4, WindowHolds, PTL DEF CertificatesSpec, HeldInTime

=============================================================================
