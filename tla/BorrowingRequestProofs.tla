----------------------- MODULE BorrowingRequestProofs -----------------------
(***************************************************************************)
(* Theorems about BorrowingRequest, for any requests, patrons, loans and   *)
(* workers.                                                                *)
(***************************************************************************)
EXTENDS BorrowingRequest, TLAPS

-----------------------------------------------------------------------------
(* Types.                                                                  *)

LEMMA InitType == Init => TypeOK
  <1>. SUFFICES ASSUME Init PROVE TypeOK
    OBVIOUS
  <1>1. requests \in [Requests -> RequestRecord]
    BY DEF Init, RequestRecord
  <1>2. NoLoan \in LoanRecord
    BY DEF NoLoan, LoanRecord, LoanStates
  <1>3. loans \in [Loans -> LoanRecord]
    BY <1>2 DEF Init
  <1>4. loanIndex \in [Loans -> IndexEntry]
    BY DEF Init, Indexed, NoLoan, IndexEntry, LoanStates
  <1>5. asked \in [Requests -> 0 .. MaxAsked]
    BY MaxAskedAssumption DEF Init
  <1>. QED BY <1>1, <1>3, <1>4, <1>5 DEF Init, TypeOK

\* A lent loan.
LEMMA LentType ==
    ASSUME TypeOK, NEW l \in Loans, NEW r \in Requests, Lent(l, r)
    PROVE  /\ loans' \in [Loans -> LoanRecord]
           /\ loans'[l].state = "ITEM_ON_LOAN" /\ loans'[l].request = r
           /\ loans'[l].extended = loans[l].extended
           /\ \A m \in Loans : m # l => loans'[m] = loans[m]
  <1>1. loans[l] \in LoanRecord /\ PatronOf[r] \in Patrons
    BY PatronOfAssumption DEF TypeOK
  <1>2. loans' = [loans EXCEPT ![l] =
            [loans[l] EXCEPT !.state = "ITEM_ON_LOAN", !.patron = PatronOf[r],
                             !.request = r]]
    BY DEF Lent
  <1>. QED BY <1>1, <1>2 DEF TypeOK, LoanRecord, LoanStates

\* The handlers that begin.
LEMMA BeginType ==
    ASSUME TypeOK, NEW w \in Workers, NEW r \in Requests, Begin(w, r)
    PROVE  TypeOK'
  <1>1. requests[r] \in RequestRecord
    BY DEF TypeOK
  <1>2. PICK op \in {"create", "accept"}, l \in Loans \cup {None} :
            session' = [session EXCEPT ![w] =
                [op |-> op, request |-> r, record |-> requests[r], loan |-> l]]
    BY <1>1 DEF Begin, PatronLoanCreate, AcceptExtension, RequestRecord
  <1>3. [op |-> op, request |-> r, record |-> requests[r], loan |-> l] \in Handler
    BY <1>1 DEF Handler
  <1>. QED BY <1>2, <1>3 DEF Begin, PatronLoanCreate, AcceptExtension, TypeOK

LEMMA OthersType ==
    ASSUME TypeOK, Others
    PROVE  TypeOK'
  <1>0. /\ \A w \in Workers : session[w] # Idle => session[w] \in Handler
        /\ \A r \in Requests : requests[r] \in RequestRecord
        /\ \A l \in Loans : loans[l] \in LoanRecord
    BY DEF TypeOK
  <1>1. ASSUME NEW w \in Workers, CheckoutPatronLoan(w) PROVE TypeOK'
    <2>1. session[w] \in Handler /\ session[w].request \in Requests
      BY <1>0, <1>1 DEF CheckoutPatronLoan, Handler
    <2>2. PICK l \in Loans :
              /\ LendTo(w, l, session[w].request)
              /\ session' = [session EXCEPT ![w].op = "attach", ![w].loan = l]
      BY <1>1 DEF CheckoutPatronLoan
    <2>3. loans' \in [Loans -> LoanRecord]
      BY <2>1, <2>2, LentType DEF LendTo
    <2>4. session' \in [Workers -> Handler \cup {Idle}]
      BY <2>1, <2>2 DEF TypeOK, Handler
    <2>. QED BY <1>1, <2>3, <2>4 DEF CheckoutPatronLoan, TypeOK
  <1>2. ASSUME NEW w \in Workers, AttachPatronLoan(w) PROVE TypeOK'
    <2>1. session[w] \in Handler
      BY <1>0, <1>2 DEF AttachPatronLoan
    <2>2. [session[w].record EXCEPT !.status = "ON_LOAN",
                                    !.loan = session[w].loan] \in RequestRecord
      BY <2>1 DEF Handler, RequestRecord, Statuses
    <2>. QED BY <1>2, <2>2 DEF AttachPatronLoan, TypeOK
  <1>3. ASSUME NEW w \in Workers, ExtendPatronLoan(w) PROVE TypeOK'
    <2>1. session[w] \in Handler /\ session[w].loan \in Loans
      BY <1>0, <1>3 DEF ExtendPatronLoan, LoanIsActive, Handler
    <2>2. session' \in [Workers -> Handler \cup {Idle}]
      BY <1>3, <2>1 DEF ExtendPatronLoan, TypeOK, Handler
    <2>3. loans[session[w].loan] \in LoanRecord
      BY <1>0, <2>1
    <2>4. loans[session[w].loan].extended \in Nat
      BY <2>3 DEF LoanRecord
    <2>5. loans' \in [Loans -> LoanRecord]
      BY <1>3, <2>1, <2>3, <2>4 DEF ExtendPatronLoan, TypeOK, LoanRecord
    <2>. QED BY <1>3, <2>2, <2>5 DEF ExtendPatronLoan, TypeOK
  <1>4. ASSUME NEW w \in Workers, ClearExtension(w) PROVE TypeOK'
    <2>1. session[w] \in Handler
      BY <1>0, <1>4 DEF ClearExtension
    <2>2. [session[w].record EXCEPT !.extension = "none"] \in RequestRecord
      BY <2>1 DEF Handler, RequestRecord
    <2>. QED BY <1>4, <2>2 DEF ClearExtension, TypeOK
  <1>5. ASSUME NEW w \in Workers, Interrupt(w) PROVE TypeOK'
    <2>1. session[w].request \in Requests
      BY <1>0, <1>5 DEF Interrupt, Handler
    <2>. QED BY <1>5, <2>1 DEF Interrupt, TypeOK
  <1>6. ASSUME NEW r \in Requests, RequestExtension(r) PROVE TypeOK'
    <2>1. requests' \in [Requests -> RequestRecord]
      BY <1>0, <1>6
         DEF RequestExtension, TypeOK, RequestRecord, ExtensionStatuses
    <2>2. asked' \in [Requests -> 0 .. MaxAsked]
      BY <1>6, MaxAskedAssumption DEF RequestExtension, TypeOK
    <2>. QED BY <1>6, <2>1, <2>2 DEF RequestExtension, TypeOK
  <1>7. ASSUME NEW r \in Requests, DeclineExtension(r) PROVE TypeOK'
    <2>1. requests' \in [Requests -> RequestRecord]
      BY <1>0, <1>7
         DEF DeclineExtension, TypeOK, RequestRecord, ExtensionStatuses
    <2>. QED BY <1>7, <2>1 DEF DeclineExtension, TypeOK
  <1>8. ASSUME NEW r \in Requests, NEW s \in Statuses, UpdateRequest(r, s)
        PROVE  TypeOK'
    <2>1. requests' \in [Requests -> RequestRecord]
      BY <1>0, <1>8 DEF UpdateRequest, TypeOK, RequestRecord
    <2>. QED BY <1>8, <2>1 DEF UpdateRequest, TypeOK
  <1>9. ASSUME NEW r \in Requests, DeleteRequest(r) PROVE TypeOK'
    <2>1. requests' \in [Requests -> RequestRecord]
      BY <1>0, <1>9 DEF DeleteRequest, TypeOK, RequestRecord
    <2>. QED BY <1>9, <2>1 DEF DeleteRequest, TypeOK
  <1>10. ASSUME NEW p \in Patrons, RequestLoan(p) PROVE TypeOK'
    <2>1. PICK l \in Loans :
              loans' = [loans EXCEPT ![l] =
                           [loans[l] EXCEPT !.state = "PENDING", !.patron = p]]
      BY <1>10 DEF RequestLoan
    <2>2. loans' \in [Loans -> LoanRecord]
      BY <1>0, <2>1 DEF TypeOK, LoanRecord, LoanStates
    <2>. QED BY <1>10, <2>2 DEF RequestLoan, TypeOK
  <1>11. ASSUME NEW l \in Loans, Checkin(l) \/ Cancel(l) PROVE TypeOK'
    <2>1. PICK s \in LoanStates : loans' = [loans EXCEPT ![l].state = s]
      BY <1>11 DEF Checkin, Cancel, LoanStates
    <2>2. loans' \in [Loans -> LoanRecord]
      BY <1>0, <2>1 DEF TypeOK, LoanRecord
    <2>. QED BY <1>11, <2>2 DEF Checkin, Cancel, TypeOK
  <1>12. ASSUME NEW l \in Loans, RefreshLoan(l) PROVE TypeOK'
    <2>1. Indexed(l) \in IndexEntry
      BY <1>0 DEF Indexed, IndexEntry, LoanRecord
    <2>. QED BY <1>12, <2>1 DEF RefreshLoan, TypeOK
  <1>. QED
    BY <1>1, <1>2, <1>3, <1>4, <1>5, <1>6, <1>7, <1>8, <1>9, <1>10, <1>11, <1>12
       DEF Others

LEMMA NextType == TypeOK /\ [Next]_vars => TypeOK'
  <1>1. TypeOK /\ UNCHANGED vars => TypeOK'
    BY DEF TypeOK, vars
  <1>. QED BY <1>1, BeginType, OthersType DEF Next

\* Every reachable state of requests, loans, index and handlers has its type.
THEOREM TypeCorrect == Spec => []TypeOK
  BY InitType, NextType, PTL DEF Spec

-----------------------------------------------------------------------------
(* What is true between the two commits, and inside the handlers.          *)

Working(w, op) == session[w] # Idle /\ session[w].op = op

\* one handler at a time on a request
Alone ==
    \A w, v \in Workers :
        /\ session[w] # Idle /\ session[v] # Idle
        /\ session[w].request = session[v].request
        => w = v

\* a loan belongs to a request from the moment it is lent
LoansBelong ==
    \A l \in Loans :
        /\ loans[l].state \in {"NONE", "PENDING"} =>
               loans[l].request = None /\ loans[l].extended = 0
        /\ loans[l].state = "ITEM_ON_LOAN" => loans[l].request \in Requests

\* nothing is asked of a request that has no loan
Unasked ==
    \A r \in Requests :
        requests[r].loan = None => asked[r] = 0 /\ requests[r].extension = "none"

\* what the handler read is what there is, as far as the loan goes
ReadIsCurrent(w) ==
    /\ session[w] # Idle =>
           session[w].record.loan = requests[session[w].request].loan
    /\ Working(w, "create") \/ Working(w, "attach") =>
           /\ session[w].record.loan = None
           /\ session[w].record.extension = "none"
    /\ Working(w, "accept") \/ Working(w, "clear") =>
           /\ session[w].record.loan # None
           /\ session[w].loan = session[w].record.loan

\* the index shows every loan of the request that is out
IndexIsCurrent(w) ==
    Working(w, "create") =>
        \A l \in Loans :
            /\ loans[l].request = session[w].request
            /\ loans[l].state = "ITEM_ON_LOAN"
            => /\ loanIndex[l].request = session[w].request
               /\ loanIndex[l].state = "ITEM_ON_LOAN"

\* the loan that is about to be attached is for this request only
LoanAwaitsRequest(w) ==
    Working(w, "attach") =>
        /\ session[w].loan \in Loans
        /\ loans[session[w].loan].request = session[w].request
        /\ loans[session[w].loan].state \notin {"NONE", "PENDING"}
        /\ loans[session[w].loan].extended = 0

\* what was asked and granted while an extension is accepted
GrantIsCounted(w) ==
    Working(w, "accept") \/ Working(w, "clear") =>
        LET r == session[w].request IN
        /\ requests[r].extension # "none"
        /\ r \in interrupted
           \/ asked[r] = loans[session[w].loan].extended
                         + IF session[w].op = "clear" THEN 0 ELSE 1

Sound(w) ==
    /\ ReadIsCurrent(w) /\ IndexIsCurrent(w)
    /\ LoanAwaitsRequest(w) /\ GrantIsCounted(w)

Steady ==
    /\ Alone /\ LoansBelong /\ Unasked
    /\ \A w \in Workers : Sound(w)
    /\ OneActiveLoanPerRequest
    /\ LoanServesItsRequest
    /\ LoanIsAttached
    /\ ExtensionsAreConserved

IInv == TypeOK /\ Steady

LEMMA InitInv == Init => IInv
  <1>. SUFFICES ASSUME Init PROVE Steady
    BY InitType DEF IInv
  <1>1. /\ \A l \in Loans : loans[l] = NoLoan
        /\ \A w \in Workers : session[w] = Idle
        /\ \A r \in Requests :
              /\ requests[r].loan = None /\ requests[r].extension = "none"
              /\ asked[r] = 0
    BY DEF Init
  <1>2. /\ NoLoan.state = "NONE" /\ NoLoan.request = None /\ NoLoan.extended = 0
        /\ None \notin Loans
    BY NoneAssumption DEF NoLoan
  <1>. QED
    BY <1>1, <1>2
       DEF Steady, Alone, LoansBelong, Unasked, Sound, ReadIsCurrent,
           IndexIsCurrent, LoanAwaitsRequest, GrantIsCounted, Working,
           OneActiveLoanPerRequest, LoanServesItsRequest, LoanIsAttached,
           ExtensionsAreConserved

-----------------------------------------------------------------------------
(* Each step keeps it.                                                     *)

\* A handler begins on a request that no other is at work on, and whose loans
\* the index shows.
LEMMA BeginKeeps ==
    ASSUME IInv, NEW w \in Workers, NEW r \in Requests, Settled(r), Begin(w, r)
    PROVE  Steady'
  <1>1. /\ UNCHANGED <<requests, loans, loanIndex, asked, interrupted>>
        /\ session[w] = Idle
    BY DEF Begin, PatronLoanCreate, AcceptExtension
  <1>2. PICK op \in {"create", "accept"}, l \in Loans \cup {None} :
            /\ session' = [session EXCEPT ![w] =
                  [op |-> op, request |-> r, record |-> requests[r], loan |-> l]]
            /\ op = "create" => requests[r].loan = None
            /\ op = "accept" => /\ requests[r].loan # None
                                /\ l = requests[r].loan
                                /\ requests[r].extension = "PENDING"
    BY DEF Begin, PatronLoanCreate, AcceptExtension, IInv, TypeOK, RequestRecord
  <1>. DEFINE s == session'[w]
  <1>3. /\ s # Idle /\ s.op = op /\ s.request = r /\ s.record = requests[r]
        /\ s.loan = l
        /\ \A v \in Workers : v # w => session'[v] = session[v]
    BY <1>2 DEF IInv, TypeOK, Idle
  <1>. HIDE DEF s
  <1>4. \A v \in Workers : v # w /\ session[v] # Idle => session[v].request # r
    BY DEF Settled, Busy
  <1>5. Alone'
    BY <1>3, <1>4 DEF IInv, Steady, Alone, s
  <1>6. LoansBelong' /\ Unasked' /\ OneActiveLoanPerRequest' /\ LoanServesItsRequest'
    BY <1>1 DEF IInv, Steady, LoansBelong, Unasked, OneActiveLoanPerRequest,
                LoanServesItsRequest
  <1>7. ASSUME NEW v \in Workers, v # w PROVE Sound(v)'
    BY <1>1, <1>3, <1>7
       DEF IInv, Steady, Sound, ReadIsCurrent, IndexIsCurrent, LoanAwaitsRequest,
           GrantIsCounted, Working
  <1>8. Sound(w)'
    <2>1. ReadIsCurrent(w)'
      BY <1>1, <1>2, <1>3 DEF ReadIsCurrent, Working, s, IInv, Steady, Unasked
    <2>2. IndexIsCurrent(w)'
      <3>1. \A m \in Loans :
                loans[m].request = r => /\ loanIndex[m].state = loans[m].state
                                        /\ loanIndex[m].request = loans[m].request
        <4>1. \A m \in Loans : loans[m].request = r => loanIndex[m] = Indexed(m)
          BY DEF Settled
        <4>2. \A m : /\ Indexed(m).state = loans[m].state
                     /\ Indexed(m).request = loans[m].request
          BY DEF Indexed
        <4>. QED BY <4>1, <4>2
      <3>. QED BY <1>1, <1>3, <3>1 DEF IndexIsCurrent, Working, s
    <2>3. LoanAwaitsRequest(w)'
      BY <1>3 DEF LoanAwaitsRequest, Working, s
    <2>4. GrantIsCounted(w)'
      <3>1. op = "accept" /\ r \notin interrupted =>
                asked[r] = loans[l].extended + 1
        BY <1>2 DEF IInv, Steady, ExtensionsAreConserved, Settled
      <3>. QED BY <1>1, <1>2, <1>3, <3>1 DEF GrantIsCounted, Working, s
    <2>. QED BY <2>1, <2>2, <2>3, <2>4 DEF Sound
  <1>9. LoanIsAttached'
    BY <1>1, <1>3 DEF IInv, Steady, LoanIsAttached, s
  <1>10. ExtensionsAreConserved'
    <2>1. \A q \in Requests : Busy(q) => Busy(q)'
      BY <1>1, <1>3 DEF Busy
    <2>. QED BY <1>1, <2>1 DEF IInv, Steady, ExtensionsAreConserved
  <1>. QED BY <1>5, <1>6, <1>7, <1>8, <1>9, <1>10 DEF Steady

\* The loan is lent: the index shows no loan of the request that is out, so
\* there is none.
LEMMA CheckoutKeeps ==
    ASSUME IInv, NEW w \in Workers, CheckoutPatronLoan(w)
    PROVE  Steady'
  <1>. DEFINE r == session[w].request
  <1>1. /\ Working(w, "create") /\ session[w] \in Handler /\ r \in Requests
        /\ UNCHANGED <<requests, loanIndex, asked, interrupted>>
        /\ ~ActiveLoanOn(r)
    BY DEF CheckoutPatronLoan, Working, IInv, TypeOK, Handler
  <1>2. PICK l \in Loans :
            /\ LendTo(w, l, r)
            /\ session' = [session EXCEPT ![w].op = "attach", ![w].loan = l]
    BY DEF CheckoutPatronLoan
  <1>3. Lent(l, r) /\ loans[l].state \in {"NONE", "PENDING"}
    BY <1>2 DEF LendTo
  <1>4. /\ loans'[l].state = "ITEM_ON_LOAN" /\ loans'[l].request = r
        /\ loans'[l].extended = 0 /\ loans[l].request = None
        /\ \A m \in Loans : m # l => loans'[m] = loans[m]
    BY <1>1, <1>3, LentType DEF IInv, Steady, LoansBelong
  <1>5. /\ session'[w] # Idle /\ session'[w].op = "attach"
        /\ session'[w].request = r /\ session'[w].record = session[w].record
        /\ session'[w].loan = l
        /\ \A v \in Workers : v # w => session'[v] = session[v]
    BY <1>1, <1>2 DEF IInv, TypeOK, Idle, Handler
  <1>6. Sound(w) /\ LoansBelong /\ LoanServesItsRequest
    BY DEF IInv, Steady
  <1>7. \A q \in Requests : requests[q].loan # l
    BY <1>3, <1>6 DEF LoanServesItsRequest
  <1>8. \A m \in Loans : loans[m].request = r => loans[m].state # "ITEM_ON_LOAN"
    BY <1>1, <1>6 DEF Sound, IndexIsCurrent, ActiveLoanOn
  <1>. HIDE DEF r
  <1>9. Alone'
    BY <1>1, <1>5 DEF IInv, Steady, Alone, Working, r
  <1>10. LoansBelong' /\ Unasked' /\ LoanServesItsRequest'
    BY <1>1, <1>4, <1>7 DEF IInv, Steady, LoansBelong, Unasked, LoanServesItsRequest
  <1>11. OneActiveLoanPerRequest'
    BY <1>4, <1>8 DEF IInv, Steady, OneActiveLoanPerRequest
  <1>12. LoanIsAttached'
    BY <1>1, <1>4, <1>5 DEF IInv, Steady, LoanIsAttached, Working
  <1>13. Sound(w)'
    BY <1>1, <1>4, <1>5, <1>6
       DEF Sound, ReadIsCurrent, IndexIsCurrent, LoanAwaitsRequest,
           GrantIsCounted, Working, r
  <1>14. ASSUME NEW v \in Workers, v # w PROVE Sound(v)'
    <2>1. Sound(v) /\ session'[v] = session[v]
      BY <1>5, <1>14 DEF IInv, Steady
    <2>2. session[v] # Idle => session[v].request # r /\ session[v] \in Handler
      BY <1>1, <1>14 DEF IInv, Steady, Alone, TypeOK, Working, r
    <2>3. ReadIsCurrent(v)'
      BY <1>1, <2>1 DEF Sound, ReadIsCurrent, Working
    <2>4. IndexIsCurrent(v)'
      BY <1>1, <1>4, <2>1, <2>2 DEF Sound, IndexIsCurrent, Working
    <2>5. LoanAwaitsRequest(v)'
      BY <1>3, <1>4, <2>1 DEF Sound, LoanAwaitsRequest, Working
    <2>6. GrantIsCounted(v)'
      <3>1. Working(v, "accept") \/ Working(v, "clear") =>
                /\ session[v].loan # l /\ session[v].loan \in Loans
        BY <1>7, <2>1, <2>2 DEF Sound, ReadIsCurrent, Working, Handler
      <3>. QED BY <1>1, <1>4, <2>1, <3>1 DEF Sound, GrantIsCounted, Working
    <2>. QED BY <2>3, <2>4, <2>5, <2>6 DEF Sound
  <1>15. ExtensionsAreConserved'
    <2>1. \A q \in Requests : Busy(q) => Busy(q)'
      BY <1>5 DEF Busy, r
    <2>2. \A q \in Requests : requests[q].loan # None => requests[q].loan \in Loans
      BY DEF IInv, TypeOK, RequestRecord
    <2>. QED
      BY <1>1, <1>4, <1>7, <2>1, <2>2 DEF IInv, Steady, ExtensionsAreConserved
  <1>. QED
    BY <1>9, <1>10, <1>11, <1>12, <1>13, <1>14, <1>15 DEF Steady

\* The request gets the loan, which nobody extended before.
LEMMA AttachKeeps ==
    ASSUME IInv, NEW w \in Workers, AttachPatronLoan(w)
    PROVE  Steady' /\ requests[session[w].request].loan = None
  <1>. DEFINE r == session[w].request
              l == session[w].loan
  <1>1. /\ Working(w, "attach") /\ session[w] \in Handler /\ r \in Requests
        /\ UNCHANGED <<loans, loanIndex, asked, interrupted>>
    BY DEF AttachPatronLoan, Working, IInv, TypeOK, Handler
  <1>2. Sound(w)
    BY DEF IInv, Steady
  <1>3. /\ l \in Loans /\ l # None /\ loans[l].request = r
        /\ loans[l].state \notin {"NONE", "PENDING"} /\ loans[l].extended = 0
        /\ requests[r].loan = None /\ session[w].record.extension = "none"
        /\ asked[r] = 0
    BY <1>1, <1>2, NoneAssumption
       DEF Sound, ReadIsCurrent, LoanAwaitsRequest, Working, IInv, Steady, Unasked
  <1>4. /\ requests'[r].loan = l /\ requests'[r].extension = "none"
        /\ \A q \in Requests : q # r => requests'[q] = requests[q]
        /\ session'[w] = Idle
        /\ \A v \in Workers : v # w => session'[v] = session[v]
    BY <1>1, <1>3 DEF AttachPatronLoan, IInv, TypeOK, Handler, RequestRecord
  <1>5. \A v \in Workers : v # w /\ session[v] # Idle =>
            session[v].request # r /\ session[v].request \in Requests
    BY <1>1 DEF IInv, Steady, Alone, TypeOK, Working, Handler
  <1>. HIDE DEF r, l
  <1>6. Alone' /\ LoansBelong' /\ OneActiveLoanPerRequest'
    BY <1>1, <1>4
       DEF IInv, Steady, Alone, LoansBelong, OneActiveLoanPerRequest
  <1>7. Unasked'
    BY <1>1, <1>3, <1>4 DEF IInv, Steady, Unasked
  <1>8. LoanServesItsRequest'
    BY <1>1, <1>3, <1>4 DEF IInv, Steady, LoanServesItsRequest
  <1>9. LoanIsAttached'
    <2>. SUFFICES ASSUME NEW m \in Loans, loans[m].state = "ITEM_ON_LOAN",
                         m # l
                  PROVE  \/ requests'[loans[m].request].loan = m
                         \/ \E v \in Workers : /\ session'[v] # Idle
                                               /\ session'[v].op = "attach"
                                               /\ session'[v].loan = m
                         \/ loans[m].request \in interrupted
      BY <1>1, <1>3, <1>4 DEF LoanIsAttached
    <2>1. loans[m].request \in Requests
      BY DEF IInv, Steady, LoansBelong
    <2>2. m # None
      BY NoneAssumption
    <2>. QED
      BY <1>3, <1>4, <2>1, <2>2 DEF IInv, Steady, LoanIsAttached, l
  <1>10. \A v \in Workers : Sound(v)'
    <2>1. Sound(w)'
      BY <1>4 DEF Sound, ReadIsCurrent, IndexIsCurrent, LoanAwaitsRequest,
                  GrantIsCounted, Working
    <2>2. ASSUME NEW v \in Workers, v # w PROVE Sound(v)'
      BY <1>1, <1>4, <1>5, <2>2
         DEF IInv, Steady, Sound, ReadIsCurrent, IndexIsCurrent,
             LoanAwaitsRequest, GrantIsCounted, Working
    <2>. QED BY <2>1, <2>2
  <1>11. ExtensionsAreConserved'
    <2>. SUFFICES ASSUME NEW q \in Requests, q # r, ~Busy(q)', q \notin interrupted
                  PROVE  \/ requests[q].loan = None /\ asked[q] = 0
                         \/ /\ requests[q].loan # None
                            /\ asked[q] = loans[requests[q].loan].extended
                                 + IF requests[q].extension = "none" THEN 0 ELSE 1
      BY <1>1, <1>3, <1>4 DEF ExtensionsAreConserved
    <2>1. ~Busy(q)
      BY <1>4 DEF Busy, r
    <2>. QED BY <2>1 DEF IInv, Steady, ExtensionsAreConserved
  <1>. QED
    BY <1>3, <1>6, <1>7, <1>8, <1>9, <1>10, <1>11 DEF Steady, r

\* The loan is extended once for what was asked.
LEMMA ExtendKeeps ==
    ASSUME IInv, NEW w \in Workers, ExtendPatronLoan(w)
    PROVE  Steady'
  <1>. DEFINE r == session[w].request
              l == session[w].loan
  <1>1. /\ Working(w, "accept") /\ session[w] \in Handler /\ r \in Requests
        /\ UNCHANGED <<requests, loanIndex, asked, interrupted>>
        /\ l # None /\ l \in Loans
    BY DEF ExtendPatronLoan, LoanIsActive, Working, IInv, TypeOK, Handler
  <1>2. loans[l] \in LoanRecord
    BY <1>1 DEF IInv, TypeOK
  <1>3. /\ loans'[l].state = loans[l].state /\ loans'[l].request = loans[l].request
        /\ loans'[l].extended = loans[l].extended + 1
        /\ \A m \in Loans : m # l => loans'[m] = loans[m]
    BY <1>1, <1>2 DEF ExtendPatronLoan, IInv, TypeOK, LoanRecord
  <1>4. /\ session'[w] # Idle /\ session'[w].op = "clear"
        /\ session'[w].request = r /\ session'[w].record = session[w].record
        /\ session'[w].loan = l
        /\ \A v \in Workers : v # w => session'[v] = session[v]
    BY <1>1 DEF ExtendPatronLoan, IInv, TypeOK, Idle, Handler
  <1>5. Sound(w) /\ loans[l].state = "ITEM_ON_LOAN" /\ loans[l].extended \in Nat
    BY <1>2 DEF ExtendPatronLoan, LoanIsActive, IInv, Steady, LoanRecord
  <1>6. requests[r].loan = l
    BY <1>1, <1>5 DEF Sound, ReadIsCurrent, Working
  <1>7. loans[l].request = r
    BY <1>1, <1>6 DEF IInv, Steady, LoanServesItsRequest
  <1>8. \A q \in Requests : q # r => requests[q].loan # l
    BY <1>1, <1>7 DEF IInv, Steady, LoanServesItsRequest
  <1>9. \A v \in Workers : v # w /\ session[v] # Idle =>
            session[v].request # r /\ session[v].request \in Requests
    BY <1>1 DEF IInv, Steady, Alone, TypeOK, Working, Handler
  <1>. HIDE DEF r, l
  <1>10. Alone'
    BY <1>1, <1>4 DEF IInv, Steady, Alone, Working, r
  <1>11. /\ LoansBelong' /\ Unasked' /\ LoanServesItsRequest'
         /\ OneActiveLoanPerRequest'
    BY <1>1, <1>3, <1>5
       DEF IInv, Steady, LoansBelong, Unasked, LoanServesItsRequest,
           OneActiveLoanPerRequest
  <1>12. LoanIsAttached'
    BY <1>1, <1>3, <1>4 DEF IInv, Steady, LoanIsAttached, Working
  <1>13. Sound(w)'
    <2>1. r \in interrupted \/ asked[r] = loans[l].extended + 1
      BY <1>1, <1>5 DEF Sound, GrantIsCounted, Working, r, l
    <2>2. requests[r].extension # "none"
      BY <1>1, <1>5 DEF Sound, GrantIsCounted, Working, r
    <2>3. GrantIsCounted(w)'
      BY <1>1, <1>3, <1>4, <1>5, <2>1, <2>2 DEF GrantIsCounted, Working
    <2>. QED
      BY <1>1, <1>4, <1>5, <2>3
         DEF Sound, ReadIsCurrent, IndexIsCurrent, LoanAwaitsRequest, Working, r, l
  <1>14. ASSUME NEW v \in Workers, v # w PROVE Sound(v)'
    <2>1. Sound(v) /\ session'[v] = session[v]
      BY <1>4, <1>14 DEF IInv, Steady
    <2>2. ReadIsCurrent(v)' /\ IndexIsCurrent(v)'
      BY <1>1, <1>3, <2>1 DEF Sound, ReadIsCurrent, IndexIsCurrent, Working
    <2>3. LoanAwaitsRequest(v)'
      BY <1>1, <1>3, <1>7, <1>9, <1>14, <2>1
         DEF Sound, LoanAwaitsRequest, Working
    <2>4. GrantIsCounted(v)'
      <3>1. Working(v, "accept") \/ Working(v, "clear") =>
                /\ session[v].loan # l /\ session[v].loan \in Loans
        <4>1. session[v] # Idle => session[v] \in Handler
          BY DEF IInv, TypeOK
        <4>. QED
          BY <1>8, <1>9, <1>14, <2>1, <4>1 DEF Sound, ReadIsCurrent, Working, Handler
      <3>. QED BY <1>1, <1>3, <2>1, <3>1 DEF Sound, GrantIsCounted, Working
    <2>. QED BY <2>2, <2>3, <2>4 DEF Sound
  <1>15. ExtensionsAreConserved'
    <2>1. \A q \in Requests : Busy(q) => Busy(q)'
      BY <1>4 DEF Busy, r
    <2>2. Busy(r)
      BY <1>1 DEF Busy, Working, r
    <2>3. \A q \in Requests : requests[q].loan # None => requests[q].loan \in Loans
      BY DEF IInv, TypeOK, RequestRecord
    <2>. QED
      BY <1>1, <1>3, <1>8, <2>1, <2>2, <2>3
         DEF IInv, Steady, ExtensionsAreConserved
  <1>. QED BY <1>10, <1>11, <1>12, <1>13, <1>14, <1>15 DEF Steady

\* The request is written as it was read, but for what was asked.
LEMMA ClearKeeps ==
    ASSUME IInv, NEW w \in Workers, ClearExtension(w)
    PROVE  /\ Steady'
           /\ LET r == session[w].request
              IN requests'[r].loan = requests[r].loan
  <1>. DEFINE r == session[w].request
              l == session[w].loan
  <1>1. /\ Working(w, "clear") /\ session[w] \in Handler /\ r \in Requests
        /\ UNCHANGED <<loans, loanIndex, asked, interrupted>>
    BY DEF ClearExtension, Working, IInv, TypeOK, Handler
  <1>2. Sound(w)
    BY DEF IInv, Steady
  <1>3. /\ l # None /\ requests[r].loan = l /\ session[w].record.loan = l
        /\ r \in interrupted \/ asked[r] = loans[l].extended + 0
    BY <1>1, <1>2 DEF Sound, ReadIsCurrent, GrantIsCounted, Working
  <1>4. /\ requests'[r].loan = l /\ requests'[r].extension = "none"
        /\ \A q \in Requests : q # r => requests'[q] = requests[q]
        /\ session'[w] = Idle
        /\ \A v \in Workers : v # w => session'[v] = session[v]
    BY <1>1, <1>3 DEF ClearExtension, IInv, TypeOK, Handler, RequestRecord
  <1>5. \A v \in Workers : v # w /\ session[v] # Idle =>
            session[v].request # r /\ session[v].request \in Requests
    BY <1>1 DEF IInv, Steady, Alone, TypeOK, Working, Handler
  <1>. HIDE DEF r, l
  <1>6. \A q \in Requests : requests'[q].loan = requests[q].loan
    BY <1>3, <1>4
  <1>7. Alone' /\ LoansBelong' /\ OneActiveLoanPerRequest'
    BY <1>1, <1>4
       DEF IInv, Steady, Alone, LoansBelong, OneActiveLoanPerRequest
  <1>8. Unasked'
    BY <1>1, <1>3, <1>4 DEF IInv, Steady, Unasked
  <1>9. LoanServesItsRequest'
    BY <1>1, <1>6 DEF IInv, Steady, LoanServesItsRequest
  <1>10. LoanIsAttached'
    <2>1. \A m \in Loans :
              loans[m].state = "ITEM_ON_LOAN" => loans[m].request \in Requests
      BY DEF IInv, Steady, LoansBelong
    <2>. QED
      BY <1>1, <1>4, <1>6, <2>1 DEF IInv, Steady, LoanIsAttached, Working
  <1>11. \A v \in Workers : Sound(v)'
    <2>1. Sound(w)'
      BY <1>4 DEF Sound, ReadIsCurrent, IndexIsCurrent, LoanAwaitsRequest,
                  GrantIsCounted, Working
    <2>2. ASSUME NEW v \in Workers, v # w PROVE Sound(v)'
      BY <1>1, <1>4, <1>5, <2>2
         DEF IInv, Steady, Sound, ReadIsCurrent, IndexIsCurrent,
             LoanAwaitsRequest, GrantIsCounted, Working
    <2>. QED BY <2>1, <2>2
  <1>12. ExtensionsAreConserved'
    <2>1. \A q \in Requests : q # r /\ Busy(q) => Busy(q)'
      BY <1>4 DEF Busy, r
    <2>. QED
      BY <1>1, <1>3, <1>4, <2>1 DEF IInv, Steady, ExtensionsAreConserved
  <1>. QED
    BY <1>1, <1>6, <1>7, <1>8, <1>9, <1>10, <1>11, <1>12 DEF Steady, r

\* A worker dies.
LEMMA InterruptKeeps ==
    ASSUME IInv, NEW w \in Workers, Interrupt(w)
    PROVE  Steady'
  <1>. DEFINE r == session[w].request
  <1>1. /\ session[w] # Idle /\ session[w] \in Handler
        /\ UNCHANGED <<requests, loans, loanIndex, asked>>
        /\ session'[w] = Idle
        /\ \A v \in Workers : v # w => session'[v] = session[v]
    BY DEF Interrupt, IInv, TypeOK
  <1>2. /\ interrupted' = IF session[w].op \in {"attach", "clear"}
                          THEN interrupted \cup {r} ELSE interrupted
        /\ interrupted \subseteq interrupted'
    BY DEF Interrupt
  <1>3. Sound(w)
    BY DEF IInv, Steady
  <1>. HIDE DEF r
  <1>4. /\ Alone' /\ LoansBelong' /\ Unasked' /\ OneActiveLoanPerRequest'
        /\ LoanServesItsRequest'
    BY <1>1 DEF IInv, Steady, Alone, LoansBelong, Unasked,
                OneActiveLoanPerRequest, LoanServesItsRequest
  <1>5. LoanIsAttached'
    <2>1. Working(w, "attach") => loans[session[w].loan].request = r
      BY <1>3 DEF Sound, LoanAwaitsRequest, r
    <2>. QED
      BY <1>1, <1>2, <2>1 DEF IInv, Steady, LoanIsAttached, Working
  <1>6. \A v \in Workers : Sound(v)'
    <2>1. Sound(w)'
      BY <1>1 DEF Sound, ReadIsCurrent, IndexIsCurrent, LoanAwaitsRequest,
                  GrantIsCounted, Working
    <2>2. ASSUME NEW v \in Workers, v # w PROVE Sound(v)'
      BY <1>1, <1>2, <2>2
         DEF IInv, Steady, Sound, ReadIsCurrent, IndexIsCurrent,
             LoanAwaitsRequest, GrantIsCounted, Working
    <2>. QED BY <2>1, <2>2
  <1>7. ExtensionsAreConserved'
    <2>1. \A q \in Requests : q # r /\ Busy(q) => Busy(q)'
      BY <1>1 DEF Busy, r
    <2>2. \/ r \in interrupted'
          \/ requests[r].loan = None /\ asked[r] = 0
          \/ /\ requests[r].loan # None
             /\ asked[r] = loans[requests[r].loan].extended
                           + IF requests[r].extension = "none" THEN 0 ELSE 1
      <3>1. r \in Requests /\ session[w].op \in {"create", "attach", "accept", "clear"}
        BY <1>1 DEF Handler, r
      <3>2. CASE session[w].op = "create"
        BY <1>1, <1>3, <3>1, <3>2
           DEF Sound, ReadIsCurrent, Working, IInv, Steady, Unasked, r
      <3>3. CASE session[w].op \in {"attach", "clear"}
        BY <1>2, <3>3
      <3>4. CASE session[w].op = "accept"
        <4>1. r \in interrupted \/ asked[r] = loans[session[w].loan].extended + 1
          BY <1>1, <1>3, <3>4 DEF Sound, GrantIsCounted, Working, r
        <4>2. /\ requests[r].extension # "none" /\ requests[r].loan # None
              /\ requests[r].loan = session[w].loan
          BY <1>1, <1>3, <3>4 DEF Sound, ReadIsCurrent, GrantIsCounted, Working, r
        <4>. QED BY <1>2, <4>1, <4>2
      <3>. QED BY <3>1, <3>2, <3>3, <3>4
    <2>3. ASSUME NEW q \in Requests, q # r
          PROVE  \/ Busy(q)
                 \/ q \in interrupted
                 \/ requests[q].loan = None /\ asked[q] = 0
                 \/ /\ requests[q].loan # None
                    /\ asked[q] = loans[requests[q].loan].extended
                           + IF requests[q].extension = "none" THEN 0 ELSE 1
      BY DEF IInv, Steady, ExtensionsAreConserved
    <2>. QED BY <1>1, <1>2, <2>1, <2>2, <2>3 DEF ExtensionsAreConserved
  <1>. QED BY <1>4, <1>5, <1>6, <1>7 DEF Steady

-----------------------------------------------------------------------------
(* What happens to requests and loans beside the handlers.                 *)

\* A request keeps its loan and what was asked, or an extension is asked for
\* or refused.
LEMMA EditKeeps ==
    ASSUME IInv, NEW r \in Requests,
           UNCHANGED <<loans, loanIndex, session, interrupted>>,
           \A q \in Requests : q # r => /\ requests'[q] = requests[q]
                                        /\ asked'[q] = asked[q],
           requests'[r].loan = requests[r].loan,
           \/ /\ requests'[r].extension = requests[r].extension
              /\ asked'[r] = asked[r]
           \/ /\ requests[r].extension = "none" /\ requests'[r].extension # "none"
              /\ asked'[r] = asked[r] + 1 /\ requests[r].loan # None
           \/ /\ requests[r].extension # "none" /\ requests'[r].extension # "none"
              /\ asked'[r] = asked[r] /\ requests[r].loan # None
    PROVE  Steady'
  <1>1. \A q \in Requests : requests'[q].loan = requests[q].loan
    OBVIOUS
  <1>2. /\ Alone' /\ LoansBelong' /\ OneActiveLoanPerRequest'
        /\ LoanServesItsRequest'
    BY <1>1 DEF IInv, Steady, Alone, LoansBelong, OneActiveLoanPerRequest,
                LoanServesItsRequest
  <1>3. Unasked'
    BY DEF IInv, Steady, Unasked
  <1>4. LoanIsAttached'
    <2>1. \A m \in Loans :
              loans[m].state = "ITEM_ON_LOAN" => loans[m].request \in Requests
      BY DEF IInv, Steady, LoansBelong
    <2>. QED BY <1>1, <2>1 DEF IInv, Steady, LoanIsAttached
  <1>5. ASSUME NEW v \in Workers PROVE Sound(v)'
    <2>1. Sound(v)
      BY DEF IInv, Steady
    <2>2. session[v] # Idle => session[v].request \in Requests
      BY DEF IInv, TypeOK, Handler
    <2>3. ReadIsCurrent(v)' /\ IndexIsCurrent(v)' /\ LoanAwaitsRequest(v)'
      BY <1>1, <2>1, <2>2
         DEF Sound, ReadIsCurrent, IndexIsCurrent, LoanAwaitsRequest, Working
    <2>4. GrantIsCounted(v)'
      BY <2>1, <2>2 DEF Sound, GrantIsCounted, Working
    <2>. QED BY <2>3, <2>4 DEF Sound
  <1>6. ExtensionsAreConserved'
    <2>1. \A q : Busy(q)' = Busy(q)
      BY DEF Busy
    <2>2. \A q \in Requests : requests[q].loan # None =>
              loans[requests[q].loan].extended \in Nat
      BY DEF IInv, TypeOK, RequestRecord, LoanRecord
    <2>3. ASSUME NEW q \in Requests, q # r
          PROVE  \/ Busy(q)' \/ q \in interrupted
                 \/ requests'[q].loan = None /\ asked'[q] = 0
                 \/ /\ requests'[q].loan # None
                    /\ asked'[q] = loans[requests'[q].loan].extended
                           + IF requests'[q].extension = "none" THEN 0 ELSE 1
      BY <2>1, <2>3 DEF IInv, Steady, ExtensionsAreConserved
    <2>4. \/ Busy(r)' \/ r \in interrupted
          \/ requests'[r].loan = None /\ asked'[r] = 0
          \/ /\ requests'[r].loan # None
             /\ asked'[r] = loans[requests'[r].loan].extended
                           + IF requests'[r].extension = "none" THEN 0 ELSE 1
      BY <2>1, <2>2 DEF IInv, Steady, ExtensionsAreConserved
    <2>. QED BY <2>3, <2>4 DEF ExtensionsAreConserved
  <1>. QED BY <1>2, <1>3, <1>4, <1>5, <1>6 DEF Steady

\* A loan that is lent to no request, or comes to an end, or is indexed.
LEMMA CirculationKeeps ==
    ASSUME IInv, NEW l \in Loans, UNCHANGED <<requests, session, asked, interrupted>>,
           \A m \in Loans : m # l => /\ loans'[m] = loans[m]
                                     /\ loanIndex'[m] = loanIndex[m],
           loans'[l].request = loans[l].request,
           loans'[l].extended = loans[l].extended,
           \/ /\ loans'[l] = loans[l]
              /\ loanIndex'[l].state = loans[l].state
              /\ loanIndex'[l].request = loans[l].request
           \/ /\ loans[l].state = "NONE" /\ loans'[l].state = "PENDING"
              /\ loanIndex'[l] = loanIndex[l]
           \/ /\ loans[l].state # "NONE"
              /\ loans'[l].state \in {"ITEM_RETURNED", "CANCELLED"}
              /\ loanIndex'[l] = loanIndex[l]
    PROVE  Steady'
  <1>1. \A m \in Loans :
            /\ loans'[m].request = loans[m].request
            /\ loans'[m].extended = loans[m].extended
            /\ loans'[m].state = "ITEM_ON_LOAN" => loans'[m] = loans[m]
            /\ loans[m].state \notin {"NONE", "PENDING"} =>
                   loans'[m].state \notin {"NONE", "PENDING"}
            /\ loans'[m].state \in {"NONE", "PENDING"} =>
                   loans[m].state \in {"NONE", "PENDING"}
    OBVIOUS
  <1>2. Alone' /\ LoansBelong' /\ Unasked' /\ OneActiveLoanPerRequest'
    BY <1>1 DEF IInv, Steady, Alone, LoansBelong, Unasked, OneActiveLoanPerRequest
  <1>3. LoanServesItsRequest'
    BY <1>1 DEF IInv, Steady, LoanServesItsRequest
  <1>4. LoanIsAttached'
    BY <1>1 DEF IInv, Steady, LoanIsAttached
  <1>5. ASSUME NEW v \in Workers PROVE Sound(v)'
    <2>1. Sound(v)
      BY DEF IInv, Steady
    <2>2. ReadIsCurrent(v)'
      BY <2>1 DEF Sound, ReadIsCurrent, Working
    <2>3. LoanAwaitsRequest(v)'
      BY <1>1, <2>1 DEF Sound, LoanAwaitsRequest, Working
    <2>4. IndexIsCurrent(v)'
      BY <1>1, <2>1 DEF Sound, IndexIsCurrent, Working
    <2>5. GrantIsCounted(v)'
      <3>1. Working(v, "accept") \/ Working(v, "clear") => session[v].loan \in Loans
        BY <2>1 DEF Sound, ReadIsCurrent, Working, IInv, TypeOK, Handler
      <3>. QED BY <1>1, <2>1, <3>1 DEF Sound, GrantIsCounted, Working
    <2>. QED BY <2>2, <2>3, <2>4, <2>5 DEF Sound
  <1>6. ExtensionsAreConserved'
    <2>1. \A q : Busy(q)' = Busy(q)
      BY DEF Busy
    <2>2. \A q \in Requests : requests[q].loan # None => requests[q].loan \in Loans
      BY DEF IInv, TypeOK, RequestRecord
    <2>. QED BY <1>1, <2>1, <2>2 DEF IInv, Steady, ExtensionsAreConserved
  <1>. QED BY <1>2, <1>3, <1>4, <1>5, <1>6 DEF Steady

LEMMA OthersKeep ==
    ASSUME IInv, Others
    PROVE  Steady'
  <1>0. TypeOK /\ \A r \in Requests : requests[r] \in RequestRecord
    BY DEF IInv, TypeOK
  <1>1. ASSUME NEW w \in Workers, CheckoutPatronLoan(w) PROVE Steady'
    BY <1>1, CheckoutKeeps
  <1>2. ASSUME NEW w \in Workers, AttachPatronLoan(w) PROVE Steady'
    BY <1>2, AttachKeeps
  <1>3. ASSUME NEW w \in Workers, ExtendPatronLoan(w) PROVE Steady'
    BY <1>3, ExtendKeeps
  <1>4. ASSUME NEW w \in Workers, ClearExtension(w) PROVE Steady'
    BY <1>4, ClearKeeps
  <1>5. ASSUME NEW w \in Workers, Interrupt(w) PROVE Steady'
    BY <1>5, InterruptKeeps
  <1>6. ASSUME NEW r \in Requests, RequestExtension(r) PROVE Steady'
    <2>1. /\ requests'[r].loan = requests[r].loan
          /\ requests[r].extension = "none" /\ requests'[r].extension = "PENDING"
          /\ \A q \in Requests : q # r => requests'[q] = requests[q]
      BY <1>0, <1>6 DEF RequestExtension, TypeOK, RequestRecord
    <2>2. /\ requests[r].loan # None
          /\ UNCHANGED <<loans, loanIndex, session, interrupted>>
          /\ asked'[r] = asked[r] + 1
          /\ \A q \in Requests : q # r => asked'[q] = asked[q]
      BY <1>0, <1>6 DEF RequestExtension, LoanIsActive, TypeOK
    <2>. QED BY <2>1, <2>2, EditKeeps
  <1>7. ASSUME NEW r \in Requests, DeclineExtension(r) PROVE Steady'
    <2>1. /\ requests'[r].loan = requests[r].loan
          /\ requests[r].extension # "none" /\ requests'[r].extension = "DECLINED"
          /\ \A q \in Requests : q # r => requests'[q] = requests[q]
      BY <1>0, <1>7 DEF DeclineExtension, TypeOK, RequestRecord
    <2>2. /\ requests[r].loan # None
          /\ UNCHANGED <<loans, loanIndex, session, asked, interrupted>>
      BY <1>7 DEF DeclineExtension, LoanIsActive
    <2>. QED BY <2>1, <2>2, EditKeeps
  <1>8. ASSUME NEW r \in Requests,
               (\E s \in Statuses : UpdateRequest(r, s)) \/ DeleteRequest(r)
        PROVE  Steady'
    <2>1. PICK s : requests' = [requests EXCEPT ![r].status = s]
      BY <1>8 DEF UpdateRequest, DeleteRequest
    <2>2. /\ requests'[r].loan = requests[r].loan
          /\ requests'[r].extension = requests[r].extension
          /\ \A q \in Requests : q # r => requests'[q] = requests[q]
      BY <1>0, <2>1 DEF TypeOK, RequestRecord
    <2>3. UNCHANGED <<loans, loanIndex, session, asked, interrupted>>
      BY <1>8 DEF UpdateRequest, DeleteRequest
    <2>. QED BY <2>2, <2>3, EditKeeps
  <1>9. ASSUME NEW p \in Patrons, RequestLoan(p) PROVE Steady'
    <2>1. PICK l \in Loans :
              /\ loans[l].state = "NONE"
              /\ loans' = [loans EXCEPT ![l] =
                     [loans[l] EXCEPT !.state = "PENDING", !.patron = p]]
      BY <1>9 DEF RequestLoan
    <2>2. loans[l] \in LoanRecord
      BY <1>0 DEF TypeOK
    <2>3. /\ loans'[l].state = "PENDING" /\ loans'[l].request = loans[l].request
          /\ loans'[l].extended = loans[l].extended
          /\ \A m \in Loans : m # l => loans'[m] = loans[m]
      BY <1>0, <2>1, <2>2 DEF TypeOK, LoanRecord
    <2>4. UNCHANGED <<requests, loanIndex, session, asked, interrupted>>
      BY <1>9 DEF RequestLoan
    <2>. QED BY <2>1, <2>3, <2>4, CirculationKeeps
  <1>10. ASSUME NEW l \in Loans, Checkin(l) \/ Cancel(l) PROVE Steady'
    <2>1. PICK s \in {"ITEM_RETURNED", "CANCELLED"} :
              loans' = [loans EXCEPT ![l].state = s]
      BY <1>10 DEF Checkin, Cancel
    <2>2. loans[l] \in LoanRecord /\ loans[l].state # "NONE"
      BY <1>0, <1>10 DEF TypeOK, Checkin, Cancel
    <2>3. /\ loans'[l].state = s /\ loans'[l].request = loans[l].request
          /\ loans'[l].extended = loans[l].extended
          /\ \A m \in Loans : m # l => loans'[m] = loans[m]
      BY <1>0, <2>1, <2>2 DEF TypeOK, LoanRecord
    <2>4. UNCHANGED <<requests, loanIndex, session, asked, interrupted>>
      BY <1>10 DEF Checkin, Cancel
    <2>. QED BY <2>2, <2>3, <2>4, CirculationKeeps
  <1>11. ASSUME NEW l \in Loans, RefreshLoan(l) PROVE Steady'
    <2>1. /\ loanIndex'[l] = Indexed(l)
          /\ \A m \in Loans : m # l => loanIndex'[m] = loanIndex[m]
          /\ UNCHANGED <<requests, loans, session, asked, interrupted>>
      BY <1>0, <1>11 DEF RefreshLoan, TypeOK
    <2>2. /\ loanIndex'[l].state = loans[l].state
          /\ loanIndex'[l].request = loans[l].request
      BY <2>1 DEF Indexed
    <2>. QED BY <2>1, <2>2, CirculationKeeps
  <1>. QED
    BY <1>1, <1>2, <1>3, <1>4, <1>5, <1>6, <1>7, <1>8, <1>9, <1>10, <1>11
       DEF Others

LEMMA CarefulStep == [CarefulNext]_vars => [Next]_vars
  BY DEF CarefulNext, Next

LEMMA NextInv == IInv /\ [CarefulNext]_vars => IInv'
  <1>. SUFFICES ASSUME IInv, [CarefulNext]_vars PROVE IInv'
    OBVIOUS
  <1>1. TypeOK'
    BY CarefulStep, NextType DEF IInv
  <1>2. CASE UNCHANGED vars
    BY <1>1, <1>2
       DEF vars, IInv, Steady, Alone, LoansBelong, Unasked, Sound, ReadIsCurrent,
           IndexIsCurrent, LoanAwaitsRequest, GrantIsCounted, Working,
           OneActiveLoanPerRequest, LoanServesItsRequest, LoanIsAttached,
           ExtensionsAreConserved, Busy
  <1>3. CASE CarefulNext
    BY <1>1, <1>3, BeginKeeps, OthersKeep DEF CarefulNext, IInv
  <1>. QED BY <1>2, <1>3

LEMMA Invariant == CarefulSpec => []IInv
  BY InitInv, NextInv, PTL DEF CarefulSpec

\* A request is never out on two loans, however its handlers are interrupted
\* and tried again, where librarians let one try settle before the next.
THEOREM OneLoanAtATime == CarefulSpec => []OneActiveLoanPerRequest
  <1>1. IInv => OneActiveLoanPerRequest
    BY DEF IInv, Steady
  <1>. QED BY <1>1, Invariant, PTL

\* Used so, the loan a request refers to is its own, and a loan that is out is
\* its request's, or about to be; else a worker died between the two commits.
THEOREM LoansAreAttached == CarefulSpec => []LoanAndRequestAgree
  <1>1. IInv => LoanAndRequestAgree
    BY DEF IInv, Steady, LoanAndRequestAgree
  <1>. QED BY <1>1, Invariant, PTL

\* Used so, what was asked is what was granted or is still open, but for the
\* requests that a worker died on.
THEOREM NoExtensionIsLost == CarefulSpec => []ExtensionsAreConserved
  <1>1. IInv => ExtensionsAreConserved
    BY DEF IInv, Steady
  <1>. QED BY <1>1, Invariant, PTL

\* Used so, a request that has its loan keeps it.
THEOREM LoansAreKept == CarefulSpec => KeepsItsLoan
  <1>. DEFINE Kept ==
          \A r \in Requests :
              requests[r].loan # None => requests'[r].loan = requests[r].loan
  <1>1. ASSUME IInv, [CarefulNext]_vars PROVE [Kept]_vars
    <2>0. requests \in [Requests -> RequestRecord]
      BY <1>1 DEF IInv, TypeOK
    <2>1. ASSUME NEW w \in Workers, AttachPatronLoan(w) PROVE Kept
      <3>1. requests[session[w].request].loan = None
        BY <1>1, <2>1, AttachKeeps
      <3>. QED BY <2>0, <2>1, <3>1 DEF AttachPatronLoan
    <2>2. ASSUME NEW w \in Workers, ClearExtension(w) PROVE Kept
      <3>1. \A q : q = session[w].request => requests'[q].loan = requests[q].loan
        BY <1>1, <2>2, ClearKeeps
      <3>. QED BY <2>0, <2>2, <3>1 DEF ClearExtension
    <2>3. ASSUME NEW r \in Requests,
                 \/ RequestExtension(r)
                 \/ DeclineExtension(r)
                 \/ \E s \in Statuses : UpdateRequest(r, s)
                 \/ DeleteRequest(r)
          PROVE  Kept
      BY <2>0, <2>3 DEF RequestExtension, DeclineExtension, UpdateRequest,
                        DeleteRequest, RequestRecord
    <2>4. CASE UNCHANGED requests
      BY <2>4
    <2>5. \/ UNCHANGED requests
          \/ \E w \in Workers : AttachPatronLoan(w) \/ ClearExtension(w)
          \/ \E r \in Requests :
                \/ RequestExtension(r)
                \/ DeclineExtension(r)
                \/ \E s \in Statuses : UpdateRequest(r, s)
                \/ DeleteRequest(r)
      BY <1>1 DEF CarefulNext, Others, Begin, PatronLoanCreate, AcceptExtension,
                  CheckoutPatronLoan, ExtendPatronLoan, Interrupt, RequestLoan,
                  Checkin, Cancel, RefreshLoan, vars
    <2>. QED BY <2>1, <2>2, <2>3, <2>4, <2>5
  <1>. QED BY <1>1, Invariant, PTL DEF CarefulSpec, KeepsItsLoan

-----------------------------------------------------------------------------
(* Whose loan it is does not depend on how careful librarians are.         *)

Serves(l, r) ==
    loans[l].request = r /\ loans[l].state \notin {"NONE", "PENDING"}

\* the loans that handlers carry are for their requests
CarriesItsLoans(w) ==
    /\ session[w] # Idle /\ session[w].record.loan # None =>
           Serves(session[w].record.loan, session[w].request)
    /\ session[w] # Idle /\ session[w].op # "create" =>
           /\ session[w].loan # None
           /\ Serves(session[w].loan, session[w].request)

ServesInv ==
    /\ TypeOK
    /\ \A w \in Workers : CarriesItsLoans(w)
    /\ LoanServesItsRequest

\* Only a loan that serves no request is lent to one.
LEMMA ServesForEver ==
    ASSUME TypeOK, [Next]_vars, NEW l \in Loans, NEW r \in Requests, Serves(l, r)
    PROVE  Serves(l, r)'
  <1>0. \A m \in Loans : loans[m] \in LoanRecord
    BY DEF TypeOK
  <1>1. CASE UNCHANGED loans
    BY <1>1 DEF Serves
  <1>2. ASSUME NEW w \in Workers, CheckoutPatronLoan(w) PROVE Serves(l, r)'
    <2>1. session[w].request \in Requests
      BY <1>2 DEF CheckoutPatronLoan, TypeOK, Handler
    <2>2. PICK m \in Loans : LendTo(w, m, session[w].request)
      BY <1>2 DEF CheckoutPatronLoan
    <2>3. m # l /\ Lent(m, session[w].request)
      BY <2>2 DEF LendTo, Serves
    <2>. QED BY <2>1, <2>2, <2>3, LentType DEF Serves
  <1>3. ASSUME NEW w \in Workers, ExtendPatronLoan(w) PROVE Serves(l, r)'
    <2>1. session[w].loan \in Loans
      BY <1>3 DEF ExtendPatronLoan, LoanIsActive, TypeOK, Handler
    <2>. QED BY <1>0, <1>3, <2>1 DEF ExtendPatronLoan, TypeOK, LoanRecord, Serves
  <1>4. ASSUME NEW p \in Patrons, RequestLoan(p) PROVE Serves(l, r)'
    BY <1>4 DEF RequestLoan, TypeOK, Serves
  <1>5. ASSUME NEW m \in Loans, Checkin(m) \/ Cancel(m) PROVE Serves(l, r)'
    BY <1>0, <1>5 DEF Checkin, Cancel, TypeOK, LoanRecord, Serves
  <1>6. \/ UNCHANGED loans
        \/ \E w \in Workers : CheckoutPatronLoan(w) \/ ExtendPatronLoan(w)
        \/ \E p \in Patrons : RequestLoan(p)
        \/ \E m \in Loans : Checkin(m) \/ Cancel(m)
    BY DEF Next, Others, Begin, PatronLoanCreate, AcceptExtension,
           AttachPatronLoan, ClearExtension, Interrupt, RequestExtension,
           DeclineExtension, UpdateRequest, DeleteRequest, RefreshLoan, vars
  <1>. QED BY <1>1, <1>2, <1>3, <1>4, <1>5, <1>6

\* What a handler carries comes from the request or from the checkout.
LEMMA CarriedStep ==
    ASSUME ServesInv, [Next]_vars, NEW w \in Workers
    PROVE  CarriesItsLoans(w)'
  <1>0. TypeOK' /\ \A r \in Requests, l \in Loans : Serves(l, r) => Serves(l, r)'
    BY NextType, ServesForEver DEF ServesInv
  <1>1. CASE session'[w] = Idle
    BY <1>1 DEF CarriesItsLoans
  <1>2. CASE session'[w] = session[w] /\ session[w] # Idle
    <2>1. session[w] \in Handler
      BY <1>2 DEF ServesInv, TypeOK
    <2>2. /\ session[w].request \in Requests /\ session[w].loan \in Loans \cup {None}
          /\ session[w].record.loan \in Loans \cup {None}
      BY <2>1 DEF Handler, RequestRecord
    <2>3. \A l, r : l = session[w].record.loan /\ r = session[w].request /\ l # None
              => Serves(l, r)'
      BY <1>0, <1>2, <2>2 DEF ServesInv, CarriesItsLoans
    <2>4. \A l, r : l = session[w].loan /\ r = session[w].request
              /\ session[w].op # "create" => l # None /\ Serves(l, r)'
      BY <1>0, <1>2, <2>2 DEF ServesInv, CarriesItsLoans
    <2>. QED BY <1>2, <2>3, <2>4 DEF CarriesItsLoans, Serves
  <1>3. ASSUME NEW r \in Requests, Begin(w, r) PROVE CarriesItsLoans(w)'
    <2>1. requests[r] \in RequestRecord /\ UNCHANGED <<loans>>
      BY <1>3 DEF Begin, PatronLoanCreate, AcceptExtension, ServesInv, TypeOK
    <2>2. /\ session'[w].request = r /\ session'[w].record = requests[r]
          /\ session'[w].op # "create" => /\ requests[r].loan # None
                                          /\ session'[w].loan = requests[r].loan
      BY <1>3 DEF Begin, PatronLoanCreate, AcceptExtension, ServesInv, TypeOK
    <2>3. requests[r].loan # None => Serves(requests[r].loan, r)
      BY <2>1 DEF ServesInv, LoanServesItsRequest, Serves, RequestRecord
    <2>. QED BY <2>1, <2>2, <2>3 DEF CarriesItsLoans, Serves
  <1>4. CASE CheckoutPatronLoan(w)
    <2>1. session[w] \in Handler
      BY <1>4 DEF CheckoutPatronLoan, ServesInv, TypeOK
    <2>2. PICK l \in Loans :
              /\ LendTo(w, l, session[w].request)
              /\ session' = [session EXCEPT ![w].op = "attach", ![w].loan = l]
      BY <1>4 DEF CheckoutPatronLoan
    <2>3. session'[w].request = session[w].request /\ session'[w].loan = l
          /\ session'[w].record = session[w].record
      BY <2>1, <2>2 DEF ServesInv, TypeOK, Handler
    <2>4. /\ session[w].request \in Requests
          /\ session[w].record.loan \in Loans \cup {None}
      BY <2>1 DEF Handler, RequestRecord
    <2>5. loans'[l].request = session[w].request /\ loans'[l].state = "ITEM_ON_LOAN"
      BY <2>2, <2>4, LentType DEF LendTo, ServesInv
    <2>6. \A m, r : m = session[w].record.loan /\ r = session[w].request /\ m # None
              => Serves(m, r)'
      BY <1>0, <1>4, <2>4 DEF ServesInv, CarriesItsLoans, CheckoutPatronLoan
    <2>7. l # None
      BY NoneAssumption
    <2>. QED BY <2>3, <2>5, <2>6, <2>7 DEF CarriesItsLoans, Serves
  <1>5. CASE ExtendPatronLoan(w)
    <2>1. session[w] \in Handler
      BY <1>5 DEF ExtendPatronLoan, ServesInv, TypeOK
    <2>2. session'[w].request = session[w].request
          /\ session'[w].loan = session[w].loan
          /\ session'[w].record = session[w].record
      BY <1>5, <2>1 DEF ExtendPatronLoan, ServesInv, TypeOK, Handler
    <2>3. /\ session[w].request \in Requests
          /\ session[w].record.loan \in Loans \cup {None}
          /\ session[w].loan \in Loans \cup {None}
      BY <2>1 DEF Handler, RequestRecord
    <2>4. \A m, r : m = session[w].record.loan /\ r = session[w].request /\ m # None
              => Serves(m, r)'
      BY <1>0, <1>5, <2>3 DEF ServesInv, CarriesItsLoans, ExtendPatronLoan
    <2>5. \A m, r : m = session[w].loan /\ r = session[w].request
              => m # None /\ Serves(m, r)'
      BY <1>0, <1>5, <2>3 DEF ServesInv, CarriesItsLoans, ExtendPatronLoan
    <2>. QED BY <2>2, <2>4, <2>5 DEF CarriesItsLoans, Serves
  <1>6. \/ session'[w] = Idle
        \/ session'[w] = session[w]
        \/ \E r \in Requests : Begin(w, r)
        \/ CheckoutPatronLoan(w)
        \/ ExtendPatronLoan(w)
    <2>1. \A v \in Workers, r \in Requests :
              Begin(v, r) => v = w \/ session'[w] = session[w]
      BY DEF Begin, PatronLoanCreate, AcceptExtension, ServesInv, TypeOK
    <2>2. \A v \in Workers : CheckoutPatronLoan(v) \/ ExtendPatronLoan(v) =>
              v = w \/ session'[w] = session[w]
      BY DEF CheckoutPatronLoan, ExtendPatronLoan, ServesInv, TypeOK
    <2>3. \A v \in Workers :
              AttachPatronLoan(v) \/ ClearExtension(v) \/ Interrupt(v) =>
                  session'[w] = Idle \/ session'[w] = session[w]
      BY DEF AttachPatronLoan, ClearExtension, Interrupt, ServesInv, TypeOK
    <2>4. \/ UNCHANGED session
          \/ \E v \in Workers, r \in Requests : Begin(v, r)
          \/ \E v \in Workers : CheckoutPatronLoan(v) \/ ExtendPatronLoan(v)
          \/ \E v \in Workers :
                AttachPatronLoan(v) \/ ClearExtension(v) \/ Interrupt(v)
      BY DEF Next, Others, RequestExtension, DeclineExtension, UpdateRequest,
             DeleteRequest, RequestLoan, Checkin, Cancel, RefreshLoan, vars
    <2>. QED BY <2>1, <2>2, <2>3, <2>4
  <1>. QED BY <1>1, <1>2, <1>3, <1>4, <1>5, <1>6

\* What a handler writes into the request is what it carried.
LEMMA ServesStep == ServesInv /\ [Next]_vars => ServesInv'
  <1>. SUFFICES ASSUME ServesInv, [Next]_vars PROVE ServesInv'
    OBVIOUS
  <1>0. TypeOK' /\ \A r \in Requests, l \in Loans : Serves(l, r) => Serves(l, r)'
    BY NextType, ServesForEver DEF ServesInv
  <1>1. \A w \in Workers : CarriesItsLoans(w)'
    BY CarriedStep
  <1>2. ASSUME NEW r \in Requests, NEW l \in Loans, requests'[r].loan = l
        PROVE  Serves(l, r)
    <2>0. l # None /\ requests \in [Requests -> RequestRecord]
      BY NoneAssumption DEF ServesInv, TypeOK
    <2>1. CASE requests'[r].loan = requests[r].loan
      BY <1>2, <2>1 DEF ServesInv, LoanServesItsRequest, Serves
    <2>2. CASE requests'[r].loan # requests[r].loan
      <3>1. PICK w \in Workers : AttachPatronLoan(w) \/ ClearExtension(w)
        <4>1. ASSUME NEW q \in Requests,
                     \/ RequestExtension(q)
                     \/ DeclineExtension(q)
                     \/ \E s \in Statuses : UpdateRequest(q, s)
                     \/ DeleteRequest(q)
              PROVE  requests'[r].loan = requests[r].loan
          BY <2>0, <4>1 DEF RequestExtension, DeclineExtension, UpdateRequest,
                            DeleteRequest, RequestRecord
        <4>2. \/ UNCHANGED requests
              \/ \E w \in Workers : AttachPatronLoan(w) \/ ClearExtension(w)
              \/ \E q \in Requests :
                    \/ RequestExtension(q)
                    \/ DeclineExtension(q)
                    \/ \E s \in Statuses : UpdateRequest(q, s)
                    \/ DeleteRequest(q)
          BY DEF Next, Others, Begin, PatronLoanCreate, AcceptExtension,
                 CheckoutPatronLoan, ExtendPatronLoan, Interrupt, RequestLoan,
                 Checkin, Cancel, RefreshLoan, vars
        <4>. QED BY <2>2, <4>1, <4>2
      <3>2. session[w] # Idle /\ session[w] \in Handler /\ CarriesItsLoans(w)
        BY <3>1 DEF AttachPatronLoan, ClearExtension, ServesInv, TypeOK
      <3>3. /\ r = session[w].request
            /\ \/ session[w].op # "create" /\ l = session[w].loan
               \/ l = session[w].record.loan
        <4>1. session[w].request \in Requests /\ session[w].record \in RequestRecord
          BY <3>2 DEF Handler
        <4>2. CASE AttachPatronLoan(w)
          <5>1. session[w].op = "attach" /\ r = session[w].request
            BY <2>0, <2>2, <4>1, <4>2 DEF AttachPatronLoan
          <5>2. requests'[r].loan = session[w].loan
            BY <2>0, <4>1, <4>2, <5>1 DEF AttachPatronLoan, RequestRecord
          <5>. QED BY <1>2, <5>1, <5>2
        <4>3. CASE ClearExtension(w)
          <5>1. r = session[w].request
            BY <2>0, <2>2, <4>1, <4>3 DEF ClearExtension
          <5>2. requests'[r].loan = session[w].record.loan
            BY <2>0, <4>1, <4>3, <5>1 DEF ClearExtension, RequestRecord
          <5>. QED BY <1>2, <5>1, <5>2
        <4>. QED BY <3>1, <4>2, <4>3
      <3>. QED BY <2>0, <3>2, <3>3 DEF CarriesItsLoans
    <2>. QED BY <2>1, <2>2
  <1>3. LoanServesItsRequest'
    BY <1>0, <1>2 DEF LoanServesItsRequest, Serves
  <1>. QED BY <1>0, <1>1, <1>3 DEF ServesInv

\* A request refers to a loan that was made for it, and to one only, however
\* many desks are at work on it and however stale the index.
THEOREM LoansServe == Spec => []LoanServesItsRequest
  <1>1. Init => ServesInv
    <2>. SUFFICES ASSUME Init PROVE ServesInv
      OBVIOUS
    <2>1. /\ \A w \in Workers : session[w] = Idle
          /\ \A r \in Requests : requests[r].loan = None
      BY DEF Init
    <2>. QED
      BY <2>1, InitType, NoneAssumption
         DEF ServesInv, CarriesItsLoans, LoanServesItsRequest
  <1>2. ServesInv => LoanServesItsRequest
    BY DEF ServesInv
  <1>. QED BY <1>1, <1>2, ServesStep, PTL DEF Spec
=============================================================================
