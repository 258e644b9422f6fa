----------------------------- MODULE AuthProofs ------------------------------
(***************************************************************************)
(* Proofs about Auth, for any number of browsers and sessions, any life of *)
(* a session and an unbounded clock.                                       *)
(***************************************************************************)
EXTENDS Auth, TLAPS

\* Nobody has logged in.
LEMMA AuthBegins == Init => TypeOK /\ IndInv
  BY TTLAssumption
  DEF Init, TypeOK, IndInv, NoCookie, SessionsPruned, CookieOutlives

\* Logins, their lost or late answers, the use of cookies, the clock and a
\* restart of the controller preserve the invariant.
LEMMA AuthStep == TypeOK /\ IndInv /\ [Next]_vars => TypeOK' /\ IndInv'
<1> SUFFICES ASSUME TypeOK, IndInv, [Next]_vars PROVE TypeOK' /\ IndInv'
  OBVIOUS
<1> USE TTLAssumption, AbsentAssumption
    DEF TypeOK, IndInv, NoCookie, SessionsPruned, CookieOutlives
<1>1. CASE \E b \in Browsers, given \in Tokens, s \in Sessions : exchange(b, given, s)
  BY <1>1 DEF exchange, Prune
<1>2. CASE \E r \in replies : Receive(r)
  BY <1>2 DEF Receive, MaxAge
<1>3. CASE \E r \in replies : Lose(r)
  BY <1>3 DEF Lose
<1>4. CASE \E b \in Browsers : Use(b)
  BY <1>4 DEF Use, validSession
<1>5. CASE Tick
  BY <1>5 DEF Tick
<1>6. CASE Restart
  BY <1>6 DEF Restart
<1>7. CASE UNCHANGED vars
  BY <1>7 DEF vars
<1> QED
  BY <1>1, <1>2, <1>3, <1>4, <1>5, <1>6, <1>7 DEF Next

\* The values keep their types.
THEOREM AuthTypes == Spec => []TypeOK
  BY AuthBegins, AuthStep, PTL DEF Spec

\* The session map, the cookies and the logins stay in step.
THEOREM AuthInvariant == Spec => []IndInv
  BY AuthBegins, AuthStep, PTL DEF Spec

\* The order of early returns in loopbackOnly and Wrap amounts to the policy
\* the documentation states, at every time and after every history of logins.
THEOREM GateIsPolicy == Spec => []AdmissionPolicy
<1>1. TypeOK /\ IndInv => AdmissionPolicy
  <2> SUFFICES ASSUME TypeOK, IndInv, NEW q \in Requests
               PROVE  Gate(q) = "admitted" <=>
                        /\ q.loopback
                        /\ \/ token = "empty"
                           \/ q.bearer = token
                           \/ /\ q.cookie \in Sessions /\ issued[q.cookie] > now
                              /\ q.write => q.origin
    BY DEF AdmissionPolicy
  <2>1. validBearer(q.bearer) <=> q.bearer = token
    BY AbsentAssumption DEF validBearer, TypeOK
  <2>2. validSession(q.cookie) <=> q.cookie \in Sessions /\ issued[q.cookie] > now
    BY AbsentAssumption DEF validSession, Requests, TypeOK, IndInv
  <2>3. q.loopback \in BOOLEAN /\ q.write \in BOOLEAN /\ q.origin \in BOOLEAN
    BY DEF Requests
  <2> QED
    BY <2>1, <2>2, <2>3 DEF Gate, Enabled
<1> QED
  BY <1>1, AuthTypes, AuthInvariant, PTL

\* Sessions nobody uses do not pile up over logins.
THEOREM SessionsArePruned == Spec => []SessionsPruned
  BY AuthInvariant, PTL DEF IndInv

\* No browser forgets a session before the server does.
THEOREM CookiesOutlive == Spec => []CookieOutlives
  BY AuthInvariant, PTL DEF IndInv
=============================================================================
