---------------------------- MODULE RacesProofs ----------------------------
(***************************************************************************)
(* For any number of requests that overlap, and any limits: how often a    *)
(* code serves and which, when logins are blocked or slowed down, and that *)
(* interest is paid once.                                                  *)
(***************************************************************************)
EXTENDS Races, SequenceTheorems, WellFoundedInduction, TLAPS

LEMMA SeqOfFunction ==
  ASSUME NEW S, NEW n \in Nat, NEW s \in [1 .. n -> S]
  PROVE  s \in Seq(S) /\ Len(s) = n
  <1>1. s \in Seq(S)
    BY SeqDef
  <1> QED
    BY <1>1

\* A nonempty set of numbers up to n has a greatest.
LEMMA GreatestExists ==
  ASSUME NEW n \in Nat, NEW S \in SUBSET (1 .. n), S # {}
  PROVE  \E m \in S : \A k \in S : k <= m
  <1> DEFINE T == {n - k : k \in S}
  <1>1. T \subseteq Nat /\ T # {}
    <2>1. \A k \in S : n - k \in Nat
      OBVIOUS
    <2> QED
      BY <2>1
  <1>2. PICK x \in T : \A y \in T : ~(<<y, x>> \in OpToRel(<, Nat))
    BY <1>1, NatLessThanWellFounded, WFMin
  <1>3. PICK m \in S : x = n - m
    OBVIOUS
  <1>4. ASSUME NEW k \in S
        PROVE  k <= m
    <2>1. n - k \in T /\ n - k \in Nat /\ x \in Nat /\ k \in Nat /\ m \in Nat
      BY <1>1, <1>3
    <2>2. ~(n - k < x)
      BY <1>2, <2>1 DEF OpToRel
    <2> QED
      BY <1>3, <2>1, <2>2
  <1> QED
    BY <1>4
-----------------------------------------------------------------------------
(***************************************************************************)
(* PasswordReset.                                                          *)
(***************************************************************************)
Writing == [step: {"store", "clear"}, seen: Nat]
Comparing == [step: {"spend", "count"}, number: Nat, copy: Recovery!Code]

RecoveryTypeInv ==
  /\ otp \in Seq(Recovery!Code) /\ granted \in Seq(Nat) /\ wrong \in Seq(Nat)
  /\ Len(granted) = Len(otp) /\ Len(wrong) = Len(otp)
  /\ call \in [Calls -> Writing \cup Comparing \cup {None}]
  /\ cleared \in Nat /\ cleared <= Len(otp)

\* A code that no two requests have written to: its attempts are counted, it is spent
\* by a token or the last attempt, and unless it is the newest, sent after the last
\* reset, it is spent as well.
CodeInv ==
  \A n \in 1 .. Len(otp) : n \notin raced =>
    /\ wrong[n] = otp[n].attempts /\ wrong[n] <= MaxAttempts
    /\ granted[n] <= 1
    /\ granted[n] = 1 \/ wrong[n] = MaxAttempts => otp[n].spent
    /\ ~otp[n].spent => n > cleared /\ n = Len(otp)

\* A code is compared while it could be used, and while a new one is on its way to the
\* table the earlier ones are spent.
CallOk(r) ==
  /\ call[r].step \in {"spend", "count"} =>
       call[r] \in Comparing /\ call[r].number \in 1 .. Len(otp) /\ ~call[r].copy.spent
  /\ call[r].step \in {"store", "clear"} => call[r] \in Writing /\ call[r].seen <= Len(otp)
  /\ call[r].step = "store" => \A n \in 1 .. call[r].seen : n \notin raced => otp[n].spent

CallInv == \A r \in Calls : call[r] # None => CallOk(r)

RecoveryInv == RecoveryTypeInv /\ CodeInv /\ CallInv

\* To spend every code changes nothing else of them.
LEMMA CodesSpent ==
  ASSUME RecoveryTypeInv
  PROVE  /\ Recovery!Spent \in Seq(Recovery!Code)
         /\ Len(Recovery!Spent) = Len(otp)
         /\ \A n \in 1 .. Len(otp) : /\ Recovery!Spent[n].spent
                                     /\ Recovery!Spent[n].attempts = otp[n].attempts
  <1>1. \A n \in 1 .. Len(otp) : otp[n] \in Recovery!Code
    BY DEF RecoveryTypeInv
  <1>2. Recovery!Spent \in [1 .. Len(otp) -> Recovery!Code]
    BY <1>1 DEF Recovery!Spent, Recovery!Numbers, Recovery!Code
  <1>3. Len(otp) \in Nat
    BY DEF RecoveryTypeInv
  <1>4. \A n \in 1 .. Len(otp) : /\ Recovery!Spent[n].spent
                                 /\ Recovery!Spent[n].attempts = otp[n].attempts
    BY <1>1 DEF Recovery!Spent, Recovery!Numbers, Recovery!Code
  <1> QED
    BY <1>2, <1>3, <1>4, SeqOfFunction

LEMMA SpendEarlierCodesKeeps ==
  ASSUME RecoveryInv, NEW r \in Calls, Recovery!SpendEarlierCodes(r)
  PROVE  RecoveryInv'
  <1> USE DEF RecoveryInv, Recovery!SpendEarlierCodes
  <1> DEFINE c == [step |-> "store", seen |-> Len(otp)]
  <1>1. Len(otp) \in Nat /\ c \in Writing
    BY DEF RecoveryTypeInv, Writing
  <1>2. /\ otp' \in Seq(Recovery!Code) /\ Len(otp') = Len(otp)
        /\ \A n \in 1 .. Len(otp) : otp'[n].spent /\ otp'[n].attempts = otp[n].attempts
    BY CodesSpent
  <1>3. call' = [call EXCEPT ![r] = c]
    OBVIOUS
  <1>4. RecoveryTypeInv'
    BY <1>1, <1>2, <1>3 DEF RecoveryTypeInv
  <1>5. CodeInv'
    BY <1>2 DEF CodeInv, RecoveryTypeInv
  <1>6. CallInv'
    <2> SUFFICES ASSUME NEW q \in Calls, call'[q] # None
                 PROVE  CallOk(q)'
      BY DEF CallInv
    <2>1. CASE q = r
      BY <1>1, <1>2, <1>3, <2>1 DEF RecoveryTypeInv, CallOk
    <2>2. CASE q # r
      <3>1. call'[q] = call[q]
        BY <1>3, <2>2 DEF RecoveryTypeInv
      <3>2. call[q].step \in {"store", "clear"} =>
              /\ call[q] \in Writing /\ call[q].seen <= Len(otp) /\ call[q].seen \in Nat
        BY <3>1 DEF CallInv, CallOk, Writing
      <3> QED
        BY <1>1, <1>2, <3>1, <3>2 DEF CallInv, CallOk
    <2> QED
      BY <2>1, <2>2
  <1> QED
    BY <1>4, <1>5, <1>6

LEMMA StoreCodeKeeps ==
  ASSUME RecoveryInv, NEW r \in Calls, Recovery!StoreCode(r)
  PROVE  RecoveryInv'
  <1> USE DEF RecoveryInv, Recovery!StoreCode
  <1> DEFINE new == [spent |-> FALSE, expired |-> FALSE, attempts |-> 0]
             old == call[r].seen
  <1>1. /\ Len(otp) \in Nat /\ call[r] \in Writing /\ old \in Nat /\ old <= Len(otp)
        /\ \A n \in 1 .. old : n \notin raced => otp[n].spent
    BY DEF RecoveryTypeInv, CallInv, CallOk, Writing
  <1>2. /\ otp' \in Seq(Recovery!Code) /\ Len(otp') = Len(otp) + 1
        /\ \A n \in 1 .. Len(otp) : otp'[n] = otp[n]
        /\ otp'[Len(otp) + 1] = new
    BY <1>1 DEF RecoveryTypeInv, Recovery!Code
  <1>3. /\ granted' \in Seq(Nat) /\ Len(granted') = Len(otp) + 1
        /\ \A n \in 1 .. Len(otp) : granted'[n] = granted[n]
        /\ granted'[Len(otp) + 1] = 0
        /\ wrong' \in Seq(Nat) /\ Len(wrong') = Len(otp) + 1
        /\ \A n \in 1 .. Len(otp) : wrong'[n] = wrong[n]
        /\ wrong'[Len(otp) + 1] = 0
    BY <1>1 DEF RecoveryTypeInv
  <1>4. call' = [call EXCEPT ![r] = None] /\ raced' = raced \cup (old + 1 .. Len(otp))
    OBVIOUS
  <1>5. RecoveryTypeInv'
    BY <1>1, <1>2, <1>3, <1>4 DEF RecoveryTypeInv
  <1>6. CodeInv'
    <2> SUFFICES ASSUME NEW n \in 1 .. Len(otp) + 1, n \notin raced'
                 PROVE  /\ wrong'[n] = otp'[n].attempts /\ wrong'[n] <= MaxAttempts
                        /\ granted'[n] <= 1
                        /\ granted'[n] = 1 \/ wrong'[n] = MaxAttempts => otp'[n].spent
                        /\ ~otp'[n].spent => n > cleared /\ n = Len(otp) + 1
      BY <1>1, <1>2 DEF CodeInv
    <2>1. CASE n = Len(otp) + 1
      BY <1>1, <1>2, <1>3, <2>1, RacesAssumption DEF RecoveryTypeInv
    <2>2. CASE n # Len(otp) + 1
      <3>1. n \in 1 .. Len(otp) /\ n \notin raced /\ n \in 1 .. old
        BY <1>1, <1>4, <2>2
      <3> QED
        BY SMTT(60), <1>1, <1>2, <1>3, <3>1 DEF CodeInv
    <2> QED
      BY <2>1, <2>2
  <1>7. CallInv'
    <2> SUFFICES ASSUME NEW q \in Calls, call'[q] # None
                 PROVE  CallOk(q)'
      BY DEF CallInv
    <2>1. call'[q] = call[q] /\ call[q] # None
      BY <1>4 DEF RecoveryTypeInv
    <2>2. call[q].step \in {"store", "clear"} =>
            /\ call[q] \in Writing /\ call[q].seen <= Len(otp) /\ call[q].seen \in Nat
      BY <2>1 DEF CallInv, CallOk, Writing
    <2>3. call[q].step = "store" => \A n \in 1 .. call[q].seen : n \notin raced' => otp'[n].spent
      BY <1>1, <1>2, <1>4, <2>1, <2>2 DEF CallInv, CallOk
    <2>4. call[q].step \in {"spend", "count"} =>
            /\ call[q] \in Comparing /\ call[q].number \in 1 .. Len(otp) + 1
            /\ ~call[q].copy.spent
      BY <1>1, <2>1 DEF CallInv, CallOk
    <2> QED
      BY <1>1, <1>2, <2>1, <2>2, <2>3, <2>4 DEF CallOk
  <1> QED
    BY <1>5, <1>6, <1>7

LEMMA FindCodeKeeps ==
  ASSUME RecoveryInv, NEW r \in Calls, NEW typed, Recovery!FindCode(r, typed)
  PROVE  RecoveryInv'
  <1> USE DEF RecoveryInv
  <1>1. Len(otp) \in Nat
    BY DEF RecoveryTypeInv
  <1> DEFINE S == {n \in 1 .. Len(otp) : Recovery!Usable(n)}
             number == CHOOSE n \in Recovery!Numbers :
                         Recovery!Usable(n) /\ \A k \in Recovery!Numbers : Recovery!Usable(k) => k <= n
  <1>2. \E m \in S : \A k \in S : k <= m
    BY <1>1, GreatestExists DEF Recovery!FindCode, Recovery!Numbers
  <1>3. number \in 1 .. Len(otp) /\ Recovery!Usable(number)
    BY <1>2 DEF Recovery!Numbers
  <1> DEFINE c == [step |-> IF typed = number THEN "spend" ELSE "count",
                   number |-> number, copy |-> otp[number]]
  <1>4. /\ call' = [call EXCEPT ![r] = c]
        /\ UNCHANGED <<otp, token, granted, wrong, cleared, resets, raced>>
    BY DEF Recovery!FindCode
  <1>5. otp[number] \in Recovery!Code /\ ~otp[number].spent
    BY <1>1, <1>3 DEF RecoveryTypeInv, Recovery!Usable
  <1> HIDE DEF number
  <1>6. c \in Comparing /\ c.step \in {"spend", "count"} /\ c.number = number
        /\ c.copy = otp[number]
    BY <1>3, <1>5 DEF Comparing
  <1> HIDE DEF c
  <1>7. RecoveryTypeInv'
    BY <1>4, <1>6 DEF RecoveryTypeInv
  <1>8. CodeInv'
    BY <1>4 DEF CodeInv
  <1>9. CallInv'
    <2> SUFFICES ASSUME NEW q \in Calls, call'[q] # None
                 PROVE  CallOk(q)'
      BY DEF CallInv
    <2>1. CASE q = r
      BY <1>3, <1>4, <1>5, <1>6, <2>1 DEF RecoveryTypeInv, CallOk
    <2>2. CASE q # r
      BY <1>4, <2>2 DEF RecoveryTypeInv, CallInv, CallOk
    <2> QED
      BY <2>1, <2>2
  <1> QED
    BY <1>7, <1>8, <1>9

\* A save of the copy with changes: if the row was as the copy, the code is not raced
\* and the row is now the changed copy.
LEMMA SaveKeeps ==
  ASSUME RecoveryInv, NEW r \in Calls, call[r] # None, call[r].step \in {"spend", "count"},
         NEW changed \in Recovery!Code, Recovery!Save(r, changed), cleared' = cleared,
         granted' \in Seq(Nat), Len(granted') = Len(otp),
         wrong' \in Seq(Nat), Len(wrong') = Len(otp),
         \A n \in 1 .. Len(otp) : n # call[r].number => /\ granted'[n] = granted[n]
                                                        /\ wrong'[n] = wrong[n],
         LET n == call[r].number
         IN    /\ call[r].copy.attempts = wrong[n]
               /\ wrong[n] <= MaxAttempts /\ wrong[n] # MaxAttempts
               /\ granted[n] <= 1 /\ granted[n] # 1
             => /\ changed.attempts = wrong'[n] /\ wrong'[n] <= MaxAttempts
                /\ granted'[n] <= 1
                /\ granted'[n] = 1 \/ wrong'[n] = MaxAttempts => changed.spent
  PROVE  RecoveryInv'
  <1> USE DEF RecoveryInv
  <1> DEFINE c == call[r].number
             row == [changed EXCEPT !.expired = otp[c].expired]
  <1>1. /\ call[r] \in Comparing /\ c \in 1 .. Len(otp) /\ ~call[r].copy.spent
        /\ call[r].copy \in Recovery!Code /\ Len(otp) \in Nat /\ otp[c] \in Recovery!Code
    BY SMTT(60) DEF CallInv, CallOk, Comparing, RecoveryTypeInv
  <1>2. /\ row \in Recovery!Code /\ row.spent = changed.spent
        /\ row.attempts = changed.attempts
    BY <1>1 DEF Recovery!Code
  <1>3. /\ otp' = [otp EXCEPT ![c] = row]
        /\ raced' = IF otp[c].spent # call[r].copy.spent \/ otp[c].attempts # call[r].copy.attempts
                    THEN raced \cup {c} ELSE raced
        /\ call' = [call EXCEPT ![r] = None]
    BY DEF Recovery!Save
  <1> HIDE DEF row, c
  <1>4. /\ otp' \in Seq(Recovery!Code) /\ Len(otp') = Len(otp) /\ otp'[c] = row
        /\ \A n \in 1 .. Len(otp) : n # c => otp'[n] = otp[n]
    BY <1>1, <1>2, <1>3, ExceptSeq DEF RecoveryTypeInv
  <1>5. RecoveryTypeInv'
    BY <1>3, <1>4 DEF RecoveryTypeInv
  <1>6. c \notin raced' => /\ c \notin raced /\ ~otp[c].spent
                           /\ otp[c].attempts = call[r].copy.attempts
    BY <1>1, <1>3 DEF Recovery!Code
  <1>7. raced \subseteq raced'
    BY <1>3
  <1>8. CodeInv'
    <2> SUFFICES ASSUME NEW n \in 1 .. Len(otp), n \notin raced'
                 PROVE  /\ wrong'[n] = otp'[n].attempts /\ wrong'[n] <= MaxAttempts
                        /\ granted'[n] <= 1
                        /\ granted'[n] = 1 \/ wrong'[n] = MaxAttempts => otp'[n].spent
                        /\ ~otp'[n].spent => n > cleared /\ n = Len(otp)
      BY <1>4 DEF CodeInv
    <2>1. CASE n = c
      <3>1. /\ wrong[c] = call[r].copy.attempts /\ wrong[c] <= MaxAttempts /\ granted[c] <= 1
            /\ granted[c] # 1 /\ wrong[c] # MaxAttempts
            /\ c > cleared /\ c = Len(otp)
        BY <1>1, <1>6, <2>1 DEF CodeInv
      <3> QED
        BY <1>2, <1>4, <2>1, <3>1 DEF c
    <2>2. CASE n # c
      BY <1>4, <1>7, <2>2 DEF CodeInv, c
    <2> QED
      BY <2>1, <2>2
  <1>9. CallInv'
    <2> SUFFICES ASSUME NEW q \in Calls, call'[q] # None
                 PROVE  CallOk(q)'
      BY DEF CallInv
    <2>1. call'[q] = call[q] /\ call[q] # None /\ CallOk(q)
      BY <1>3 DEF RecoveryTypeInv, CallInv
    <2>2. ASSUME call[q].step = "store", NEW n \in 1 .. call[q].seen, n \notin raced'
          PROVE  otp'[n].spent
      <3>1. n \in 1 .. Len(otp) /\ otp[n].spent
        BY <1>1, <1>7, <2>1, <2>2 DEF CallOk, Writing
      <3>2. n # c
        BY <1>6, <2>2, <3>1
      <3> QED
        BY <1>4, <3>1, <3>2
    <2> QED
      BY <1>4, <2>1, <2>2 DEF CallOk
  <1> QED
    BY <1>5, <1>8, <1>9

LEMMA SpendCodeKeeps ==
  ASSUME RecoveryInv, NEW r \in Calls, Recovery!SpendCode(r)
  PROVE  RecoveryInv'
  <1> USE DEF RecoveryInv
  <1> DEFINE c == call[r].number
             changed == [call[r].copy EXCEPT !.spent = TRUE]
  <1>1. /\ call[r] # None /\ call[r].step = "spend" /\ Recovery!Save(r, changed)
        /\ granted' = [granted EXCEPT ![c] = @ + 1]
        /\ UNCHANGED <<wrong, cleared, resets>>
    BY DEF Recovery!SpendCode
  <1>2. call[r] \in Comparing /\ c \in 1 .. Len(otp) /\ call[r].copy \in Recovery!Code
    BY <1>1 DEF CallInv, CallOk, Comparing
  <1>3. /\ changed \in Recovery!Code /\ changed.spent
        /\ changed.attempts = call[r].copy.attempts
    BY <1>2 DEF Recovery!Code
  <1> HIDE DEF c, changed
  <1>4. /\ granted' \in Seq(Nat) /\ Len(granted') = Len(otp) /\ granted'[c] = granted[c] + 1
        /\ \A n \in 1 .. Len(otp) : n # c => granted'[n] = granted[n]
    BY <1>1, <1>2 DEF RecoveryTypeInv
  <1>5. wrong' \in Seq(Nat) /\ Len(wrong') = Len(otp)
    BY <1>1 DEF RecoveryTypeInv
  <1>6. /\ wrong'[c] = wrong[c]
        /\ granted[c] <= 1 /\ granted[c] # 1 => granted'[c] <= 1
    <2>1. granted[c] \in Nat
      BY <1>2 DEF RecoveryTypeInv
    <2> QED
      BY <1>1, <1>4, <2>1
  <1> QED
    BY <1>1, <1>3, <1>4, <1>5, <1>6, SaveKeeps DEF c

LEMMA CountAttemptKeeps ==
  ASSUME RecoveryInv, NEW r \in Calls, Recovery!CountAttempt(r)
  PROVE  RecoveryInv'
  <1> USE DEF RecoveryInv
  <1> DEFINE c == call[r].number
             copy == [call[r].copy EXCEPT !.attempts = @ + 1]
             changed == [copy EXCEPT !.spent = copy.attempts >= MaxAttempts]
  <1>1. /\ call[r] # None /\ call[r].step = "count" /\ Recovery!Save(r, changed)
        /\ wrong' = [wrong EXCEPT ![c] = @ + 1]
        /\ UNCHANGED <<granted, cleared>>
    BY DEF Recovery!CountAttempt
  <1>2. call[r] \in Comparing /\ c \in 1 .. Len(otp) /\ call[r].copy \in Recovery!Code
    BY <1>1 DEF CallInv, CallOk, Comparing
  <1>3. /\ copy \in Recovery!Code /\ copy.attempts = call[r].copy.attempts + 1
        /\ call[r].copy.attempts \in Nat
    BY <1>2 DEF Recovery!Code
  <1>4. /\ changed \in Recovery!Code /\ (changed.spent <=> copy.attempts >= MaxAttempts)
        /\ changed.attempts = call[r].copy.attempts + 1
    <2> DEFINE b == copy.attempts >= MaxAttempts
    <2>1. b \in BOOLEAN
      OBVIOUS
    <2> HIDE DEF copy, b
    <2>2. changed = [copy EXCEPT !.spent = b]
      BY DEF b
    <2>3. changed \in Recovery!Code /\ changed.spent = b /\ changed.attempts = copy.attempts
      BY <1>3, <2>1, <2>2 DEF Recovery!Code
    <2>4. changed.spent <=> b
      BY <2>3
    <2> QED
      BY <1>3, <2>3, <2>4 DEF b
  <1> HIDE DEF c, changed
  <1>5. /\ wrong' \in Seq(Nat) /\ Len(wrong') = Len(otp) /\ wrong'[c] = wrong[c] + 1
        /\ \A n \in 1 .. Len(otp) : n # c => wrong'[n] = wrong[n]
    BY <1>1, <1>2 DEF RecoveryTypeInv
  <1>6. granted' \in Seq(Nat) /\ Len(granted') = Len(otp)
    BY <1>1 DEF RecoveryTypeInv
  <1>7. /\ wrong[c] <= MaxAttempts /\ wrong[c] # MaxAttempts
        /\ call[r].copy.attempts = wrong[c]
        =>
          /\ wrong'[c] <= MaxAttempts
          /\ wrong'[c] = MaxAttempts => copy.attempts >= MaxAttempts
    <2>1. wrong[c] \in Nat /\ MaxAttempts \in Nat
      BY <1>2, RacesAssumption DEF RecoveryTypeInv
    <2> HIDE DEF copy
    <2> QED
      BY <1>3, <1>5, <2>1
  <1> HIDE DEF copy
  <1> QED
    BY <1>1, <1>4, <1>5, <1>6, <1>7, SaveKeeps DEF c

\* Requests that start, end early or finish a reset; codes and tokens that expire.
LEMMA CallChanges ==
  ASSUME RecoveryInv, NEW r \in Calls,
         NEW c \in {None} \cup {w \in Writing : w.step = "clear" /\ w.seen <= Len(otp)},
         call' = [call EXCEPT ![r] = c],
         UNCHANGED <<otp, granted, wrong, cleared, raced>>
  PROVE  RecoveryInv'
  <1> USE DEF RecoveryInv
  <1>1. RecoveryTypeInv' /\ CodeInv'
    BY DEF RecoveryTypeInv, CodeInv
  <1>2. CallInv'
    <2> SUFFICES ASSUME NEW q \in Calls, call'[q] # None
                 PROVE  CallOk(q)'
      BY DEF CallInv
    <2>1. CASE q = r
      BY <2>1 DEF RecoveryTypeInv, CallOk
    <2>2. CASE q # r
      BY <2>2 DEF RecoveryTypeInv, CallInv, CallOk
    <2> QED
      BY <2>1, <2>2
  <1> QED
    BY <1>1, <1>2

LEMMA SpendPendingKeeps ==
  ASSUME RecoveryInv, NEW r \in Calls, Recovery!SpendPending(r)
  PROVE  RecoveryInv'
  <1> USE DEF RecoveryInv
  <1>1. /\ otp' \in Seq(Recovery!Code) /\ Len(otp') = Len(otp) /\ Len(otp) \in Nat
        /\ \A n \in 1 .. Len(otp) : otp'[n].spent /\ otp'[n].attempts = otp[n].attempts
    BY CodesSpent DEF Recovery!SpendPending, RecoveryTypeInv
  <1>2. /\ cleared' = Len(otp) /\ call' = [call EXCEPT ![r] = None]
        /\ UNCHANGED <<token, granted, wrong, resets, raced>>
    BY DEF Recovery!SpendPending
  <1>3. RecoveryTypeInv'
    BY <1>1, <1>2 DEF RecoveryTypeInv
  <1>4. CodeInv'
    BY <1>1, <1>2 DEF CodeInv
  <1>5. CallInv'
    <2> SUFFICES ASSUME NEW q \in Calls, call'[q] # None
                 PROVE  CallOk(q)'
      BY DEF CallInv
    <2>1. call'[q] = call[q] /\ call[q] # None /\ CallOk(q)
      BY <1>2 DEF RecoveryTypeInv, CallInv
    <2>2. call[q].step = "store" => call[q].seen \in Nat /\ call[q].seen <= Len(otp)
      BY <2>1 DEF CallOk, Writing
    <2> QED
      BY <1>1, <1>2, <2>1, <2>2 DEF CallOk
  <1> QED
    BY <1>3, <1>4, <1>5

LEMMA ExpireCodeKeeps ==
  ASSUME RecoveryInv, NEW c \in Recovery!Numbers, Recovery!ExpireCode(c)
  PROVE  RecoveryInv'
  <1> USE DEF RecoveryInv
  <1> DEFINE row == [otp[c] EXCEPT !.expired = TRUE]
  <1>1. c \in 1 .. Len(otp) /\ otp[c] \in Recovery!Code
    BY DEF RecoveryTypeInv, Recovery!Numbers
  <1>2. row \in Recovery!Code /\ row.spent = otp[c].spent /\ row.attempts = otp[c].attempts
    BY <1>1 DEF Recovery!Code
  <1>3. otp' = [otp EXCEPT ![c] = row]
    BY <1>1 DEF Recovery!ExpireCode, RecoveryTypeInv
  <1> HIDE DEF row
  <1>4. /\ otp' \in Seq(Recovery!Code) /\ Len(otp') = Len(otp) /\ Len(otp) \in Nat
        /\ \A n \in 1 .. Len(otp) : /\ otp'[n].spent = otp[n].spent
                                    /\ otp'[n].attempts = otp[n].attempts
    BY <1>1, <1>2, <1>3, ExceptSeq DEF RecoveryTypeInv
  <1>5. UNCHANGED <<call, token, granted, wrong, cleared, resets, raced>>
    BY DEF Recovery!ExpireCode
  <1>6. RecoveryTypeInv' /\ CodeInv'
    BY <1>4, <1>5 DEF RecoveryTypeInv, CodeInv
  <1>7. CallInv'
    <2> SUFFICES ASSUME NEW q \in Calls, call[q] # None, CallOk(q)
                 PROVE  CallOk(q)'
      BY <1>5 DEF CallInv
    <2>1. call[q].step = "store" => call[q].seen \in Nat /\ call[q].seen <= Len(otp)
      BY DEF CallOk, Writing
    <2> QED
      BY <1>4, <1>5, <2>1 DEF CallOk
  <1> QED
    BY <1>6, <1>7

LEMMA RecoveryInvariant == Recovery!Spec => []RecoveryInv
  <1>1. Recovery!Init => RecoveryInv
    BY DEF Recovery!Init, RecoveryInv, RecoveryTypeInv, CodeInv, CallInv
  <1>2. RecoveryInv /\ [Recovery!Next]_(Recovery!ovars) => RecoveryInv'
    <2> SUFFICES ASSUME RecoveryInv, [Recovery!Next]_(Recovery!ovars)
                 PROVE  RecoveryInv'
      OBVIOUS
    <2>1. ASSUME NEW r \in Calls, Recovery!Abandon(r)
          PROVE  RecoveryInv'
      <3>1. call' = [call EXCEPT ![r] = None] /\ UNCHANGED <<otp, granted, wrong, cleared, raced>>
        BY <2>1 DEF Recovery!Abandon
      <3> QED
        BY <3>1, CallChanges
    <2>2. ASSUME NEW r \in Calls, NEW k \in DOMAIN token, Recovery!ChangePassword(r, k)
          PROVE  RecoveryInv'
      <3> DEFINE c == [step |-> "clear", seen |-> Len(otp)]
      <3>1. c \in Writing /\ c.step = "clear" /\ c.seen <= Len(otp)
        BY DEF Writing, RecoveryInv, RecoveryTypeInv
      <3> HIDE DEF c
      <3> QED
        BY <2>2, <3>1, CallChanges DEF Recovery!ChangePassword, c
    <2>3. CASE \/ \E k \in DOMAIN token : Recovery!ExpireToken(k)
               \/ UNCHANGED Recovery!ovars
      BY <2>3 DEF Recovery!ExpireToken, Recovery!ovars, RecoveryInv, RecoveryTypeInv,
         CodeInv, CallInv, CallOk
    <2> QED
      BY <2>1, <2>2, <2>3, SpendEarlierCodesKeeps, StoreCodeKeeps, SpendCodeKeeps,
         CountAttemptKeeps, SpendPendingKeeps, FindCodeKeeps, ExpireCodeKeeps
      DEF Recovery!Next
  <1> QED
    BY <1>1, <1>2, PTL DEF Recovery!Spec

\* A code yields one token, and none after MaxAttempts wrong attempts, unless two
\* requests wrote to it from copies of the same row.
THEOREM RecoveryLimited == Recovery!Spec => []CodesLimited
  <1>1. RecoveryInv => CodesLimited
    BY DEF RecoveryInv, CodeInv, CodesLimited, Recovery!CodesLimited, Recovery!Numbers
  <1> QED
    BY <1>1, RecoveryInvariant, PTL

\* Of the codes that no race has touched only the newest, sent after the last reset, can
\* be used.
THEOREM RecoveryNewest == Recovery!Spec => []OnlyNewestUsable
  <1>1. RecoveryInv => OnlyNewestUsable
    BY DEF RecoveryInv, RecoveryTypeInv, CodeInv, OnlyNewestUsable, Recovery!OnlyNewestUsable,
       Recovery!Numbers, Recovery!Usable
  <1> QED
    BY <1>1, RecoveryInvariant, PTL
-----------------------------------------------------------------------------
(***************************************************************************)
(* LoginGuard.                                                             *)
(***************************************************************************)
Ends == [ok: BOOLEAN, at: Nat]

LoginTypeInv ==
  /\ {time, hits, hitsUntil, stopUntil, failures, failUntil, blockUntil} \subseteq Nat
  /\ login \in [Logins -> [step: {"idle", "count", "stop", "guard", "ask", "record", "block"},
                           read: Nat]]
  /\ passed \in Seq(Nat) /\ ended \in Seq(Ends)

\* How many of the requests that passed are counted by the key that is there.
Counted == IF hits <= Limit THEN hits ELSE Limit

\* The requests that passed and are not counted any more passed Ttl before those that
\* are: the key lives on from its last request.
RateInv ==
  /\ \A i \in 1 .. Len(passed) : passed[i] <= time /\ passed[i] + Ttl <= hitsUntil
  /\ \A i, j \in 1 .. Len(passed) : i <= j => passed[i] <= passed[j]
  /\ hits = 0 => hitsUntil <= time
  /\ Counted <= Len(passed)
  /\ \A i, j \in 1 .. Len(passed) :
       i + Counted <= Len(passed) /\ j + Counted > Len(passed) => passed[j] - passed[i] >= Ttl
  /\ Login!RateLimited

\* As long as no write was lost the counter is the number of logins that failed in a
\* row, each within Window of the one before.
FailInv ==
  ~lost =>
    /\ failures <= Len(ended)
    /\ \A i \in 1 .. Len(ended) : i + failures > Len(ended) =>
         /\ ~ended[i].ok
         /\ i + failures # Len(ended) + 1 => ended[i].at - ended[i - 1].at < Window
    /\ failures = 0 => Len(ended) = 0 \/ ended[Len(ended)].ok
    /\ failures # 0 =>
         /\ failUntil = ended[Len(ended)].at + Window
         /\ failures # Len(ended) =>
              LET i == Len(ended) - failures
              IN  ended[i].ok \/ ended[i + 1].at - ended[i].at >= Window

\* The block dates from the last login that struck, or it is about to be written.
BlockInv ==
  /\ \A k \in 1 .. Len(ended) : ended[k].at <= time
  /\ ~lost =>
       /\ blockUntil # 0 => \E k \in 1 .. Len(ended) :
            Login!Strikes(k) /\ blockUntil = ended[k].at + BlockDuration
       /\ \A k \in 1 .. Len(ended) : Login!Strikes(k) =>
            \/ ended[k].at + BlockDuration <= blockUntil
            \/ ended[k].at = time /\ \E r \in Logins : login[r].step = "block"
       /\ \A r \in Logins : login[r].step = "block" =>
            \E k \in 1 .. Len(ended) : Login!Strikes(k) /\ ended[k].at = time

LoginInv == LoginTypeInv /\ RateInv /\ FailInv /\ BlockInv

LEMMA LoginBounds ==
  /\ MaxFailures \in Nat /\ MaxFailures # 0 /\ Window \in Nat /\ BlockDuration \in Nat
  /\ Limit \in Nat /\ Ttl \in Nat
  BY RacesAssumption

LEMMA LoginTypes ==
  ASSUME LoginTypeInv
  PROVE  /\ time \in Nat /\ hits \in Nat /\ hitsUntil \in Nat /\ failures \in Nat
         /\ failUntil \in Nat /\ blockUntil \in Nat
         /\ Len(passed) \in Nat /\ \A i \in 1 .. Len(passed) : passed[i] \in Nat
         /\ Len(ended) \in Nat
         /\ \A i \in 1 .. Len(ended) : ended[i].at \in Nat /\ ended[i].ok \in BOOLEAN
  <1>1. \A i \in 1 .. Len(ended) : ended[i] \in Ends
    BY DEF LoginTypeInv
  <1>2. Len(passed) \in Nat /\ Len(ended) \in Nat /\ \A i \in 1 .. Len(passed) : passed[i] \in Nat
    BY SMTT(60) DEF LoginTypeInv
  <1> QED
    BY <1>1, <1>2 DEF LoginTypeInv, Ends

\* What a step of request r makes of it.
LEMMA LoginGoes ==
  ASSUME LoginTypeInv, NEW r \in Logins, NEW step \in {"idle", "count", "stop", "guard", "ask",
                                                      "record", "block"},
         Login!Goto(r, step) \/ (step = "idle" /\ Login!Done(r))
  PROVE  /\ login' \in [Logins -> [step: {"idle", "count", "stop", "guard", "ask", "record",
                                          "block"}, read: Nat]]
         /\ login'[r].step = step
         /\ \A q \in Logins : q # r => login'[q] = login[q]
  <1>1. login[r] \in [step: {"idle", "count", "stop", "guard", "ask", "record", "block"},
                      read: Nat]
    BY DEF LoginTypeInv
  <1>2. \E n \in Nat : login' = [login EXCEPT ![r] = [step |-> step, read |-> n]]
    <2>1. CASE Login!Goto(r, step)
      <3>1. [login[r] EXCEPT !.step = step] = [step |-> step, read |-> login[r].read]
        BY <1>1
      <3>2. login' = [login EXCEPT ![r] = [login[r] EXCEPT !.step = step]]
        BY <2>1 DEF Login!Goto
      <3> QED
        BY <1>1, <3>1, <3>2
    <2>2. CASE step = "idle" /\ Login!Done(r)
      BY <2>2 DEF Login!Done
    <2> QED
      BY <2>1, <2>2
  <1> QED
    BY <1>2 DEF LoginTypeInv

\* Steps that end no login and write no block.
LEMMA FailuresUndisturbed ==
  ASSUME LoginInv,
         UNCHANGED <<time, failures, failUntil, blockUntil, ended, lost>>,
         \A q \in Logins : login'[q].step = "block" <=> login[q].step = "block"
  PROVE  FailInv' /\ BlockInv'
  <1>1. \A k : Login!Strikes(k)' <=> Login!Strikes(k)
    BY DEF Login!Strikes
  <1>2. FailInv'
    BY DEF LoginInv, FailInv
  <1>3. BlockInv'
    BY <1>1 DEF LoginInv, BlockInv
  <1> QED
    BY <1>2, <1>3

LEMMA RateUndisturbed ==
  ASSUME LoginInv, UNCHANGED <<time, hits, hitsUntil, passed>>
  PROVE  RateInv'
  BY DEF LoginInv, RateInv, Counted, Login!RateLimited

LEMMA CountHitKeeps ==
  ASSUME LoginInv, NEW r \in Logins, Login!CountHit(r)
  PROVE  LoginInv'
  <1> USE DEF LoginInv
  <1>1. /\ time \in Nat /\ hits \in Nat /\ hitsUntil \in Nat /\ Len(passed) \in Nat
        /\ \A i \in 1 .. Len(passed) : passed[i] \in Nat
        /\ Limit \in Nat /\ Ttl \in Nat
    BY LoginTypes, LoginBounds
  <1>2. /\ hits' = (IF time < hitsUntil THEN hits ELSE 0) + 1
        /\ hitsUntil' = time + Ttl
        /\ \/ hits' > Limit /\ Login!Goto(r, "stop") /\ passed' = passed
           \/ hits' <= Limit /\ Login!Goto(r, "guard") /\ passed' = Append(passed, time)
        /\ UNCHANGED <<time, stopUntil, failures, failUntil, blockUntil, ended, lost>>
        /\ login[r].step = "count"
    BY <1>1 DEF Login!CountHit, Login!Value, Login!At
  <1>3. /\ login' \in [Logins -> [step: {"idle", "count", "stop", "guard", "ask", "record",
                                         "block"}, read: Nat]]
        /\ login'[r].step \in {"stop", "guard"}
        /\ \A q \in Logins : q # r => login'[q] = login[q]
    BY <1>2, LoginGoes
  <1>4. LoginTypeInv'
    <2>1. passed' \in Seq(Nat)
      <3>1. passed \in Seq(Nat)
        BY DEF LoginTypeInv
      <3>2. time \in Nat /\ (passed' = passed \/ passed' = Append(passed, time))
        BY <1>1, <1>2
      <3>3. Append(passed, time) \in Seq(Nat)
        BY <3>1, <3>2
      <3> QED
        BY Zenon, <3>1, <3>2, <3>3
    <2>2. hits' \in Nat /\ hitsUntil' \in Nat
      BY <1>1, <1>2
    <2> QED
      BY <1>2, <1>3, <2>1, <2>2 DEF LoginTypeInv
  <1>5. FailInv' /\ BlockInv'
    BY <1>2, <1>3, FailuresUndisturbed
  <1>6. RateInv'
    <2> DEFINE p == Len(passed)
               c == IF hits <= Limit THEN hits ELSE Limit
    <2>1. /\ \A i \in 1 .. p : passed[i] <= time /\ passed[i] + Ttl <= hitsUntil
          /\ \A i, j \in 1 .. p : i <= j => passed[i] <= passed[j]
          /\ hits = 0 => hitsUntil <= time
          /\ c <= p
          /\ \A i, j \in 1 .. p : i + c <= p /\ j + c > p => passed[j] - passed[i] >= Ttl
      BY DEF RateInv, Counted
    <2>2. \A i \in 1 .. p : i + Limit \in 1 .. p => passed[i + Limit] - passed[i] >= Ttl
      BY SMTT(60) DEF RateInv, Login!RateLimited, LoginTypeInv
    <2>3. CASE hits' > Limit /\ passed' = passed
      <3>1. \A i \in 1 .. p : passed[i] + Ttl <= hitsUntil'
        <4> SUFFICES ASSUME NEW i \in 1 .. p
                     PROVE  passed[i] + Ttl <= time + Ttl
          BY <1>2
        <4> QED
          BY <1>1, <2>1
      <3>2. Counted' = Limit /\ hits' # 0
        BY <1>1, <1>2, <2>3 DEF Counted
      <3>3. /\ Limit <= p
            /\ \A i, j \in 1 .. p : i + Limit <= p /\ j + Limit > p => passed[j] - passed[i] >= Ttl
        <4>1. CASE time < hitsUntil
          <5>1. c = Limit
            BY <1>1, <1>2, <2>3, <4>1
          <5> QED
            BY <2>1, <5>1
        <4>2. CASE ~(time < hitsUntil)
          <5>1. Limit = 0
            BY <1>1, <1>2, <2>3, <4>2
          <5> QED
            BY <1>1, <5>1
        <4> QED
          BY <4>1, <4>2
      <3> QED
        BY <1>2, <2>1, <2>2, <2>3, <3>1, <3>2, <3>3 DEF RateInv, Login!RateLimited, LoginTypeInv
    <2>4. CASE hits' <= Limit /\ passed' = Append(passed, time)
      <3>1. /\ Len(passed') = p + 1 /\ passed'[p + 1] = time
            /\ \A i \in 1 .. p : passed'[i] = passed[i]
        BY <1>1, <2>4 DEF LoginTypeInv
      <3>2. Counted' = hits' /\ hits' # 0 /\ hits' <= p + 1
        BY <1>1, <1>2, <2>1, <2>4 DEF Counted
      <3>3. \A i \in 1 .. p : i + hits' <= p + 1 => time - passed[i] >= Ttl
        <4>1. CASE time < hitsUntil
          <5>1. hits' = hits + 1 /\ c = hits /\ hits # 0
            BY <1>1, <1>2, <2>1, <2>4, <4>1
          <5>2. ASSUME NEW i \in 1 .. p, i + hits' <= p + 1
                PROVE  time - passed[i] >= Ttl
            <6>1. p \in 1 .. p /\ i + c <= p /\ p + c > p
              BY <1>1, <5>1, <5>2
            <6>2. passed[p] - passed[i] >= Ttl /\ passed[p] <= time
              BY <2>1, <6>1
            <6>3. passed[p] \in Nat /\ passed[i] \in Nat
              BY <1>1, <6>1
            <6> QED
              BY <1>1, <6>2, <6>3
          <5> QED
            BY <5>2
        <4>2. CASE ~(time < hitsUntil)
          BY <1>1, <2>1, <4>2
        <4> QED
          BY <4>1, <4>2
      <3>4. ASSUME NEW i \in 1 .. p + 1, NEW j \in 1 .. p + 1, i + hits' <= p + 1, j + hits' > p + 1
            PROVE  passed'[j] - passed'[i] >= Ttl
        <4>1. i \in 1 .. p
          BY <1>1, <1>2, <3>2, <3>4
        <4>2. CASE j = p + 1
          BY <3>1, <3>3, <3>4, <4>1, <4>2
        <4>3. CASE j # p + 1
          <5>1. CASE time < hitsUntil
            <6>1. hits' = hits + 1 /\ c = hits /\ j \in 1 .. p
              BY <1>1, <1>2, <2>4, <4>3, <5>1
            <6>2. i + c <= p /\ j + c > p
              BY <1>1, <3>4, <6>1
            <6> QED
              BY <2>1, <3>1, <4>1, <6>1, <6>2
          <5>2. CASE ~(time < hitsUntil)
            <6>1. hits' = 1
              BY <1>1, <1>2, <5>2
            <6> QED
              BY <1>1, <3>4, <4>3, <6>1
          <5> QED
            BY <5>1, <5>2
        <4> QED
          BY <4>2, <4>3
      <3>5. ASSUME NEW i \in 1 .. p + 1, i + Limit \in 1 .. p + 1
            PROVE  passed'[i + Limit] - passed'[i] >= Ttl
        <4>1. CASE i + Limit = p + 1 /\ Limit # 0
          <5>1. i \in 1 .. p /\ i + hits' <= p + 1
            BY <1>1, <1>2, <2>4, <4>1
          <5> QED
            BY <3>1, <3>3, <4>1, <5>1
        <4>2. CASE i + Limit # p + 1
          <5>1. i \in 1 .. p /\ i + Limit \in 1 .. p
            BY <1>1, <3>5, <4>2
          <5> QED
            BY <2>2, <3>1, <5>1
        <4>3. Limit # 0
          BY <1>1, <1>2, <2>4
        <4> QED
          BY <4>1, <4>2, <4>3
      <3>6. \A i \in 1 .. p + 1 : passed'[i] <= time /\ passed'[i] + Ttl <= hitsUntil'
        BY <1>1, <1>2, <2>1, <3>1
      <3>7. \A i, j \in 1 .. p + 1 : i <= j => passed'[i] <= passed'[j]
        BY SMTT(60), <1>1, <2>1, <3>1
      <3>8. Login!RateLimited'
        <4>1. DOMAIN passed' = 1 .. p + 1
          BY <1>4, <3>1 DEF LoginTypeInv
        <4> QED
          BY <3>5, <4>1 DEF Login!RateLimited
      <3> QED
        BY <1>2, <3>1, <3>2, <3>4, <3>6, <3>7, <3>8 DEF RateInv
    <2> QED
      BY <1>2, <2>3, <2>4
  <1> QED
    BY <1>4, <1>5, <1>6

\* The counter says whether the last login struck.
LEMMA CounterTells ==
  ASSUME LoginTypeInv, FailInv, ~lost, Len(ended) # 0
  PROVE  Login!Strikes(Len(ended)) <=> failures >= MaxFailures
  <1> DEFINE e == Len(ended)
  <1>1. /\ e \in Nat /\ e # 0 /\ failures \in Nat /\ failures <= e
        /\ MaxFailures \in Nat /\ MaxFailures # 0 /\ Window \in Nat
        /\ \A i \in 1 .. e : ended[i].at \in Nat
    BY LoginTypes, LoginBounds DEF FailInv
  <1>2. ASSUME failures >= MaxFailures
        PROVE  Login!Strikes(e)
    <2>1. e >= MaxFailures
      BY <1>1, <1>2
    <2>2. \A i \in e - MaxFailures + 1 .. e : ~ended[i].ok
      BY <1>1, <1>2 DEF FailInv
    <2>3. ASSUME NEW i \in e - MaxFailures + 2 .. e
          PROVE  ended[i].at - ended[i - 1].at < Window
      <3>1. i \in 1 .. e /\ i + failures > e /\ i + failures # e + 1
        BY <1>1, <1>2, <2>1
      <3> QED
        BY <3>1 DEF FailInv
    <2> QED
      BY <2>1, <2>2, <2>3 DEF Login!Strikes
  <1>3. ASSUME Login!Strikes(e), ~(failures >= MaxFailures)
        PROVE  FALSE
    <2>1. /\ e >= MaxFailures
          /\ \A i \in e - MaxFailures + 1 .. e : ~ended[i].ok
          /\ \A i \in e - MaxFailures + 2 .. e : ended[i].at - ended[i - 1].at < Window
      BY <1>3 DEF Login!Strikes
    <2>2. failures # 0
      <3>1. e \in e - MaxFailures + 1 .. e
        BY <1>1
      <3>2. ~ended[e].ok
        BY <2>1, <3>1
      <3> QED
        BY <1>1, <3>2 DEF FailInv
    <2> DEFINE i == e - failures
    <2>3. i \in e - MaxFailures + 1 .. e /\ i + 1 \in e - MaxFailures + 2 .. e
      BY <1>1, <1>3, <2>1, <2>2
    <2>4. i \in 1 .. e /\ i + 1 \in 1 .. e /\ (i + 1) - 1 = i /\ failures # e
      BY <1>1, <1>3, <2>1, <2>2
    <2>5. ~ended[i].ok /\ ended[i + 1].at - ended[i].at < Window
      <3>1. ended[i + 1].at - ended[(i + 1) - 1].at < Window
        BY <2>1, <2>3
      <3> QED
        BY <2>1, <2>3, <2>4, <3>1
    <2>6. ended[i].ok \/ ended[i + 1].at - ended[i].at >= Window
      BY <2>2, <2>4 DEF FailInv
    <2>7. ended[i].at \in Nat /\ ended[i + 1].at \in Nat
      BY <1>1, <2>4
    <2> QED
      BY <1>1, <2>5, <2>6, <2>7
  <1> QED
    BY <1>2, <1>3

\* A login that ends changes nothing of how the earlier ones ended.
LEMMA StrikesStay ==
  ASSUME LoginTypeInv, NEW x \in Ends, ended' = Append(ended, x)
  PROVE  /\ Len(ended') = Len(ended) + 1 /\ ended'[Len(ended) + 1] = x
         /\ \A i \in 1 .. Len(ended) : ended'[i] = ended[i]
         /\ ended' \in Seq(Ends)
         /\ \A k \in 1 .. Len(ended) : Login!Strikes(k)' <=> Login!Strikes(k)
  <1>1. /\ Len(ended) \in Nat /\ MaxFailures \in Nat /\ MaxFailures # 0
    BY LoginTypes, LoginBounds
  <1>2. /\ Len(ended') = Len(ended) + 1 /\ ended'[Len(ended) + 1] = x
        /\ \A i \in 1 .. Len(ended) : ended'[i] = ended[i]
        /\ ended' \in Seq(Ends)
    BY DEF LoginTypeInv
  <1>3. ASSUME NEW k \in 1 .. Len(ended)
        PROVE  Login!Strikes(k)' <=> Login!Strikes(k)
    <2>1. CASE k >= MaxFailures
      <3>1. \A i \in k - MaxFailures + 1 .. k : i \in 1 .. Len(ended)
        BY <1>1, <2>1
      <3>2. \A i \in k - MaxFailures + 2 .. k : i \in 1 .. Len(ended) /\ i - 1 \in 1 .. Len(ended)
        BY <1>1, <2>1
      <3> QED
        BY <1>2, <3>1, <3>2 DEF Login!Strikes
    <2>2. CASE ~(k >= MaxFailures)
      BY <2>2 DEF Login!Strikes
    <2> QED
      BY <2>1, <2>2
  <1> QED
    BY <1>2, <1>3

LEMMA StrikesFailed == \A k \in Nat : Login!Strikes(k) => ~ended[k].ok
  <1> TAKE k \in Nat
  <1>1. MaxFailures \in Nat /\ MaxFailures # 0
    BY LoginBounds
  <1>2. k \in k - MaxFailures + 1 .. k
    BY <1>1
  <1> QED
    BY <1>2 DEF Login!Strikes

LEMMA AcceptedKeeps ==
  ASSUME LoginInv, NEW r \in Logins, Login!Accepted(r)
  PROVE  LoginInv'
  <1> USE DEF LoginInv
  <1> DEFINE x == [ok |-> TRUE, at |-> time]
  <1>0. PICK e \in Nat : e = Len(ended)
    BY LoginTypes
  <1>1. /\ time \in Nat /\ x \in Ends
        /\ \A i \in 1 .. e : ended[i].at \in Nat
        /\ MaxFailures \in Nat /\ MaxFailures # 0
    BY <1>0, LoginTypes, LoginBounds DEF Ends
  <1>2. /\ login[r].step = "ask" /\ failures' = 0 /\ failUntil' = time
        /\ ended' = Append(ended, x) /\ Login!Done(r)
        /\ UNCHANGED <<time, hits, hitsUntil, stopUntil, blockUntil, passed, lost>>
    BY DEF Login!Accepted, Login!At
  <1> HIDE DEF x
  <1>3. /\ Len(ended') = e + 1 /\ ended'[e + 1] = x
        /\ \A i \in 1 .. e : ended'[i] = ended[i]
        /\ ended' \in Seq(Ends)
        /\ \A k \in 1 .. e : Login!Strikes(k)' <=> Login!Strikes(k)
    BY <1>0, <1>1, <1>2, StrikesStay
  <1>4. /\ login' \in [Logins -> [step: {"idle", "count", "stop", "guard", "ask", "record",
                                         "block"}, read: Nat]]
        /\ login'[r].step = "idle"
        /\ \A q \in Logins : q # r => login'[q] = login[q]
    BY <1>2, LoginGoes
  <1>5. LoginTypeInv'
    BY <1>1, <1>2, <1>3, <1>4 DEF LoginTypeInv
  <1>6. RateInv'
    BY <1>2, RateUndisturbed
  <1>7. FailInv'
    BY <1>0, <1>1, <1>2, <1>3 DEF FailInv, x
  <1>8. ~Login!Strikes(e + 1)'
    <2>1. (\A k \in Nat : Login!Strikes(k) => ~ended[k].ok)'
      BY StrikesFailed, PTL
    <2>2. ended'[e + 1].ok
      BY <1>3 DEF x
    <2>3. e + 1 \in Nat
      BY <1>0
    <2> QED
      BY <2>1, <2>2, <2>3
  <1>9. BlockInv'
    <2> SUFFICES ASSUME TRUE
                 PROVE  /\ \A k \in 1 .. e + 1 : ended'[k].at <= time
                        /\ ~lost =>
                             /\ blockUntil # 0 => \E k \in 1 .. e + 1 :
                                  Login!Strikes(k)' /\ blockUntil = ended'[k].at + BlockDuration
                             /\ \A k \in 1 .. e + 1 : Login!Strikes(k)' =>
                                  \/ ended'[k].at + BlockDuration <= blockUntil
                                  \/ ended'[k].at = time /\ \E q \in Logins : login'[q].step = "block"
                             /\ \A q \in Logins : login'[q].step = "block" =>
                                  \E k \in 1 .. e + 1 : Login!Strikes(k)' /\ ended'[k].at = time
      BY <1>2, <1>3 DEF BlockInv
    <2>1. \A k \in 1 .. e + 1 : k \in 1 .. e \/ k = e + 1
      BY <1>1
    <2>2. \A k \in 1 .. e : k \in 1 .. e + 1
      BY <1>1
    <2>3. \A q \in Logins : login'[q].step = "block" <=> login[q].step = "block"
      BY <1>2, <1>4
    <2>4. ended'[e + 1].at <= time
      BY <1>1, <1>3 DEF x
    <2> QED
      <3>1. \A k \in 1 .. e : ended[k].at <= time
        BY <1>0 DEF BlockInv
      <3>2. \A k \in 1 .. e + 1 : ended'[k].at <= time
        BY <1>3, <2>1, <2>4, <3>1
      <3>3. ASSUME ~lost, blockUntil # 0
            PROVE  \E k \in 1 .. e + 1 :
                     Login!Strikes(k)' /\ blockUntil = ended'[k].at + BlockDuration
        BY <1>0, <1>3, <2>2, <3>3 DEF BlockInv
      <3>4. ASSUME ~lost, NEW k \in 1 .. e + 1, Login!Strikes(k)'
            PROVE  \/ ended'[k].at + BlockDuration <= blockUntil
                   \/ ended'[k].at = time /\ \E q \in Logins : login'[q].step = "block"
        BY <1>0, <1>3, <1>8, <2>1, <2>3, <3>4 DEF BlockInv
      <3>5. ASSUME ~lost, NEW q \in Logins, login'[q].step = "block"
            PROVE  \E k \in 1 .. e + 1 : Login!Strikes(k)' /\ ended'[k].at = time
        BY <1>0, <1>3, <2>2, <2>3, <3>5 DEF BlockInv
      <3> QED
        BY <3>2, <3>3, <3>4, <3>5
  <1> QED
    BY <1>5, <1>6, <1>7, <1>9

LEMMA WriteFailuresKeeps ==
  ASSUME LoginInv, NEW r \in Logins, Login!WriteFailures(r)
  PROVE  LoginInv'
  <1> USE DEF LoginInv
  <1> DEFINE x == [ok |-> FALSE, at |-> time]
             v == IF time < failUntil THEN failures ELSE 0
  <1>0. PICK e \in Nat : e = Len(ended)
    BY LoginTypes
  <1>1. /\ time \in Nat /\ failures \in Nat /\ failUntil \in Nat /\ x \in Ends
        /\ \A i \in 1 .. e : ended[i].at \in Nat
        /\ MaxFailures \in Nat /\ MaxFailures # 0 /\ Window \in Nat /\ BlockDuration \in Nat
    BY <1>0, LoginTypes, LoginBounds DEF Ends
  <1>2. /\ login[r].step = "record" /\ failures' = login[r].read + 1
        /\ failUntil' = time + Window /\ ended' = Append(ended, x)
        /\ ~lost' => ~lost /\ v = login[r].read
        /\ \/ failures' >= MaxFailures /\ Login!Goto(r, "block")
           \/ ~(failures' >= MaxFailures) /\ Login!Done(r)
        /\ UNCHANGED <<time, hits, hitsUntil, stopUntil, blockUntil, passed>>
    BY DEF Login!WriteFailures, Login!At, Login!Value
  <1> HIDE DEF x
  <1>3. /\ Len(ended') = e + 1 /\ ended'[e + 1] = x
        /\ \A i \in 1 .. e : ended'[i] = ended[i]
        /\ ended' \in Seq(Ends)
        /\ \A k \in 1 .. e : Login!Strikes(k)' <=> Login!Strikes(k)
    BY <1>0, <1>1, <1>2, StrikesStay
  <1>4. /\ login' \in [Logins -> [step: {"idle", "count", "stop", "guard", "ask", "record",
                                         "block"}, read: Nat]]
        /\ IF failures' >= MaxFailures THEN login'[r].step = "block" ELSE login'[r].step = "idle"
        /\ \A q \in Logins : q # r => login'[q] = login[q]
    BY <1>2, LoginGoes
  <1>5. LoginTypeInv'
    <2>1. failures' \in Nat /\ failUntil' \in Nat
      <3>1. login[r].read \in Nat
        BY DEF LoginTypeInv
      <3> QED
        BY SMTT(60), <1>1, <1>2, <3>1
    <2> QED
      BY <1>2, <1>3, <1>4, <2>1 DEF LoginTypeInv
  <1>6. RateInv'
    BY <1>2, RateUndisturbed
  <1>7. x.at = time /\ ~x.ok
    BY DEF x
  <1>8. FailInv'
    <2> SUFFICES ASSUME ~lost'
                 PROVE  /\ failures' <= e + 1
                        /\ \A i \in 1 .. e + 1 : i + failures' > e + 1 =>
                             /\ ~ended'[i].ok
                             /\ i + failures' # e + 2 => ended'[i].at - ended'[i - 1].at < Window
                        /\ failures' # 0 /\ failUntil' = ended'[e + 1].at + Window
                        /\ failures' # e + 1 =>
                             \/ ended'[(e + 1) - failures'].ok
                             \/ ended'[(e + 1) - failures' + 1].at - ended'[(e + 1) - failures'].at
                                  >= Window
      BY <1>1, <1>3 DEF FailInv
    <2>1. ~lost /\ failures' = v + 1
      BY <1>2
    <2>2. failUntil' = ended'[e + 1].at + Window
      BY <1>2, <1>3, <1>7
    <2>3. /\ failures <= e
          /\ \A i \in 1 .. e : i + failures > e =>
               ~ended[i].ok /\ (i + failures # e + 1 => ended[i].at - ended[i - 1].at < Window)
          /\ failures = 0 => e = 0 \/ ended[e].ok
          /\ failures # 0 =>
               /\ failUntil = ended[e].at + Window
               /\ failures # e => \/ ended[e - failures].ok
                                  \/ ended[e - failures + 1].at - ended[e - failures].at >= Window
      BY <1>0, <2>1 DEF FailInv
    <2>4. CASE v = 0
      <3>1. failures' = 1
        BY <2>1, <2>4
      <3>2. \A i \in 1 .. e + 1 : i + 1 > e + 1 => i = e + 1
        OBVIOUS
      <3>3. e # 0 => ended'[e].ok \/ ended'[e + 1].at - ended'[e].at >= Window
        <4>1. CASE failures = 0
          BY <1>3, <2>3, <4>1
        <4>2. CASE failures # 0 /\ e # 0
          <5>1. time >= failUntil /\ failUntil = ended[e].at + Window /\ ended[e].at \in Nat
            BY <1>1, <2>3, <2>4, <4>2
          <5>2. time - ended[e].at >= Window
            BY <1>1, <5>1
          <5> QED
            BY <1>3, <1>7, <4>2, <5>2
        <4> QED
          BY <4>1, <4>2
      <3> QED
        BY <1>3, <1>7, <2>2, <3>1, <3>2, <3>3
    <2>5. CASE v # 0
      <3>1. /\ time < failUntil /\ failures' = failures + 1 /\ failures # 0 /\ e # 0
            /\ failUntil = ended[e].at + Window
        BY <1>1, <2>1, <2>3, <2>5
      <3>2. ASSUME NEW i \in 1 .. e + 1, i + failures' > e + 1
            PROVE  /\ ~ended'[i].ok
                   /\ i + failures' # e + 2 => ended'[i].at - ended'[i - 1].at < Window
        <4>1. CASE i = e + 1
          <5>1. time - ended[e].at < Window
            <6>1. ended[e].at \in Nat
              BY <1>1, <3>1
            <6> QED
              BY <1>1, <3>1, <6>1
          <5>2. (e + 1) - 1 = e /\ e \in 1 .. e
            BY <3>1
          <5> QED
            BY <1>3, <1>7, <4>1, <5>1, <5>2
        <4>2. CASE i # e + 1
          <5>1. i \in 1 .. e /\ i + failures > e
            BY <1>1, <3>1, <3>2, <4>2
          <5>2. i + failures' # e + 2 => i + failures # e + 1 /\ i - 1 \in 1 .. e
            BY <1>1, <2>3, <3>1, <5>1
          <5> QED
            BY <1>3, <2>3, <5>1, <5>2
        <4> QED
          BY <4>1, <4>2
      <3>3. failures' # e + 1 =>
                 \/ ended'[(e + 1) - failures'].ok
                 \/ ended'[(e + 1) - failures' + 1].at - ended'[(e + 1) - failures'].at
                      >= Window
        <4> SUFFICES ASSUME failures # e
                     PROVE  \/ ended'[e - failures].ok
                            \/ ended'[e - failures + 1].at - ended'[e - failures].at >= Window
          BY <1>1, <3>1
        <4>1. e - failures \in 1 .. e /\ e - failures + 1 \in 1 .. e
          BY <1>1, <2>3, <3>1
        <4> QED
          BY <1>3, <2>3, <3>1, <4>1
      <3>4. failures' <= e + 1 /\ failures' # 0
        BY <1>1, <2>3, <3>1
      <3> QED
        BY <2>2, <3>2, <3>3, <3>4
    <2> QED
      BY <2>4, <2>5
  <1>9. ~lost' => (Login!Strikes(e + 1)' <=> failures' >= MaxFailures)
    <2>1. LoginTypeInv' /\ FailInv' /\ (e + 1 = Len(ended')) /\ Len(ended') # 0
      BY <1>3, <1>5, <1>8
    <2>2. (LoginTypeInv /\ FailInv /\ ~lost /\ Len(ended) # 0 =>
            (Login!Strikes(Len(ended)) <=> failures >= MaxFailures))'
      BY CounterTells, PTL
    <2>3. Login!Strikes(e + 1)' <=> Login!Strikes(Len(ended))'
      BY <2>1 DEF Login!Strikes
    <2> QED
      BY <2>1, <2>2, <2>3
  <1>10. BlockInv'
    <2> SUFFICES ASSUME TRUE
                 PROVE  /\ \A k \in 1 .. e + 1 : ended'[k].at <= time
                        /\ ~lost' =>
                             /\ blockUntil # 0 => \E k \in 1 .. e + 1 :
                                  Login!Strikes(k)' /\ blockUntil = ended'[k].at + BlockDuration
                             /\ \A k \in 1 .. e + 1 : Login!Strikes(k)' =>
                                  \/ ended'[k].at + BlockDuration <= blockUntil
                                  \/ ended'[k].at = time /\ \E q \in Logins : login'[q].step = "block"
                             /\ \A q \in Logins : login'[q].step = "block" =>
                                  \E k \in 1 .. e + 1 : Login!Strikes(k)' /\ ended'[k].at = time
      BY <1>2, <1>3 DEF BlockInv
    <2>1. \A k \in 1 .. e + 1 : k \in 1 .. e \/ k = e + 1
      OBVIOUS
    <2>2. \A k \in 1 .. e : k \in 1 .. e + 1
      OBVIOUS
    <2>3. \A q \in Logins : login[q].step = "block" => login'[q].step = "block"
      BY <1>2, <1>4
    <2>4. ended'[e + 1].at = time
      BY <1>3, <1>7
    <2>5. \A k \in 1 .. e + 1 : ended'[k].at <= time
      <3>1. \A k \in 1 .. e : ended[k].at <= time
        BY <1>0 DEF BlockInv
      <3> QED
        BY <1>1, <1>3, <2>1, <2>4, <3>1
    <2>6. ASSUME ~lost', blockUntil # 0
          PROVE  \E k \in 1 .. e + 1 :
                   Login!Strikes(k)' /\ blockUntil = ended'[k].at + BlockDuration
      BY <1>0, <1>2, <1>3, <2>2, <2>6 DEF BlockInv
    <2>7. ASSUME ~lost', NEW k \in 1 .. e + 1, Login!Strikes(k)'
          PROVE  \/ ended'[k].at + BlockDuration <= blockUntil
                 \/ ended'[k].at = time /\ \E q \in Logins : login'[q].step = "block"
      <3>1. CASE k = e + 1
        BY <1>4, <1>9, <2>4, <2>7, <3>1
      <3>2. CASE k \in 1 .. e
        BY <1>0, <1>2, <1>3, <2>3, <2>7, <3>2 DEF BlockInv
      <3> QED
        BY <2>1, <3>1, <3>2
    <2>8. ASSUME ~lost', NEW q \in Logins, login'[q].step = "block"
          PROVE  \E k \in 1 .. e + 1 : Login!Strikes(k)' /\ ended'[k].at = time
      <3>1. CASE q = r
        <4>1. e + 1 \in 1 .. e + 1 /\ failures' >= MaxFailures
          BY <1>4, <2>8, <3>1
        <4> QED
          BY <1>9, <2>4, <2>8, <4>1
      <3>2. CASE q # r
        BY <1>0, <1>2, <1>3, <1>4, <2>2, <2>8, <3>2 DEF BlockInv
      <3> QED
        BY <3>1, <3>2
    <2> QED
      BY <2>5, <2>6, <2>7, <2>8
  <1> QED
    BY <1>5, <1>6, <1>8, <1>10

LEMMA BlockIpKeeps ==
  ASSUME LoginInv, NEW r \in Logins, Login!BlockIp(r)
  PROVE  LoginInv'
  <1> USE DEF LoginInv
  <1>1. /\ login[r].step = "block" /\ blockUntil' = time + BlockDuration /\ Login!Done(r)
        /\ UNCHANGED <<time, hits, hitsUntil, stopUntil, failures, failUntil, passed, ended, lost>>
    BY DEF Login!BlockIp, Login!At
  <1>2. /\ time \in Nat /\ BlockDuration \in Nat /\ blockUntil' \in Nat /\ Len(ended) \in Nat
        /\ \A k \in 1 .. Len(ended) : ended[k].at \in Nat
    BY <1>1, LoginTypes, LoginBounds
  <1>3. /\ login' \in [Logins -> [step: {"idle", "count", "stop", "guard", "ask", "record",
                                         "block"}, read: Nat]]
        /\ login'[r].step = "idle"
        /\ \A q \in Logins : q # r => login'[q] = login[q]
    BY <1>1, LoginGoes
  <1>4. LoginTypeInv'
    BY <1>1, <1>2, <1>3 DEF LoginTypeInv
  <1>5. RateInv' /\ FailInv'
    BY <1>1, RateUndisturbed DEF FailInv
  <1>6. \A k : Login!Strikes(k)' <=> Login!Strikes(k)
    BY <1>1 DEF Login!Strikes
  <1>7. \A k \in 1 .. Len(ended) : ended[k].at <= time
    BY DEF BlockInv
  <1>8. \A k \in 1 .. Len(ended) : ended[k].at + BlockDuration <= blockUntil'
    <2> TAKE k \in 1 .. Len(ended)
    <2> QED
      BY <1>1, <1>2, <1>7
  <1>9. ASSUME ~lost
        PROVE  \E k \in 1 .. Len(ended) : Login!Strikes(k) /\ ended[k].at = time
    BY <1>1, <1>9 DEF BlockInv
  <1>10. BlockInv'
    BY <1>1, <1>3, <1>6, <1>7, <1>8, <1>9 DEF BlockInv
  <1> QED
    BY <1>4, <1>5, <1>10

LEMMA LoginTickKeeps ==
  ASSUME LoginInv, Login!Tick
  PROVE  LoginInv'
  <1> USE DEF LoginInv
  <1>1. /\ time' = time + 1 /\ \A r \in Logins : login[r].step # "block"
        /\ UNCHANGED <<hits, hitsUntil, stopUntil, failures, failUntil, blockUntil,
                       login, passed, ended, lost>>
    BY DEF Login!Tick
  <1>2. /\ time \in Nat /\ Len(passed) \in Nat /\ Len(ended) \in Nat /\ hitsUntil \in Nat
        /\ \A i \in 1 .. Len(passed) : passed[i] \in Nat
        /\ \A k \in 1 .. Len(ended) : ended[k].at \in Nat
    BY LoginTypes
  <1>3. LoginTypeInv'
    BY <1>1, <1>2 DEF LoginTypeInv
  <1>4. RateInv'
    <2>1. \A i \in 1 .. Len(passed) : passed[i] <= time + 1
      <3> TAKE i \in 1 .. Len(passed)
      <3> QED
        BY <1>2 DEF RateInv
    <2>2. hits = 0 => hitsUntil <= time + 1
      BY <1>2 DEF RateInv
    <2> QED
      BY <1>1, <2>1, <2>2 DEF RateInv, Counted, Login!RateLimited
  <1>5. FailInv'
    BY <1>1 DEF FailInv
  <1>6. \A k : Login!Strikes(k)' <=> Login!Strikes(k)
    BY <1>1 DEF Login!Strikes
  <1>7. \A k \in 1 .. Len(ended) : ended[k].at <= time + 1
    <2> TAKE k \in 1 .. Len(ended)
    <2>1. ended[k].at <= time
      BY DEF BlockInv
    <2>2. ended[k].at \in Nat
      BY <1>2
    <2> QED
      BY <1>2, <2>1, <2>2
  <1>8. BlockInv'
    BY <1>1, <1>6, <1>7 DEF BlockInv
  <1> QED
    BY <1>3, <1>4, <1>5, <1>8

LEMMA LoginInvariant == Login!Spec => []LoginInv
  <1>1. Login!Init => LoginInv
    <2> SUFFICES ASSUME Login!Init
                 PROVE  LoginInv
      OBVIOUS
    <2> USE DEF Login!Init
    <2>1. LoginTypeInv
      BY DEF LoginTypeInv
    <2>2. RateInv
      BY LoginBounds DEF RateInv, Counted, Login!RateLimited
    <2>3. FailInv /\ BlockInv
      BY DEF FailInv, BlockInv
    <2> QED
      BY <2>1, <2>2, <2>3 DEF LoginInv
  <1>2. LoginInv /\ [Login!Next]_(Login!gvars) => LoginInv'
    <2> SUFFICES ASSUME LoginInv, [Login!Next]_(Login!gvars)
                 PROVE  LoginInv'
      OBVIOUS
    <2>1. ASSUME NEW r \in Logins,
                 Login!CheckStop(r) \/ Login!StopClient(r) \/ Login!Guard(r)
                   \/ Login!ReadFailures(r) \/ Login!Unanswered(r)
          PROVE  LoginInv'
      <3>1. /\ login[r].step # "block"
            /\ UNCHANGED <<time, hits, hitsUntil, failures, failUntil, blockUntil,
                           passed, ended, lost>>
        BY <2>1 DEF Login!CheckStop, Login!StopClient, Login!Guard, Login!ReadFailures,
           Login!Unanswered, Login!At
      <3>2. stopUntil' \in Nat
        BY <2>1, LoginTypes, LoginBounds DEF Login!CheckStop, Login!StopClient, Login!Guard,
           Login!ReadFailures, Login!Unanswered, LoginInv, LoginTypeInv
      <3>3. \/ login' = login
            \/ \E step \in {"count", "ask"} : Login!Goto(r, step)
            \/ Login!Done(r)
            \/ \E n \in Nat : login' = [login EXCEPT ![r] = [step |-> "record", read |-> n]]
        BY <2>1, LoginTypes DEF Login!CheckStop, Login!StopClient, Login!Guard,
           Login!ReadFailures, Login!Unanswered, Login!Value, LoginInv
      <3>4. /\ login' \in [Logins -> [step: {"idle", "count", "stop", "guard", "ask", "record",
                                             "block"}, read: Nat]]
            /\ \A q \in Logins : login'[q].step = "block" <=> login[q].step = "block"
        <4>1. CASE \E step \in {"count", "ask"} : Login!Goto(r, step)
          BY <3>1, <4>1, LoginGoes DEF LoginInv
        <4>2. CASE Login!Done(r)
          BY <3>1, <4>2, LoginGoes DEF LoginInv
        <4>3. CASE \E n \in Nat : login' = [login EXCEPT ![r] = [step |-> "record", read |-> n]]
          BY <3>1, <4>3 DEF LoginInv, LoginTypeInv
        <4> QED
          BY <3>3, <4>1, <4>2, <4>3 DEF LoginInv, LoginTypeInv
      <3>5. LoginTypeInv'
        BY <3>1, <3>2, <3>4 DEF LoginInv, LoginTypeInv
      <3> QED
        BY <3>1, <3>4, <3>5, FailuresUndisturbed, RateUndisturbed DEF LoginInv
    <2>2. CASE UNCHANGED Login!gvars
      <3>1. UNCHANGED <<time, hits, hitsUntil, stopUntil, failures, failUntil, blockUntil,
                        login, passed, ended, lost>>
        BY <2>2 DEF Login!gvars
      <3> QED
        BY <3>1, FailuresUndisturbed, RateUndisturbed DEF LoginInv, LoginTypeInv
    <2> QED
      BY <2>1, <2>2, CountHitKeeps, AcceptedKeeps, WriteFailuresKeeps, BlockIpKeeps,
         LoginTickKeeps
      DEF Login!Next
  <1> QED
    BY <1>1, <1>2, PTL DEF Login!Spec

\* The address is blocked for BlockDuration after the logins that failed in a row, and
\* not otherwise, and never do more than Limit requests pass in a period of Ttl.
THEOREM LoginsAreGuarded == Login!Spec => []LoginsGuarded
  <1>1. LoginInv => LoginsGuarded
    <2> SUFFICES ASSUME LoginInv, ~lost, \A r \in Logins : login[r].step # "block"
                 PROVE  time < blockUntil <=>
                          \E k \in DOMAIN ended : Login!Strikes(k) /\ time - ended[k].at < BlockDuration
      BY DEF LoginInv, RateInv, LoginsGuarded, Login!BlockedByFailures, Login!At
    <2>1. /\ time \in Nat /\ blockUntil \in Nat /\ BlockDuration \in Nat
          /\ DOMAIN ended = 1 .. Len(ended)
          /\ \A k \in 1 .. Len(ended) : ended[k].at \in Nat
      BY LoginTypes, LoginBounds DEF LoginInv, LoginTypeInv
    <2>2. ASSUME time < blockUntil
          PROVE  \E k \in 1 .. Len(ended) :
                   Login!Strikes(k) /\ time - ended[k].at < BlockDuration
      <3>1. PICK k \in 1 .. Len(ended) :
              Login!Strikes(k) /\ blockUntil = ended[k].at + BlockDuration
        BY <2>1, <2>2 DEF LoginInv, BlockInv
      <3>2. time - ended[k].at < BlockDuration
        BY <2>1, <2>2, <3>1
      <3> QED
        BY <3>1, <3>2
    <2>3. ASSUME NEW k \in 1 .. Len(ended), Login!Strikes(k), time - ended[k].at < BlockDuration
          PROVE  time < blockUntil
      <3>1. ended[k].at + BlockDuration <= blockUntil
        BY <2>3 DEF LoginInv, BlockInv
      <3> QED
        BY <2>1, <2>3, <3>1
    <2> QED
      BY <2>1, <2>2, <2>3
  <1> QED
    BY <1>1, LoginInvariant, PTL
-----------------------------------------------------------------------------
(***************************************************************************)
(* InterestAccrual.                                                        *)
(***************************************************************************)
InterestRow == Interest!AccountRow
LoadedCopy == [id: Savings, row: InterestRow]
PatchCopy == [id: Savings, old: InterestRow, new: InterestRow]
JobRun == [todo: SUBSET LoadedCopy, now: Savings \cup {None}, on: Interest!Days \cup {None}]

RunsInv ==
  /\ run \in [Runs -> JobRun]
  /\ \A r \in Runs : run[r].now # None =>
       run[r].now \in Interest!Left(r) /\ run[r].on \in Interest!Days /\ run[r].on <= day

InterestTypeInv ==
  /\ day \in Interest!Days
  /\ account \in [Savings -> InterestRow]
  /\ RunsInv
  /\ edit \in [Editors -> PatchCopy \cup {None}]
  /\ paid \in [Savings -> Seq(Interest!Payment)]
  /\ crashes \in Nat

\* A date that may be missing is not after another.
NotAfter(x, y) == x # None => y # None /\ x <= y

Newest(a) == paid[a][Len(paid[a])]

\* A maturity that the last payment of a has not paid.
Unpaid(a, maturity) ==
  Newest(a).deposit /\ Newest(a).renew /\ maturity # None => maturity > Newest(a).from

\* The payments of account a follow one another.
Chain(a) ==
  /\ \A i \in 1 .. Len(paid[a]) - 1 :
       /\ ~paid[a][i].deposit /\ ~paid[a][i + 1].deposit => paid[a][i + 1].from = paid[a][i].to
       /\ paid[a][i].deposit /\ paid[a][i + 1].deposit /\ paid[a][i].renew =>
            paid[a][i].from < paid[a][i + 1].from
  /\ \A i \in 1 .. Len(paid[a]) : paid[a][i].from <= paid[a][i].to

\* Between its two writes a run is alone with account a, and its copy tells the payment
\* it has stored.
Paying(a) ==
  \A r \in Runs : run[r].now = a =>
    /\ \A s \in Runs : run[s].now = a => s = r
    /\ paid[a] # <<>> /\ Newest(a) = Interest!CalculateInterest(Interest!CopyOf(r, a), run[r].on)
    /\ NotAfter(Interest!CopyOf(r, a).last, run[r].on)

\* When no run is between its writes, the row and the PATCH requests that may still be
\* saved tell the last payment.
Rested(a) ==
  (\A r \in Runs : run[r].now # a) /\ paid[a] # <<>> =>
    /\ account[a].last = Newest(a).to
    /\ Unpaid(a, account[a].maturity)
    /\ \A e \in Editors : edit[e] # None /\ edit[e].id = a /\ edit[e].old.last = account[a].last =>
         Unpaid(a, edit[e].new.maturity)

\* No request brings back a date.
Dates(a) ==
  /\ NotAfter(account[a].last, day)
  /\ \A e \in Editors : edit[e] # None /\ edit[e].id = a =>
       NotAfter(edit[e].old.last, account[a].last) /\ edit[e].new.last = edit[e].old.last

InterestInv ==
  /\ InterestTypeInv
  /\ \A a \in Savings \ unsettled : Chain(a) /\ Paying(a) /\ Rested(a) /\ Dates(a)

LEMMA InterestBounds ==
  /\ LastDay \in Nat /\ Interest!Days = 0 .. LastDay /\ Terms \subseteq Nat
  /\ \A t \in Terms : t > 0
  /\ \A f \in DOMAIN MinDays : MinDays[f] \in Nat
  /\ None \notin Nat /\ None \notin Savings /\ None \notin Interest!Payment
  <1>1. \A t \in Terms : t \in Nat /\ t # 0
    BY InterestAssumption
  <1>2. \A t \in Terms : t > 0
    BY <1>1
  <1> QED
    BY <1>1, <1>2, InterestAssumption DEF Interest!Days

\* What the payment of a row says of the row.
LEMMA PaymentOf ==
  ASSUME NEW x \in InterestRow, NEW d \in Interest!Days,
         Interest!CalculateInterest(x, d) # None
  PROVE  LET p == Interest!CalculateInterest(x, d)
         IN  /\ p \in Interest!Payment
             /\ p.to = d /\ p.from <= d /\ x.last # d
             /\ p.renew = x.renew /\ p.deposit = Interest!Deposit(x)
             /\ p.deposit => p.from = x.maturity /\ x.maturity # None
             /\ ~p.deposit /\ x.last # None => p.from = x.last
  <1> DEFINE start == Interest!PeriodStart(x)
             first == IF Interest!Deposit(x) THEN x.maturity ELSE start
  <1>1. /\ x.last \in Interest!Days \cup {None} /\ x.from \in Interest!Days \cup {None}
        /\ x.maturity \in Nat \cup {None} /\ x.renew \in BOOLEAN
    BY DEF InterestRow, Interest!AccountRow
  <1>2. start \in Nat /\ (x.last # None => start = x.last)
    <2>1. 0 \in Nat /\ \A y \in Interest!Days : y \in Nat
      BY InterestBounds
    <2>2. start = IF x.last # None THEN x.last ELSE IF x.from # None THEN x.from ELSE 0
      BY DEF Interest!PeriodStart
    <2> HIDE DEF start
    <2> QED
      BY <1>1, <2>1, <2>2
  <1>3. /\ start # d
        /\ IF Interest!Deposit(x) THEN d >= x.maturity
           ELSE x.frequency \in DOMAIN MinDays /\ d - start >= MinDays[x.frequency]
        /\ Interest!CalculateInterest(x, d) =
             [from |-> first, to |-> d, deposit |-> Interest!Deposit(x), renew |-> x.renew]
    BY DEF Interest!CalculateInterest
  <1> HIDE DEF start
  <1>4. Interest!Deposit(x) \in BOOLEAN /\ (Interest!Deposit(x) => x.maturity # None)
    BY DEF Interest!Deposit
  <1>5. first \in Nat /\ first <= d /\ d \in Nat
    <2>1. d \in Nat
      BY InterestBounds
    <2>2. CASE Interest!Deposit(x)
      BY <1>1, <1>3, <1>4, <2>1, <2>2
    <2>3. CASE ~Interest!Deposit(x)
      <3>1. MinDays[x.frequency] \in Nat
        BY <1>3, <2>3, InterestBounds
      <3>2. d - start >= MinDays[x.frequency]
        BY <1>3, <2>3
      <3>3. start <= d
        BY <1>2, <2>1, <3>1, <3>2
      <3> QED
        BY <1>2, <2>1, <2>3, <3>3
    <2> QED
      BY <2>2, <2>3
  <1>6. x.last # d
    BY <1>2, <1>3, <1>5, InterestBounds
  <1>7. /\ Interest!Deposit(x) => first = x.maturity
        /\ ~Interest!Deposit(x) /\ x.last # None => first = x.last
    BY <1>2
  <1> HIDE DEF first
  <1> QED
    BY <1>1, <1>3, <1>4, <1>5, <1>6, <1>7 DEF Interest!Payment

\* What saving the date of a payment makes of a row.
LEMMA DatedRow ==
  ASSUME NEW x \in InterestRow, NEW d \in Interest!Days
  PROVE  /\ Interest!Dated(x, d) \in InterestRow
         /\ Interest!Dated(x, d).last = d
         /\ Interest!Deposit(x) /\ d >= x.maturity /\ x.renew =>
              Interest!Dated(x, d).maturity > x.maturity
  <1>1. /\ x.maturity \in Nat \cup {None} /\ x.term \in Nat /\ d \in Interest!Days \cup {None}
        /\ Interest!Deposit(x) => x.term # 0 /\ x.maturity # None
    BY DEF InterestRow, Interest!AccountRow, Interest!Deposit
  <1>2. CASE Interest!Deposit(x) /\ d >= x.maturity /\ x.renew
    <2>1. PICK m : m = x.maturity + x.term
      OBVIOUS
    <2>2. m \in Nat /\ m > x.maturity
      BY <1>1, <1>2, <2>1
    <2>3. Interest!Dated(x, d) = [x EXCEPT !.last = d, !.maturity = m]
      BY <1>2, <2>1 DEF Interest!Dated
    <2> QED
      BY ZenonT(60), <1>1, <2>2, <2>3 DEF InterestRow, Interest!AccountRow
  <1>3. CASE ~(Interest!Deposit(x) /\ d >= x.maturity /\ x.renew)
    <2>1. Interest!Dated(x, d) = [x EXCEPT !.last = d]
      BY <1>3 DEF Interest!Dated
    <2> QED
      BY <1>1, <1>3, <2>1 DEF InterestRow, Interest!AccountRow
  <1> QED
    BY <1>2, <1>3

\* A PATCH keeps the date of the last payment; a maturity it sets is after today.
LEMMA ChangedRow ==
  ASSUME NEW x \in InterestRow, NEW c \in Interest!Changed(x), day \in Interest!Days
  PROVE  /\ c \in InterestRow /\ c.last = x.last
         /\ c.maturity # x.maturity => c.maturity \in Nat /\ c.maturity > day
  <1> USE DEF InterestRow, Interest!AccountRow
  <1>1. ASSUME \/ c = [x EXCEPT !.enabled = ~x.enabled] \/ c = [x EXCEPT !.earns = ~x.earns]
               \/ c = [x EXCEPT !.from = day]
               \/ \E t \in Terms : c = [x EXCEPT !.term = t]
        PROVE  c \in InterestRow /\ c.last = x.last /\ c.maturity = x.maturity
    <2>1. CASE c = [x EXCEPT !.enabled = ~x.enabled]
      <3>1. x.enabled \in BOOLEAN /\ (~x.enabled) \in BOOLEAN
        OBVIOUS
      <3> DEFINE v == ~x.enabled
      <3>2. v \in BOOLEAN /\ c = [x EXCEPT !.enabled = v]
        BY <2>1, <3>1
      <3> HIDE DEF v
      <3> QED
        BY <3>2
    <2>2. CASE c = [x EXCEPT !.earns = ~x.earns]
      <3>1. x.earns \in BOOLEAN /\ (~x.earns) \in BOOLEAN
        OBVIOUS
      <3> DEFINE v == ~x.earns
      <3>2. v \in BOOLEAN /\ c = [x EXCEPT !.earns = v]
        BY <2>2, <3>1
      <3> HIDE DEF v
      <3> QED
        BY <3>2
    <2>3. CASE c = [x EXCEPT !.from = day]
      BY <2>3
    <2>4. CASE \E t \in Terms : c = [x EXCEPT !.term = t]
      BY <2>4, InterestBounds
    <2> QED
      BY <1>1, <2>1, <2>2, <2>3, <2>4
  <1>3. CASE \E t \in Terms : c = [x EXCEPT !.term = t, !.maturity = day + t]
    <2>1. PICK t \in Terms : c = [x EXCEPT !.term = t, !.maturity = day + t]
      BY <1>3
    <2>2. PICK m : m = day + t
      OBVIOUS
    <2>3. m \in Nat /\ m > day /\ t \in Nat
      BY <2>2, InterestBounds
    <2>4. c = [x EXCEPT !.term = t, !.maturity = m]
      BY <2>1, <2>2
    <2> QED
      BY <2>3, <2>4
  <1> QED
    BY <1>1, <1>3 DEF Interest!Changed

\* The copy of an account that is left.
LEMMA CopyLeft ==
  ASSUME InterestTypeInv, NEW r \in Runs, NEW a \in Interest!Left(r)
  PROVE  a \in Savings /\ Interest!CopyOf(r, a) \in InterestRow
  <1>1. run[r].todo \subseteq LoadedCopy
    BY DEF InterestTypeInv, RunsInv, JobRun
  <1>2. PICK c \in run[r].todo : c.id = a
    BY DEF Interest!Left
  <1>3. (CHOOSE x \in run[r].todo : x.id = a) \in run[r].todo
    BY <1>2
  <1> QED
    BY <1>1, <1>2, <1>3 DEF Interest!CopyOf, LoadedCopy

\* What a step of one run makes of the runs.
LEMMA RunGoes ==
  ASSUME InterestTypeInv, NEW r \in Runs, NEW x \in JobRun, run' = [run EXCEPT ![r] = x], day' = day,
         x.now # None => /\ x.now \in {c.id : c \in x.todo}
                         /\ x.on \in Interest!Days /\ x.on <= day
  PROVE  RunsInv' /\ run'[r] = x /\ \A s \in Runs : s # r => run'[s] = run[s]
  <1>1. run'[r] = x /\ \A s \in Runs : s # r => run'[s] = run[s]
    BY DEF InterestTypeInv, RunsInv
  <1>2. run' \in [Runs -> JobRun]
    BY DEF InterestTypeInv, RunsInv
  <1>3. ASSUME NEW s \in Runs, run'[s].now # None
        PROVE  run'[s].now \in Interest!Left(s)' /\ run'[s].on \in Interest!Days /\ run'[s].on <= day
    <2>1. CASE s = r
      BY <1>1, <1>3, <2>1 DEF Interest!Left
    <2>2. CASE s # r
      <3>1. run'[s] = run[s]
        BY <1>1, <2>2
      <3>2. Interest!Left(s)' = Interest!Left(s)
        BY <3>1 DEF Interest!Left
      <3> QED
        BY <1>3, <3>1, <3>2 DEF InterestTypeInv, RunsInv
    <2> QED
      BY <2>1, <2>2
  <1> QED
    BY <1>1, <1>2, <1>3 DEF RunsInv, Interest!Days

\* The row of a run that loads, drops an account, pays it or saves its dates.
LEMMA RunTypes ==
  ASSUME InterestTypeInv, NEW r \in Runs
  PROVE  /\ run[r] = [todo |-> run[r].todo, now |-> run[r].now, on |-> run[r].on]
         /\ run[r].todo \in SUBSET LoadedCopy /\ run[r].now \in Savings \cup {None}
         /\ run[r].on \in Interest!Days \cup {None}
         /\ \A a : Interest!Without(r, a) \in SUBSET LoadedCopy
         /\ run[r].now # None => run[r].now \in Interest!Left(r) /\ run[r].on \in Interest!Days
                                   /\ run[r].on <= day
  <1>1. run[r] \in JobRun
    BY DEF InterestTypeInv, RunsInv
  <1> QED
    BY <1>1 DEF InterestTypeInv, RunsInv, JobRun, Interest!Without

\* A run that changes what it has left while it is not between its writes.
LEMMA TodoGoes ==
  ASSUME InterestTypeInv, NEW r \in Runs, NEW T \in SUBSET LoadedCopy,
         run[r].now = None, run' = [run EXCEPT ![r].todo = T], day' = day
  PROVE  /\ RunsInv' /\ run'[r].todo = T /\ run'[r].now = None
         /\ \A s \in Runs : s # r => run'[s] = run[s]
  <1> DEFINE x == [todo |-> T, now |-> None, on |-> run[r].on]
  <1>1. run' = [run EXCEPT ![r] = x] /\ x \in JobRun
    <2>1. run[r] \in JobRun
      BY DEF InterestTypeInv, RunsInv
    <2>2. [run[r] EXCEPT !.todo = T] = x
      BY <2>1 DEF JobRun
    <2>3. x \in JobRun
      BY <2>1 DEF JobRun
    <2> QED
      BY <2>2, <2>3
  <1>2. x.now = None /\ x.todo = T
    OBVIOUS
  <1> HIDE DEF x
  <1> QED
    BY <1>1, <1>2, RunGoes

\* Steps that say nothing new of account a.
LEMMA Undisturbed ==
  ASSUME InterestInv, NEW a \in Savings \ unsettled, day' \in Nat, day <= day',
         account'[a].last = account[a].last, account'[a].maturity = account[a].maturity,
         paid'[a] = paid[a],
         \A r \in Runs : run'[r].now = a <=> run[r].now = a,
         \A r \in Runs : run[r].now = a => run'[r] = run[r],
         \A e \in Editors : edit'[e] # None /\ edit'[e].id = a => edit'[e] = edit[e]
  PROVE  Chain(a)' /\ Paying(a)' /\ Rested(a)' /\ Dates(a)'
  <1>1. Chain(a) /\ Paying(a) /\ Rested(a) /\ Dates(a) /\ InterestTypeInv
    BY DEF InterestInv
  <1>2. Chain(a)' /\ Newest(a)' = Newest(a)
    BY <1>1 DEF Chain, Newest
  <1>3. Paying(a)'
    <2>1. \A r \in Runs : run[r].now = a => Interest!CopyOf(r, a)' = Interest!CopyOf(r, a)
      BY DEF Interest!CopyOf
    <2> QED
      BY <1>1, <1>2, <2>1 DEF Paying
  <1>4. Rested(a)'
    BY <1>1, <1>2 DEF Rested, Unpaid
  <1>5. NotAfter(account[a].last, day')
    <2>1. day \in Nat /\ account[a].last \in Nat \cup {None}
      BY <1>1, InterestBounds DEF InterestTypeInv, InterestRow, Interest!AccountRow
    <2> QED
      BY <1>1, <2>1, InterestBounds DEF Dates, NotAfter
  <1>6. Dates(a)'
    BY <1>1, <1>5 DEF Dates, NotAfter
  <1> QED
    BY <1>2, <1>3, <1>4, <1>6

\* A step that disturbs no account that is settled after it.
LEMMA NoneDisturbed ==
  ASSUME InterestInv, InterestTypeInv', unsettled \subseteq unsettled', day <= day',
         \A a \in Savings \ unsettled' :
           /\ account'[a].last = account[a].last /\ account'[a].maturity = account[a].maturity
           /\ paid'[a] = paid[a]
           /\ \A r \in Runs : run'[r].now = a <=> run[r].now = a
           /\ \A r \in Runs : run[r].now = a => run'[r] = run[r]
           /\ \A e \in Editors : edit'[e] # None /\ edit'[e].id = a => edit'[e] = edit[e]
  PROVE  InterestInv'
  <1>1. day' \in Nat
    <2>1. day' \in Interest!Days
      BY DEF InterestTypeInv, Interest!Days
    <2> QED
      BY <2>1, InterestBounds
  <1>2. ASSUME NEW a \in Savings \ unsettled'
        PROVE  (Chain(a) /\ Paying(a) /\ Rested(a) /\ Dates(a))'
    <2>1. a \in Savings \ unsettled
      OBVIOUS
    <2> QED
      BY <1>1, <2>1, Undisturbed
  <1> QED
    BY <1>2 DEF InterestInv

LEMMA TodoKeeps ==
  ASSUME InterestInv, NEW r \in Runs, NEW T \in SUBSET LoadedCopy,
         run[r].now = None, run' = [run EXCEPT ![r].todo = T],
         UNCHANGED <<day, account, edit, paid, unsettled, crashes>>
  PROVE  InterestInv'
  <1>1. InterestTypeInv
    BY DEF InterestInv
  <1>2. /\ RunsInv' /\ run'[r].now = None
        /\ \A s \in Runs : s # r => run'[s] = run[s]
    BY <1>1, TodoGoes
  <1>3. InterestTypeInv'
    BY <1>1, <1>2 DEF InterestTypeInv, Interest!Days
  <1>4. \A s \in Runs : run[s].now # None => run'[s] = run[s]
    BY <1>2
  <1>5. \A s \in Runs : run'[s].now = run[s].now
    BY <1>2
  <1>6. day \in Nat /\ None \notin Savings
    BY <1>1, InterestBounds DEF InterestTypeInv
  <1>7. day <= day'
    BY <1>6
  <1> QED
    BY <1>3, <1>4, <1>5, <1>6, <1>7, NoneDisturbed

LEMMA FindKeeps ==
  ASSUME InterestInv, NEW r \in Runs, Interest!Find(r)
  PROVE  InterestInv'
  <1> DEFINE T == {[id |-> a, row |-> account[a]] :
                     a \in {b \in Savings : account[b].live /\ account[b].enabled}}
  <1>1. T \in SUBSET LoadedCopy
    BY DEF InterestInv, InterestTypeInv, LoadedCopy
  <1>2. run[r].now = None /\ run' = [run EXCEPT ![r].todo = T]
        /\ UNCHANGED <<day, account, edit, paid, unsettled, crashes>>
    BY DEF Interest!Find, Interest!Idle
  <1> QED
    BY <1>1, <1>2, TodoKeeps

LEMMA PassedOverKeeps ==
  ASSUME InterestInv, NEW r \in Runs, NEW a \in Savings,
         Interest!Skip(r, a) \/ Interest!IncomeFails(r, a)
  PROVE  InterestInv'
  <1>1. Interest!Without(r, a) \in SUBSET LoadedCopy
    BY RunTypes DEF InterestInv
  <1>2. run[r].now = None /\ run' = [run EXCEPT ![r].todo = Interest!Without(r, a)]
        /\ UNCHANGED <<day, account, edit, paid, unsettled, crashes>>
    BY DEF Interest!Skip, Interest!IncomeFails
  <1> QED
    BY <1>1, <1>2, TodoKeeps

LEMMA DatesFailKeeps ==
  ASSUME InterestInv, NEW r \in Runs, Interest!DatesFail(r)
  PROVE  InterestInv'
  <1> DEFINE a == run[r].now
             x == [todo |-> Interest!Without(r, a), now |-> None, on |-> None]
  <1>1. /\ InterestTypeInv /\ a # None /\ run' = [run EXCEPT ![r] = x]
        /\ unsettled' = unsettled \cup {a}
        /\ UNCHANGED <<day, account, edit, paid, crashes>>
    BY DEF Interest!DatesFail, InterestInv
  <1>2. x \in JobRun /\ x.now = None
    BY <1>1, RunTypes DEF JobRun
  <1> HIDE DEF x
  <1>3. RunsInv' /\ run'[r].now = None /\ \A s \in Runs : s # r => run'[s] = run[s]
    BY <1>1, <1>2, RunGoes
  <1>4. InterestTypeInv'
    BY <1>1, <1>3 DEF InterestTypeInv, Interest!Days
  <1>5. day \in Nat /\ None \notin Savings
    BY <1>1, InterestBounds DEF InterestTypeInv
  <1>6. day <= day' /\ unsettled \subseteq unsettled'
    BY <1>1, <1>5
  <1>7. \A b \in Savings \ unsettled' : \A s \in Runs :
          (run'[s].now = b <=> run[s].now = b) /\ (run[s].now = b => run'[s] = run[s])
    BY <1>1, <1>3, <1>5
  <1> QED
    BY <1>1, <1>4, <1>6, <1>7, NoneDisturbed

LEMMA CrashKeeps ==
  ASSUME InterestInv, Interest!Crash
  PROVE  InterestInv'
  <1>1. /\ InterestTypeInv /\ crashes' = crashes + 1
        /\ unsettled' = unsettled \cup ({run[r].now : r \in Runs} \ {None})
        /\ run' = [r \in Runs |-> Interest!Idle] /\ edit' = [e \in Editors |-> None]
        /\ UNCHANGED <<day, account, paid>>
    BY DEF Interest!Crash, InterestInv
  <1>2. Interest!Idle \in JobRun /\ Interest!Idle.now = None
    BY DEF Interest!Idle, JobRun
  <1>3. RunsInv' /\ \A r \in Runs : run'[r].now = None
    BY <1>1, <1>2 DEF RunsInv
  <1>4. InterestTypeInv'
    BY <1>1, <1>3 DEF InterestTypeInv, Interest!Days
  <1>5. day \in Nat /\ None \notin Savings
    BY <1>1, InterestBounds DEF InterestTypeInv
  <1>6. day <= day' /\ unsettled \subseteq unsettled'
    BY <1>1, <1>5
  <1>7. \A b \in Savings \ unsettled' : \A s \in Runs : run'[s].now # b /\ run[s].now # b
    BY <1>1, <1>3, <1>5
  <1>8. \A e \in Editors : edit'[e] = None
    BY <1>1
  <1> QED
    BY <1>1, <1>4, <1>6, <1>7, <1>8, NoneDisturbed

LEMMA InterestTickKeeps ==
  ASSUME InterestInv, Interest!Tick
  PROVE  InterestInv'
  <1>1. /\ InterestTypeInv /\ day < LastDay /\ day' = day + 1
        /\ UNCHANGED <<account, run, edit, paid, unsettled, crashes>>
    BY DEF Interest!Tick, InterestInv
  <1>2. day \in Nat /\ LastDay \in Nat /\ Interest!Days = 0 .. LastDay
    BY <1>1, InterestBounds DEF InterestTypeInv
  <1>3. day' \in Interest!Days /\ day <= day'
    BY <1>1, <1>2
  <1>4. RunsInv'
    <2>1. \A r \in Runs : Interest!Left(r)' = Interest!Left(r)
      BY <1>1 DEF Interest!Left
    <2>2. ASSUME NEW r \in Runs, run[r].now # None
          PROVE  run[r].on <= day'
      <3>1. run[r].on \in Nat /\ run[r].on <= day
        BY <1>1, <1>2, <2>2 DEF InterestTypeInv, RunsInv
      <3> QED
        BY <1>1, <1>2, <3>1
    <2> QED
      BY <1>1, <2>1, <2>2 DEF InterestTypeInv, RunsInv, Interest!Days
  <1>5. InterestTypeInv'
    BY <1>1, <1>3, <1>4 DEF InterestTypeInv, Interest!Days
  <1> QED
    BY <1>1, <1>3, <1>5, NoneDisturbed

LEMMA InterestDeleteKeeps ==
  ASSUME InterestInv, NEW a \in Savings, Interest!SoftDelete(a)
  PROVE  InterestInv'
  <1>1. /\ InterestTypeInv /\ account' = [account EXCEPT ![a].live = FALSE]
        /\ UNCHANGED <<day, run, edit, paid, unsettled, crashes>>
    BY DEF Interest!SoftDelete, InterestInv
  <1>2. account[a] \in InterestRow
    BY <1>1 DEF InterestTypeInv
  <1> DEFINE x == [account[a] EXCEPT !.live = FALSE]
  <1>3. x \in InterestRow /\ x.last = account[a].last /\ x.maturity = account[a].maturity
    BY <1>2 DEF InterestRow, Interest!AccountRow
  <1>4. account' = [account EXCEPT ![a] = x]
    BY <1>1
  <1> HIDE DEF x
  <1>5. account' \in [Savings -> InterestRow]
        /\ \A b \in Savings : account'[b].last = account[b].last
                              /\ account'[b].maturity = account[b].maturity
    BY <1>1, <1>3, <1>4 DEF InterestTypeInv
  <1>6. InterestTypeInv'
    BY <1>1, <1>5 DEF InterestTypeInv, RunsInv, Interest!Left, Interest!Days
  <1>7. day <= day'
    BY <1>1, InterestBounds DEF InterestTypeInv
  <1> QED
    BY <1>1, <1>5, <1>6, <1>7, NoneDisturbed

\* What holds of a settled account, its types included.
LEMMA SettledTypes ==
  ASSUME InterestInv, NEW a \in Savings
  PROVE  /\ account[a] \in InterestRow /\ account[a].last \in Nat \cup {None}
         /\ account[a].maturity \in Nat \cup {None}
         /\ paid[a] \in Seq(Interest!Payment) /\ Len(paid[a]) \in Nat
         /\ day \in Nat /\ day \in Interest!Days
         /\ \A i \in 1 .. Len(paid[a]) : paid[a][i] \in Interest!Payment
         /\ paid[a] # <<>> => Newest(a) \in Interest!Payment
  <1>1. /\ account[a] \in InterestRow /\ paid[a] \in Seq(Interest!Payment)
        /\ day \in Interest!Days
    BY DEF InterestInv, InterestTypeInv
  <1>2. account[a].last \in Nat \cup {None} /\ account[a].maturity \in Nat \cup {None}
    BY <1>1, InterestBounds DEF InterestRow, Interest!AccountRow
  <1>3. Len(paid[a]) \in Nat /\ \A i \in 1 .. Len(paid[a]) : paid[a][i] \in Interest!Payment
    BY <1>1
  <1>4. paid[a] # <<>> => Newest(a) \in Interest!Payment
    BY <1>1 DEF Newest
  <1> QED
    BY <1>1, <1>2, <1>3, <1>4, InterestBounds

\* A run saves the date of the payment it has stored.
LEMMA SaveDatesKeeps ==
  ASSUME InterestInv, NEW r \in Runs, Interest!SaveDates(r)
  PROVE  InterestInv'
  <1>0. PICK a : a = run[r].now
    OBVIOUS
  <1> DEFINE x == [todo |-> Interest!Without(r, a), now |-> None, on |-> None]
             c == Interest!CopyOf(r, a)
             d == run[r].on
  <1>1. /\ InterestTypeInv /\ a # None /\ run' = [run EXCEPT ![r] = x]
        /\ account' = [account EXCEPT ![a] = Interest!Dated(c, d)]
        /\ unsettled' = IF account[a] # c THEN unsettled \cup {a} ELSE unsettled
        /\ UNCHANGED <<day, edit, paid, crashes>>
    BY <1>0 DEF Interest!SaveDates, InterestInv
  <1>2. x \in JobRun /\ x.now = None
    BY <1>1, RunTypes DEF JobRun
  <1> HIDE DEF x
  <1>3. RunsInv' /\ run'[r].now = None /\ \A s \in Runs : s # r => run'[s] = run[s]
    BY <1>1, <1>2, RunGoes
  <1>4. a \in Savings /\ a \in Interest!Left(r) /\ d \in Interest!Days /\ d <= day
    BY <1>0, <1>1, RunTypes
  <1>5. c \in InterestRow
    BY <1>1, <1>4, CopyLeft
  <1>6. /\ Interest!Dated(c, d) \in InterestRow /\ Interest!Dated(c, d).last = d
        /\ Interest!Deposit(c) /\ d >= c.maturity /\ c.renew =>
             Interest!Dated(c, d).maturity > c.maturity
    BY <1>4, <1>5, DatedRow
  <1>7. /\ account' \in [Savings -> InterestRow] /\ account'[a] = Interest!Dated(c, d)
        /\ \A b \in Savings : b # a => account'[b] = account[b]
    BY <1>1, <1>4, <1>6 DEF InterestTypeInv
  <1> HIDE DEF c, d
  <1>8. InterestTypeInv'
    BY <1>1, <1>3, <1>7 DEF InterestTypeInv, Interest!Days
  <1>9. day \in Nat /\ None \notin Savings /\ None \notin Nat /\ day <= day' /\ day' \in Nat /\ d \in Nat
    BY <1>1, <1>4, InterestBounds DEF InterestTypeInv
  <1>10. unsettled \subseteq unsettled'
    BY <1>1
  <1>11. ASSUME NEW b \in Savings \ unsettled', b # a
         PROVE  Chain(b)' /\ Paying(b)' /\ Rested(b)' /\ Dates(b)'
    <2>1. \A s \in Runs : (run'[s].now = b <=> run[s].now = b)
                          /\ (run[s].now = b => run'[s] = run[s])
      BY <1>0, <1>3, <1>9, <1>11
    <2>2. account'[b] = account[b] /\ paid'[b] = paid[b] /\ b \in Savings \ unsettled
      BY <1>1, <1>7, <1>10, <1>11
    <2> QED
      BY <1>1, <1>9, <2>1, <2>2, Undisturbed
  <1>12. ASSUME a \notin unsettled'
         PROVE  Chain(a)' /\ Paying(a)' /\ Rested(a)' /\ Dates(a)'
    <2>1. account[a] = c /\ a \in Savings \ unsettled
      BY <1>1, <1>4, <1>12
    <2>2. Chain(a) /\ Paying(a) /\ Dates(a)
      BY <2>1 DEF InterestInv
    <2>3. /\ \A s \in Runs : run[s].now = a => s = r
          /\ paid[a] # <<>> /\ Newest(a) = Interest!CalculateInterest(c, d)
          /\ NotAfter(c.last, d)
      BY <1>0, <2>2 DEF Paying, c, d
    <2>4. /\ Newest(a) \in Interest!Payment /\ Newest(a) # None /\ paid[a] \in Seq(Interest!Payment)
          /\ c.last \in Nat \cup {None} /\ c.maturity \in Nat \cup {None}
      BY <1>4, <2>1, <2>3, SettledTypes, InterestBounds
    <2>5. LET p == Newest(a)
          IN  /\ p.to = d /\ p.from <= d /\ c.last # d
              /\ p.renew = c.renew /\ p.deposit = Interest!Deposit(c)
              /\ p.deposit => p.from = c.maturity /\ c.maturity # None
      BY <1>4, <1>5, <2>3, <2>4, PaymentOf
    <2>6. \A s \in Runs : run'[s].now # a
      BY <1>1, <1>3, <2>3
    <2>7. Chain(a)' /\ Newest(a)' = Newest(a)
      BY <1>1, <2>2 DEF Chain, Newest
    <2>8. Paying(a)'
      BY <2>6 DEF Paying
    <2>9. account'[a].last = d
      BY <1>6, <1>7
    <2>10. \A e \in Editors : edit[e] # None /\ edit[e].id = a =>
             edit[e].old.last # d /\ NotAfter(edit[e].old.last, d)
      <3> TAKE e \in Editors
      <3> HAVE edit[e] # None /\ edit[e].id = a
      <3>1. edit[e] \in PatchCopy
        BY <1>1 DEF InterestTypeInv
      <3>2. edit[e].old.last \in Nat \cup {None}
        BY <3>1, InterestBounds DEF PatchCopy, InterestRow, Interest!AccountRow
      <3>3. NotAfter(edit[e].old.last, c.last)
        BY <2>1, <2>2 DEF Dates
      <3> QED
        BY <1>9, <2>3, <2>4, <2>5, <3>2, <3>3 DEF NotAfter
    <2>11. Unpaid(a, account[a].maturity)'
      <3> SUFFICES ASSUME Newest(a).deposit, Newest(a).renew
                   PROVE  account'[a].maturity > Newest(a).from
        BY <2>7 DEF Unpaid
      <3>1. Interest!Deposit(c) /\ c.renew /\ Newest(a).from = c.maturity /\ c.maturity <= d
            /\ c.maturity \in Nat
        BY <2>4, <2>5
      <3>2. d >= c.maturity
        BY <1>9, <3>1
      <3> QED
        BY <1>6, <1>7, <3>1, <3>2
    <2>12. Rested(a)'
      BY <1>1, <2>5, <2>7, <2>9, <2>10, <2>11 DEF Rested
    <2>13. Dates(a)'
      BY <1>1, <1>4, <1>9, <2>2, <2>9, <2>10 DEF Dates, NotAfter
    <2> QED
      BY <2>7, <2>8, <2>12, <2>13
  <1> QED
    BY <1>8, <1>11, <1>12 DEF InterestInv

\* A run stores an income.
LEMMA StoreIncomeKeeps ==
  ASSUME InterestInv, NEW r \in Runs, NEW a \in Savings, Interest!StoreIncome(r, a)
  PROVE  InterestInv'
  <1> DEFINE c == Interest!CopyOf(r, a)
             p == Interest!CalculateInterest(c, day)
             n == Len(paid[a])
  <1>1. /\ InterestTypeInv /\ run[r].now = None /\ a \in Interest!Left(r) /\ p # None
        /\ paid' = [paid EXCEPT ![a] = Append(@, p)]
        /\ run' = [run EXCEPT ![r].now = a, ![r].on = day]
        /\ unsettled' = IF Interest!Overtaken(r, a) THEN unsettled \cup {a} ELSE unsettled
        /\ UNCHANGED <<day, account, edit, crashes>>
    BY DEF Interest!StoreIncome, InterestInv
  <1>2. /\ day \in Nat /\ day \in Interest!Days /\ n \in Nat /\ paid[a] \in Seq(Interest!Payment)
        /\ None \notin Savings /\ None \notin Nat
    BY SettledTypes, InterestBounds
  <1>3. PICK x : x = [run[r] EXCEPT !.now = a, !.on = day]
    OBVIOUS
  <1>4. /\ run' = [run EXCEPT ![r] = x] /\ x \in JobRun
        /\ x.now = a /\ x.on = day /\ x.todo = run[r].todo /\ x.on <= day
        /\ a \in {y.id : y \in x.todo}
    <2>1. PICK y \in JobRun : y = run[r]
      BY <1>1 DEF InterestTypeInv, RunsInv
    <2>2. x \in JobRun /\ x.now = a /\ x.on = day /\ x.todo = y.todo
      BY <1>2, <1>3, <2>1 DEF JobRun
    <2>3. run' = [run EXCEPT ![r] = x]
      BY <1>1, <1>3 DEF InterestTypeInv, RunsInv
    <2>4. a \in {z.id : z \in x.todo}
      BY <1>1, <2>1, <2>2 DEF Interest!Left
    <2> QED
      BY <1>2, <2>1, <2>2, <2>3, <2>4
  <1>5. RunsInv' /\ run'[r] = x /\ \A s \in Runs : s # r => run'[s] = run[s]
    BY ZenonT(60), <1>1, <1>2, <1>4, RunGoes
  <1>6. c \in InterestRow
    BY <1>1, CopyLeft
  <1>7. /\ p \in Interest!Payment
        /\ p.to = day /\ p.from <= day /\ c.last # day
        /\ p.renew = c.renew /\ p.deposit = Interest!Deposit(c)
        /\ p.deposit => p.from = c.maturity /\ c.maturity # None
        /\ ~p.deposit /\ c.last # None => p.from = c.last
    BY <1>1, <1>2, <1>6, PaymentOf
  <1>8. c' = c
    BY <1>4, <1>5 DEF Interest!CopyOf
  <1> HIDE DEF c, p
  <1>9. /\ paid' \in [Savings -> Seq(Interest!Payment)] /\ paid'[a] = Append(paid[a], p)
        /\ \A b \in Savings : b # a => paid'[b] = paid[b]
    BY <1>1, <1>7 DEF InterestTypeInv
  <1>10. InterestTypeInv'
    BY <1>1, <1>5, <1>9 DEF InterestTypeInv, Interest!Days
  <1>11. unsettled \subseteq unsettled' /\ day <= day' /\ day' \in Nat
    BY <1>1, <1>2
  <1>12. ASSUME NEW b \in Savings \ unsettled', b # a
         PROVE  Chain(b)' /\ Paying(b)' /\ Rested(b)' /\ Dates(b)'
    <2>1. \A s \in Runs : (run'[s].now = b <=> run[s].now = b)
                          /\ (run[s].now = b => run'[s] = run[s])
      BY <1>1, <1>2, <1>4, <1>5, <1>12
    <2>2. account'[b] = account[b] /\ paid'[b] = paid[b] /\ b \in Savings \ unsettled
      BY <1>1, <1>9, <1>11, <1>12
    <2> QED
      BY <1>1, <1>11, <2>1, <2>2, Undisturbed
  <1>13. ASSUME a \notin unsettled'
         PROVE  Chain(a)' /\ Paying(a)' /\ Rested(a)' /\ Dates(a)'
    <2>1. account[a] = c /\ a \in Savings \ unsettled /\ \A s \in Runs : run[s].now # a
      BY <1>1, <1>13 DEF Interest!Overtaken, c
    <2>2. Chain(a) /\ Rested(a) /\ Dates(a)
      BY <2>1 DEF InterestInv
    <2>3. /\ Len(paid'[a]) = n + 1 /\ paid'[a][n + 1] = p /\ paid'[a] # <<>>
          /\ \A i \in 1 .. n : paid'[a][i] = paid[a][i]
      BY <1>2, <1>7, <1>9
    <2>4. Newest(a)' = p
      BY <2>3 DEF Newest
    <2>5. ASSUME n # 0
          PROVE  /\ ~paid[a][n].deposit /\ ~p.deposit => p.from = paid[a][n].to
                 /\ paid[a][n].deposit /\ p.deposit /\ paid[a][n].renew =>
                      paid[a][n].from < p.from
      <3>1. paid[a] # <<>> /\ Newest(a) = paid[a][n] /\ Newest(a) \in Interest!Payment
        BY <1>2, <2>5, SettledTypes DEF Newest
      <3>2. c.last = Newest(a).to /\ Unpaid(a, c.maturity)
        BY <2>1, <2>2, <3>1 DEF Rested
      <3>3. Newest(a).to \in Nat /\ Newest(a).from \in Nat
        BY <3>1, InterestBounds DEF Interest!Payment
      <3>4. c.last # None
        BY <1>2, <3>2, <3>3
      <3>5. c.maturity \in Nat \cup {None}
        BY <2>1, SettledTypes
      <3>6. ASSUME Newest(a).deposit, p.deposit, Newest(a).renew
            PROVE  Newest(a).from < p.from
        <4>1. p.from = c.maturity /\ c.maturity \in Nat
          BY <1>7, <3>5, <3>6
        <4>2. c.maturity > Newest(a).from
          BY <1>7, <3>2, <3>6 DEF Unpaid
        <4> QED
          BY <3>3, <4>1, <4>2
      <3> QED
        BY <1>7, <3>1, <3>2, <3>4, <3>6
    <2>6. Chain(a)'
      <3> SUFFICES /\ \A i \in 1 .. n :
                        /\ ~paid'[a][i].deposit /\ ~paid'[a][i + 1].deposit =>
                             paid'[a][i + 1].from = paid'[a][i].to
                        /\ paid'[a][i].deposit /\ paid'[a][i + 1].deposit /\ paid'[a][i].renew =>
                             paid'[a][i].from < paid'[a][i + 1].from
                   /\ \A i \in 1 .. n + 1 : paid'[a][i].from <= paid'[a][i].to
        <4>1. \A i \in 1 .. Len(paid'[a]) - 1 : i \in 1 .. n
          BY <1>2, <2>3
        <4>2. \A i \in 1 .. Len(paid'[a]) : i \in 1 .. n + 1
          BY <1>2, <2>3
        <4> QED
          BY <4>1, <4>2 DEF Chain
      <3>1. ASSUME NEW i \in 1 .. n
            PROVE  /\ ~paid'[a][i].deposit /\ ~paid'[a][i + 1].deposit =>
                        paid'[a][i + 1].from = paid'[a][i].to
                   /\ paid'[a][i].deposit /\ paid'[a][i + 1].deposit /\ paid'[a][i].renew =>
                        paid'[a][i].from < paid'[a][i + 1].from
        <4>1. CASE i = n
          <5>1. n # 0 /\ paid'[a][i] = paid[a][n] /\ paid'[a][i + 1] = p
            BY <1>2, <2>3, <4>1
          <5> QED
            BY <2>5, <5>1
        <4>2. CASE i # n
          <5>1. i \in 1 .. n - 1 /\ i + 1 \in 1 .. n
            BY <1>2, <4>2
          <5>2. paid'[a][i] = paid[a][i] /\ paid'[a][i + 1] = paid[a][i + 1]
            BY <2>3, <5>1
          <5> QED
            BY <2>2, <5>1, <5>2 DEF Chain
        <4> QED
          BY <4>1, <4>2
      <3>2. ASSUME NEW i \in 1 .. n + 1
            PROVE  paid'[a][i].from <= paid'[a][i].to
        <4>1. CASE i = n + 1
          BY <1>7, <2>3, <4>1
        <4>2. CASE i # n + 1
          <5>1. i \in 1 .. n
            BY <1>2, <4>2
          <5> QED
            BY <2>2, <2>3, <5>1 DEF Chain
        <4> QED
          BY <4>1, <4>2
      <3> QED
        BY <3>1, <3>2
    <2>7. NotAfter(c.last, day)
      BY <2>1, <2>2 DEF Dates
    <2>8. Paying(a)'
      <3>1. \A s \in Runs : run'[s].now = a => s = r
        BY <1>5, <2>1
      <3>2. Newest(a)' = Interest!CalculateInterest(Interest!CopyOf(r, a)', run'[r].on)
        BY <1>4, <1>5, <1>8, <2>4 DEF c, p
      <3>3. NotAfter(Interest!CopyOf(r, a)'.last, run'[r].on)
        BY <1>4, <1>5, <1>8, <2>7 DEF c
      <3>4. Interest!CalculateInterest(Interest!CopyOf(r, a), run[r].on)' =
              Interest!CalculateInterest(Interest!CopyOf(r, a)', run'[r].on)
        BY DEF Interest!CalculateInterest, Interest!PeriodStart, Interest!Deposit
      <3> QED
        BY <2>3, <3>1, <3>2, <3>3, <3>4 DEF Paying, NotAfter
    <2>9. Rested(a)'
      BY <1>4, <1>5 DEF Rested
    <2>10. Dates(a)'
      BY <1>1, <2>2 DEF Dates, NotAfter
    <2> QED
      BY <2>6, <2>8, <2>9, <2>10
  <1> QED
    BY <1>10, <1>12, <1>13 DEF InterestInv

LEMMA PaymentsStay ==
  ASSUME NEW a \in Savings, Chain(a), Paying(a), UNCHANGED <<run, paid>>
  PROVE  Chain(a)' /\ Paying(a)' /\ Newest(a)' = Newest(a)
  <1>1. Chain(a)' /\ Newest(a)' = Newest(a)
    BY DEF Chain, Newest
  <1>2. \A r \in Runs : Interest!CopyOf(r, a)' = Interest!CopyOf(r, a)
    BY DEF Interest!CopyOf
  <1> QED
    BY <1>1, <1>2 DEF Paying

\* A PATCH loads the row and merges.
LEMMA LoadForPatchKeeps ==
  ASSUME InterestInv, NEW e \in Editors, NEW a \in Savings, Interest!LoadForPatch(e, a)
  PROVE  InterestInv'
  <1>1. /\ InterestTypeInv /\ edit[e] = None
        /\ UNCHANGED <<day, account, run, paid, unsettled, crashes>>
    BY DEF Interest!LoadForPatch, InterestInv
  <1>2. PICK c \in Interest!Changed(account[a]) :
          edit' = [edit EXCEPT ![e] = [id |-> a, old |-> account[a], new |-> c]]
    BY DEF Interest!LoadForPatch
  <1> DEFINE x == [id |-> a, old |-> account[a], new |-> c]
  <1>3. /\ account[a] \in InterestRow /\ account[a].last \in Nat \cup {None}
        /\ account[a].maturity \in Nat \cup {None} /\ day \in Nat /\ day \in Interest!Days
        /\ None \notin Savings /\ None \notin Nat
    BY SettledTypes, InterestBounds
  <1>4. /\ c \in InterestRow /\ c.last = account[a].last
        /\ c.maturity # account[a].maturity => c.maturity \in Nat /\ c.maturity > day
    BY <1>3, ChangedRow
  <1>5. x \in PatchCopy /\ x.id = a /\ x.old = account[a] /\ x.new = c
    BY <1>3, <1>4 DEF PatchCopy
  <1> HIDE DEF x
  <1>6. /\ edit' \in [Editors -> PatchCopy \cup {None}] /\ edit'[e] = x
        /\ \A f \in Editors : f # e => edit'[f] = edit[f]
    BY <1>1, <1>2, <1>5 DEF InterestTypeInv, x
  <1>7. InterestTypeInv'
    BY <1>1, <1>6 DEF InterestTypeInv, RunsInv, Interest!Left, Interest!Days
  <1>8. day' \in Nat /\ day <= day'
    BY <1>1, <1>3
  <1>9. ASSUME NEW b \in Savings \ unsettled', b # a
        PROVE  Chain(b)' /\ Paying(b)' /\ Rested(b)' /\ Dates(b)'
    <2>1. \A f \in Editors : edit'[f] # None /\ edit'[f].id = b => edit'[f] = edit[f]
      BY <1>5, <1>6, <1>9
    <2> QED
      BY <1>1, <1>8, <2>1, Undisturbed
  <1>10. ASSUME a \notin unsettled'
         PROVE  Chain(a)' /\ Paying(a)' /\ Rested(a)' /\ Dates(a)'
    <2>1. Chain(a) /\ Paying(a) /\ Rested(a) /\ Dates(a)
      BY <1>1, <1>10 DEF InterestInv
    <2>2. Chain(a)' /\ Paying(a)' /\ Newest(a)' = Newest(a)
      BY <1>1, <2>1, PaymentsStay
    <2>3. Dates(a)'
      <3>1. NotAfter(account[a].last, account[a].last)
        BY <1>3 DEF NotAfter
      <3> QED
        BY <1>1, <1>4, <1>5, <1>6, <2>1, <3>1 DEF Dates, NotAfter
    <2>4. Rested(a)'
      <3>1. ASSUME \A r \in Runs : run[r].now # a, paid[a] # <<>>
            PROVE  Unpaid(a, c.maturity)
        <4>1. /\ Unpaid(a, account[a].maturity) /\ Newest(a) \in Interest!Payment
          BY <2>1, <3>1, SettledTypes DEF Rested
        <4>2. account[a].last = Newest(a).to
          BY <2>1, <3>1 DEF Rested
        <4>3. Newest(a).from \in Nat /\ Newest(a).from <= day
          <5>1. Len(paid[a]) \in 1 .. Len(paid[a])
            BY <3>1, SettledTypes
          <5>2. Newest(a).from <= Newest(a).to /\ Newest(a).to \in Nat /\ Newest(a).from \in Nat
            BY <2>1, <4>1, <5>1, InterestBounds DEF Chain, Newest, Interest!Payment
          <5>3. Newest(a).to <= day
            BY <1>3, <2>1, <4>2, <5>2 DEF Dates, NotAfter
          <5> QED
            BY <1>3, <5>2, <5>3
        <4>4. CASE c.maturity = account[a].maturity
          BY <4>1, <4>4
        <4>5. CASE c.maturity # account[a].maturity
          <5>1. c.maturity \in Nat /\ c.maturity > day
            BY <1>4, <4>5
          <5>2. c.maturity > Newest(a).from
            BY <1>3, <4>3, <5>1
          <5> QED
            BY <5>2 DEF Unpaid
        <4> QED
          BY <4>4, <4>5
      <3> QED
        BY <1>1, <1>5, <1>6, <2>1, <2>2, <3>1 DEF Rested, Unpaid
    <2> QED
      BY <2>2, <2>3, <2>4
  <1> QED
    BY <1>1, <1>7, <1>9, <1>10 DEF InterestInv

\* A PATCH saves the row it has merged.
LEMMA SavePatchKeeps ==
  ASSUME InterestInv, NEW e \in Editors, Interest!SavePatch(e)
  PROVE  InterestInv'
  <1>1. /\ InterestTypeInv /\ edit[e] # None /\ edit' = [edit EXCEPT ![e] = None]
        /\ account' = [account EXCEPT ![edit[e].id] = edit[e].new]
        /\ unsettled' = IF account[edit[e].id] # edit[e].old THEN unsettled \cup {edit[e].id}
                        ELSE unsettled
        /\ UNCHANGED <<day, run, paid, crashes>>
    BY DEF Interest!SavePatch, InterestInv
  <1>2. edit[e] \in PatchCopy
    BY <1>1 DEF InterestTypeInv
  <1>3. PICK a \in Savings : a = edit[e].id
    BY <1>2 DEF PatchCopy
  <1> DEFINE new == edit[e].new
  <1>4. new \in InterestRow
    BY <1>2 DEF PatchCopy
  <1>5. /\ account' \in [Savings -> InterestRow] /\ account'[a] = new
        /\ \A b \in Savings : b # a => account'[b] = account[b]
    BY <1>1, <1>3, <1>4 DEF InterestTypeInv
  <1>6. /\ edit' \in [Editors -> PatchCopy \cup {None}]
        /\ \A f \in Editors : edit'[f] # None => edit'[f] = edit[f]
    BY <1>1 DEF InterestTypeInv
  <1>7. InterestTypeInv'
    BY <1>1, <1>5, <1>6 DEF InterestTypeInv, RunsInv, Interest!Left, Interest!Days
  <1>8. day \in Nat /\ day' \in Nat /\ day <= day' /\ unsettled \subseteq unsettled'
    BY <1>1, SettledTypes
  <1>9. ASSUME NEW b \in Savings \ unsettled', b # a
        PROVE  Chain(b)' /\ Paying(b)' /\ Rested(b)' /\ Dates(b)'
    <2>1. account'[b] = account[b] /\ b \in Savings \ unsettled
      BY <1>5, <1>8, <1>9
    <2> QED
      BY <1>1, <1>6, <1>8, <2>1, Undisturbed
  <1>10. ASSUME a \notin unsettled'
         PROVE  Chain(a)' /\ Paying(a)' /\ Rested(a)' /\ Dates(a)'
    <2>1. account[a] = edit[e].old /\ a \in Savings \ unsettled
      BY <1>1, <1>3, <1>10
    <2>2. Chain(a) /\ Paying(a) /\ Rested(a) /\ Dates(a)
      BY <2>1 DEF InterestInv
    <2>3. new.last = account[a].last
      BY <1>1, <1>3, <2>1, <2>2 DEF Dates
    <2>4. Chain(a)' /\ Paying(a)' /\ Newest(a)' = Newest(a)
      BY <1>1, <2>2, PaymentsStay
    <2>5. account'[a].last = account[a].last
      BY <1>5, <2>3
    <2>6. Dates(a)'
      BY <1>1, <1>6, <2>2, <2>5 DEF Dates, NotAfter
    <2>7. ASSUME \A r \in Runs : run[r].now # a, paid[a] # <<>>
          PROVE  Unpaid(a, new.maturity)
      BY <1>1, <1>3, <2>1, <2>2, <2>7 DEF Rested
    <2>8. Rested(a)'
      BY <1>1, <1>5, <1>6, <2>2, <2>4, <2>5, <2>7 DEF Rested, Unpaid
    <2> QED
      BY <2>4, <2>6, <2>8
  <1> QED
    BY <1>7, <1>9, <1>10 DEF InterestInv

LEMMA InterestInvariant == Interest!Spec => []InterestInv
  <1>1. Interest!Init => InterestInv
    <2> SUFFICES ASSUME Interest!Init
                 PROVE  InterestInv
      OBVIOUS
    <2>1. /\ day = 0 /\ account \in Opened /\ run = [r \in Runs |-> Interest!Idle]
          /\ edit = [e \in Editors |-> None] /\ paid = [a \in Savings |-> <<>>]
          /\ unsettled = {} /\ crashes = 0
      BY DEF Interest!Init
    <2>2. /\ account \in [Savings -> InterestRow]
          /\ \A a \in Savings : account[a].last = None
      BY <2>1, InterestAssumption DEF InterestRow
    <2>3. Interest!Idle \in JobRun /\ Interest!Idle.now = None
      BY DEF Interest!Idle, JobRun
    <2>4. InterestTypeInv
      BY <2>1, <2>2, <2>3, InterestBounds DEF InterestTypeInv, RunsInv
    <2>5. ASSUME NEW a \in Savings
          PROVE  Chain(a) /\ Paying(a) /\ Rested(a) /\ Dates(a)
      <3>1. /\ paid[a] = <<>> /\ None \notin Savings
            /\ \A r \in Runs : run[r].now # a
            /\ \A e \in Editors : edit[e] = None
        BY <2>1, <2>3, InterestBounds
      <3>2. Chain(a)
        BY <3>1 DEF Chain
      <3> QED
        BY <2>2, <3>1, <3>2 DEF Paying, Rested, Dates, NotAfter
    <2> QED
      BY <2>4, <2>5 DEF InterestInv
  <1>2. InterestInv /\ [Interest!Next]_(Interest!ivars) => InterestInv'
    <2> SUFFICES ASSUME InterestInv, [Interest!Next]_(Interest!ivars)
                 PROVE  InterestInv'
      OBVIOUS
    <2>1. CASE UNCHANGED Interest!ivars
      <3>1. /\ UNCHANGED <<day, account, run, edit, paid, unsettled, crashes>>
            /\ InterestTypeInv /\ day \in Nat
        BY <2>1, SettledTypes, InterestBounds DEF Interest!ivars, InterestInv, InterestTypeInv
      <3>2. InterestTypeInv'
        BY <3>1 DEF InterestTypeInv, RunsInv, Interest!Left, Interest!Days
      <3>3. day <= day'
        BY <3>1
      <3> QED
        BY <3>1, <3>2, <3>3, NoneDisturbed
    <2>2. ASSUME NEW r \in Runs, Interest!Proceed(r)
          PROVE  InterestInv'
      BY <2>2, PassedOverKeeps, StoreIncomeKeeps, SaveDatesKeeps DEF Interest!Proceed
    <2> QED
      BY <2>1, <2>2, FindKeeps, DatesFailKeeps, PassedOverKeeps, LoadForPatchKeeps,
         SavePatchKeeps, InterestDeleteKeeps, CrashKeeps, InterestTickKeeps
      DEF Interest!Next
  <1> QED
    BY <1>1, <1>2, PTL DEF Interest!Spec

\* However many runs, edits, failures and restarts overlap: an account whose two writes
\* nothing has separated is paid each of its days and maturities once.
THEOREM InterestPaidOnce == Interest!Spec => []PaidOnce
  <1>1. InterestInv => PaidOnce
    <2> SUFFICES ASSUME InterestInv
                 PROVE  PaidOnce
      OBVIOUS
    <2>1. ASSUME NEW a \in Savings \ unsettled
          PROVE  /\ Chain(a)
                 /\ paid[a] # <<>> /\ (\A r \in Runs : run[r].now # a)
                      => account[a].last = paid[a][Len(paid[a])].to
      BY DEF InterestInv, Rested, Newest
    <2> QED
      BY <2>1 DEF PaidOnce, Interest!PaidOnce, Chain
  <1> QED
    BY <1>1, InterestInvariant, PTL

\* A run pays every account it has loaded and owes, unless that account's own income is
\* refused or the server restarts.
THEOREM InterestForgetsNone == Interest!Spec => NoneForgotten
  <1> DEFINE Kept == crashes' = crashes =>
               \A r \in Runs : \A a \in Interest!Left(r) :
                 (a \in Interest!Left(r))' \/ run[r].now = a \/ (a \in refused)'
                   \/ Interest!CalculateInterest(Interest!CopyOf(r, a), day) = None
  <1>1. InterestInv /\ [Interest!Next]_(Interest!ivars) => [Kept]_(Interest!ivars)
    <2> SUFFICES ASSUME InterestInv, Interest!Next, crashes' = crashes,
                        NEW r \in Runs, NEW a \in Interest!Left(r),
                        run[r].now # a, a \notin refused',
                        Interest!CalculateInterest(Interest!CopyOf(r, a), day) # None
                 PROVE  a \in Interest!Left(r)'
      OBVIOUS
    <2>1. InterestTypeInv /\ RunsInv /\ crashes \in Nat
      BY DEF InterestInv, InterestTypeInv
    <2>2. PICK c \in run[r].todo : c.id = a
      BY DEF Interest!Left
    <2>3. \A b : b # a => c \in Interest!Without(r, b)
      BY <2>2 DEF Interest!Without
    <2>4. run[r] \in JobRun
      BY <2>1 DEF RunsInv
    <2> SUFFICES c \in run'[r].todo
      BY <2>2 DEF Interest!Left
    <2>5. ASSUME NEW s \in Runs, NEW T, run' = [run EXCEPT ![s].todo = T], s = r => c \in T
          PROVE  c \in run'[r].todo
      BY <2>1, <2>2, <2>4, <2>5 DEF RunsInv, JobRun
    <2>6. ASSUME NEW s \in Runs, NEW T, s = r => c \in T,
                 run' = [run EXCEPT ![s] = [todo |-> T, now |-> None, on |-> None]]
          PROVE  c \in run'[r].todo
      BY <2>1, <2>2, <2>6 DEF RunsInv
    <2>7. ASSUME NEW s \in Runs, Interest!Find(s)
          PROVE  c \in run'[r].todo
      <3>1. s # r
        BY <2>2, <2>7 DEF Interest!Find, Interest!Idle
      <3> QED
        BY <2>5, <2>7, <3>1 DEF Interest!Find
    <2>8. ASSUME NEW s \in Runs, NEW b \in Savings,
                 Interest!Skip(s, b) \/ Interest!IncomeFails(s, b)
          PROVE  c \in run'[r].todo
      <3>1. s = r => b # a
        BY <2>8 DEF Interest!Skip, Interest!IncomeFails
      <3>2. s = r => c \in Interest!Without(s, b)
        BY <2>3, <3>1
      <3>3. run' = [run EXCEPT ![s].todo = Interest!Without(s, b)]
        BY <2>8 DEF Interest!Skip, Interest!IncomeFails
      <3> QED
        BY <2>5, <3>2, <3>3
    <2>9. ASSUME NEW s \in Runs, NEW b \in Savings, Interest!StoreIncome(s, b)
          PROVE  c \in run'[r].todo
      <3>1. run' = [run EXCEPT ![s].now = b, ![s].on = day]
        BY <2>9 DEF Interest!StoreIncome
      <3> QED
        BY <2>1, <2>2, <2>4, <3>1 DEF RunsInv, JobRun
    <2>10. ASSUME NEW s \in Runs, Interest!SaveDates(s) \/ Interest!DatesFail(s)
           PROVE  c \in run'[r].todo
      <3>1. run' = [run EXCEPT ![s] = [todo |-> Interest!Without(s, run[s].now),
                                       now |-> None, on |-> None]]
        BY <2>10 DEF Interest!SaveDates, Interest!DatesFail
      <3>2. s = r => c \in Interest!Without(s, run[s].now)
        BY <2>3
      <3> QED
        BY <2>6, <3>1, <3>2
    <2>11. ~Interest!Crash
      BY <2>1 DEF Interest!Crash
    <2>12. ASSUME run' = run
           PROVE  c \in run'[r].todo
      BY <2>2, <2>12
    <2>13. ASSUME NEW s \in Runs, Interest!Proceed(s)
           PROVE  c \in run'[r].todo
      BY <2>8, <2>9, <2>10, <2>13 DEF Interest!Proceed
    <2>14. ASSUME \/ \E e \in Editors, b \in Savings : Interest!LoadForPatch(e, b)
                  \/ \E e \in Editors : Interest!SavePatch(e)
                  \/ \E b \in Savings : Interest!SoftDelete(b)
                  \/ Interest!Tick
           PROVE  run' = run
      BY <2>14 DEF Interest!LoadForPatch, Interest!SavePatch, Interest!SoftDelete, Interest!Tick
    <2> QED
      BY <2>7, <2>8, <2>10, <2>11, <2>12, <2>13, <2>14 DEF Interest!Next
  <1> QED
    BY <1>1, InterestInvariant, PTL DEF Interest!Spec, NoneForgotten, Interest!NoneForgotten
=============================================================================
