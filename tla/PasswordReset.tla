--------------------------- MODULE PasswordReset ---------------------------
(***************************************************************************)
(* Recovery of a password by a code sent by mail.  forgotPassword spends   *)
(* the codes of the user and stores a new one; verifyOtp compares with the *)
(* newest code that is neither spent nor expired, spends it or counts a    *)
(* wrong attempt, and signs a token; resetPassword changes the password    *)
(* with a token and spends what codes are left.  Each is a sequence of     *)
(* calls, and requests overlap.                                            *)
(*                                                                         *)
(* All codes are of one user and numbered in the order of their creation;  *)
(* a code is known by its number, and what is typed is a number too, 0 for *)
(* what was never sent.                                                    *)
(***************************************************************************)
EXTENDS Integers, Sequences, FiniteSets

CONSTANTS
  Calls,         \* requests that may be in progress at once
  MaxAttempts,   \* OTP_MAX_ATTEMPTS
  MaxCodes, MaxTokens, MaxResets,  \* bounds
  Nothing

VARIABLES
  otp,        \* the rows of password_reset_otp
  call,       \* the requests in progress
  token,      \* token[k]: whether the k-th token is still valid
  granted,    \* history: granted[n], how many tokens code n has yielded
  wrong,      \* history: wrong[n], how many attempts at code n were refused
  cleared,    \* history: the codes up to this number preceded a finished reset
  resets,     \* how many resets have been asked for
  raced       \* history: codes that overlapping requests have written to

ovars == <<otp, call, token, granted, wrong, cleared, resets, raced>>

Code == [spent: BOOLEAN, expired: BOOLEAN, attempts: Nat]
Numbers == 1 .. Len(otp)
Usable(n) == ~otp[n].spent /\ ~otp[n].expired
Spent == [n \in Numbers |-> [otp[n] EXCEPT !.spent = TRUE]]
-----------------------------------------------------------------------------
(* forgotPassword                                                           *)

\* Mutant: earlier codes stay.
SpendNoEarlierCodes(r) ==
  /\ call[r] = Nothing /\ Len(otp) < MaxCodes
  /\ call' = [call EXCEPT ![r] = [step |-> "store", seen |-> Len(otp)]]
  /\ UNCHANGED <<otp, token, granted, wrong, cleared, resets, raced>>

SpendEarlierCodes(r) ==
  /\ call[r] = Nothing /\ Len(otp) < MaxCodes
  /\ otp' = Spent
  /\ call' = [call EXCEPT ![r] = [step |-> "store", seen |-> Len(otp)]]
  /\ UNCHANGED <<token, granted, wrong, cleared, resets, raced>>

StoreCode(r) ==
  /\ call[r] # Nothing /\ call[r].step = "store"
  /\ Len(otp) < MaxCodes
  /\ otp' = Append(otp, [spent |-> FALSE, expired |-> FALSE, attempts |-> 0])
  /\ granted' = Append(granted, 0) /\ wrong' = Append(wrong, 0)
  /\ raced' = raced \cup call[r].seen + 1 .. Len(otp)
  /\ call' = [call EXCEPT ![r] = Nothing]
  /\ UNCHANGED <<token, cleared, resets>>
-----------------------------------------------------------------------------
(* verifyOtp                                                                *)

\* The newest code that can be used.
FindCode(r, typed) ==
  /\ call[r] = Nothing
  /\ \E n \in Numbers : Usable(n)
  /\ LET n == CHOOSE n \in Numbers : Usable(n) /\ \A k \in Numbers : Usable(k) => k <= n
     IN  call' = [call EXCEPT ![r] = [step |-> IF typed = n THEN "spend" ELSE "count",
                                      number |-> n, copy |-> otp[n]]]
  /\ UNCHANGED <<otp, token, granted, wrong, cleared, resets, raced>>

\* save() writes the columns in which the copy that was found differs from the
\* row of now; what expires stays expired.
Save(r, changed) ==
  LET n == call[r].number
  IN  /\ otp' = [otp EXCEPT ![n] = [changed EXCEPT !.expired = otp[n].expired]]
      /\ raced' = IF otp[n].spent # call[r].copy.spent \/ otp[n].attempts # call[r].copy.attempts
                  THEN raced \cup {n} ELSE raced
      /\ call' = [call EXCEPT ![r] = Nothing]

SpendCode(r) ==
  /\ call[r] # Nothing /\ call[r].step = "spend"
  /\ Len(token) < MaxTokens
  /\ Save(r, [call[r].copy EXCEPT !.spent = TRUE])
  /\ token' = Append(token, TRUE)
  /\ granted' = [granted EXCEPT ![call[r].number] = @ + 1]
  /\ UNCHANGED <<wrong, cleared, resets>>

\* Mutant: one attempt more than the limit.
CountAttemptLate(r) ==
  /\ call[r] # Nothing /\ call[r].step = "count"
  /\ LET copy == [call[r].copy EXCEPT !.attempts = @ + 1]
     IN  Save(r, [copy EXCEPT !.spent = copy.attempts > MaxAttempts])
  /\ wrong' = [wrong EXCEPT ![call[r].number] = @ + 1]
  /\ UNCHANGED <<token, granted, cleared, resets>>

CountAttempt(r) ==
  /\ call[r] # Nothing /\ call[r].step = "count"
  /\ LET copy == [call[r].copy EXCEPT !.attempts = @ + 1]
     IN  Save(r, [copy EXCEPT !.spent = copy.attempts >= MaxAttempts])
  /\ wrong' = [wrong EXCEPT ![call[r].number] = @ + 1]
  /\ UNCHANGED <<token, granted, cleared, resets>>
-----------------------------------------------------------------------------
(* resetPassword: a token is checked by its signature and its date alone.   *)

ChangePassword(r, k) ==
  /\ call[r] = Nothing /\ resets < MaxResets
  /\ token[k]
  /\ resets' = resets + 1
  /\ call' = [call EXCEPT ![r] = [step |-> "clear", seen |-> Len(otp)]]
  /\ UNCHANGED <<otp, token, granted, wrong, cleared, raced>>

SpendPending(r) ==
  /\ call[r] # Nothing /\ call[r].step = "clear"
  /\ otp' = Spent
  /\ cleared' = Len(otp)
  /\ call' = [call EXCEPT ![r] = Nothing]
  /\ UNCHANGED <<token, granted, wrong, resets, raced>>
-----------------------------------------------------------------------------
\* A request ends early: a call fails or the server restarts.
Abandon(r) ==
  /\ call[r] # Nothing
  /\ call' = [call EXCEPT ![r] = Nothing]
  /\ UNCHANGED <<otp, token, granted, wrong, cleared, resets, raced>>

\* Codes and tokens last equally long each, so the older ones expire first.
ExpireCode(n) ==
  /\ ~otp[n].expired /\ \A k \in 1 .. n - 1 : otp[k].expired
  /\ otp' = [otp EXCEPT ![n].expired = TRUE]
  /\ UNCHANGED <<call, token, granted, wrong, cleared, resets, raced>>

ExpireToken(k) ==
  /\ token[k] /\ \A j \in 1 .. k - 1 : ~token[j]
  /\ token' = [token EXCEPT ![k] = FALSE]
  /\ UNCHANGED <<otp, call, granted, wrong, cleared, resets, raced>>

Init ==
  /\ otp = <<>> /\ token = <<>> /\ granted = <<>> /\ wrong = <<>>
  /\ call = [r \in Calls |-> Nothing]
  /\ cleared = 0 /\ resets = 0 /\ raced = {}

Next ==
  \/ \E r \in Calls : \/ SpendEarlierCodes(r) \/ StoreCode(r)
                      \/ SpendCode(r) \/ CountAttempt(r) \/ SpendPending(r) \/ Abandon(r)
  \/ \E r \in Calls, typed \in 0 .. MaxCodes : FindCode(r, typed)
  \/ \E r \in Calls, k \in DOMAIN token : ChangePassword(r, k)
  \/ \E n \in Numbers : ExpireCode(n)
  \/ \E k \in DOMAIN token : ExpireToken(k)

Spec == Init /\ [][Next]_ovars
-----------------------------------------------------------------------------
(* Properties.                                                              *)

\* A code yields one token, and none after MaxAttempts wrong attempts, however
\* requests for codes, attempts and resets follow one another.  Codes that two
\* requests have written to from copies of the same row are left aside.
CodesLimited ==
  \A n \in Numbers \ raced :
    /\ granted[n] <= 1
    /\ wrong[n] <= MaxAttempts
    /\ granted[n] = 1 \/ wrong[n] = MaxAttempts => otp[n].spent

\* A newer code supersedes the older ones, and a reset spends all that were sent
\* before it ended: of the codes no race has touched only the newest is usable,
\* and it was sent after the last reset.
OnlyNewestUsable ==
  \A n \in Numbers \ raced : Usable(n) => n > cleared /\ \A k \in Numbers : k <= n
=============================================================================
