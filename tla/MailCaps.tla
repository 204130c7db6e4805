------------------------------ MODULE MailCaps ------------------------------
(***************************************************************************)
(* What keeps an application of `toiljs dev' from sending too much mail    *)
(* (src/src/devserver/email/caps.ts and NodeEmailService.prepare of        *)
(* email/index.ts): an equal mail that follows soon is collapsed into the  *)
(* first, there is a budget per minute and per day, and a cap per          *)
(* recipient.  Only what is counted is modelled; a mail that passes is     *)
(* handed to its provider.                                                 *)
(***************************************************************************)
EXTENDS Naturals, Sequences, FiniteSets

CONSTANTS
  Recipients, Purposes,  (* of mails with a valid recipient               *)
  Dedup, Hour, Minute, Day,       (* lengths of the windows               *)
  PerMinute, PerDay, PerHour,     (* maxPerMin, maxPerDay: 0 is no limit; *)
                         (* maxPerRecipientPerHour                        *)
  MaxMails, MaxMailClock (* bounds: mails sent, moments explored          *)

ASSUME MailAssumption ==
  /\ {Dedup, Hour, Minute, Day} \subseteq Nat \ {0}
  /\ {PerMinute, PerDay, PerHour, MaxMails, MaxMailClock} \subseteq Nat

VARIABLES
  mailClock,     (* Date.now(), never 0                                   *)
  dedup, recipient,  (* FixedWindow: a bucket per key                     *)
  minute, day,   (* SlidingWindow                                         *)
  mails,         (* history: the mails that were sent                     *)
  wanted         (* mails asked for                                       *)

mailVars == <<mailClock, dedup, recipient, minute, day, mails, wanted>>

NoBucket == [start |-> 0, count |-> 0]

MailInit ==
  /\ mailClock = 1
  /\ dedup = [m \in Recipients \X Purposes |-> NoBucket]
  /\ recipient = [r \in Recipients |-> NoBucket]
  /\ minute = [start |-> 0, cur |-> 0, prev |-> 0] /\ day = minute
  /\ mails = <<>> /\ wanted = 0

(***************************************************************************)
(* FixedWindow.check: the window of a key starts with its first event.     *)
(***************************************************************************)
BucketNow(bucket, length) ==
  IF bucket = NoBucket \/ mailClock - bucket.start >= length
    THEN [start |-> mailClock, count |-> 0] ELSE bucket

BucketAdmits(bucket, length, limit) == BucketNow(bucket, length).count < limit

Counted(bucket, length, limit) ==
  LET b == BucketNow(bucket, length) IN IF b.count < limit THEN [b EXCEPT !.count = @ + 1] ELSE b

(***************************************************************************)
(* SlidingWindow: two windows, the older weighed by what is left of it.    *)
(***************************************************************************)
RolledOver(w, length) ==
  LET delta == mailClock - w.start
  IN CASE w.start = 0 -> [w EXCEPT !.start = mailClock]
       [] w.start # 0 /\ delta >= 2 * length -> [start |-> mailClock, cur |-> 0, prev |-> 0]
       [] w.start # 0 /\ delta >= length /\ delta < 2 * length ->
            [start |-> w.start + length, cur |-> 0, prev |-> w.cur]
       [] OTHER -> w

Estimate(w, length) == w.cur + (w.prev * (length - (mailClock - w.start))) \div length

UnderCap(w, length, cap) == cap = 0 \/ Estimate(RolledOver(w, length), length) < cap

Spent(w, length) == [RolledOver(w, length) EXCEPT !.cur = @ + 1]

(***************************************************************************)
(* prepare: each cap counts a mail as soon as it lets it pass, whatever    *)
(* the next one says.                                                      *)
(***************************************************************************)
Hourly == IF PerHour = 0 THEN 1 ELSE PerHour

WithinBudget == UnderCap(minute, Minute, PerMinute) /\ UnderCap(day, Day, PerDay)

MailStatus(r, p) ==
  CASE ~BucketAdmits(dedup[<<r, p>>], Dedup, 1) -> "Deduped"
    [] BucketAdmits(dedup[<<r, p>>], Dedup, 1) /\ ~WithinBudget -> "Budget"
    [] BucketAdmits(dedup[<<r, p>>], Dedup, 1) /\ WithinBudget ->
         IF BucketAdmits(recipient[r], Hour, Hourly) THEN "Sent" ELSE "RecipientCapped"

SendMail(r, p) ==
  LET status == MailStatus(r, p)
      spends == status \in {"Sent", "RecipientCapped"}
  IN /\ wanted < MaxMails /\ wanted' = wanted + 1
     /\ mails' = IF status = "Sent" THEN Append(mails, [at |-> mailClock, to |-> r, purpose |-> p])
                                    ELSE mails
     /\ dedup' = [dedup EXCEPT ![<<r, p>>] = Counted(@, Dedup, 1)]
     /\ minute' = CASE status = "Deduped" -> minute [] spends -> Spent(minute, Minute)
                    [] OTHER -> RolledOver(minute, Minute)
     /\ day' = CASE status = "Deduped" -> day [] spends -> Spent(day, Day)
                 [] OTHER -> RolledOver(day, Day)
     /\ recipient' = IF spends THEN [recipient EXCEPT ![r] = Counted(@, Hour, Hourly)] ELSE recipient
     /\ mailClock' = mailClock

MailClockTicks ==
  /\ mailClock < MaxMailClock /\ mailClock' = mailClock + 1
  /\ UNCHANGED <<dedup, recipient, minute, day, mails, wanted>>

MailNext == MailClockTicks \/ \E r \in Recipients, p \in Purposes : SendMail(r, p)

MailSpec == MailInit /\ [][MailNext]_mailVars

(***************************************************************************)
(* Properties                                                              *)
(***************************************************************************)
(* Of the mails sent from the first to the last of a stretch, `cap' are    *)
(* let in by a full window, and on top of it what the next one lets in as  *)
(* the full one goes out of reach.                                         *)
Sliding(cap, span, length) ==
  cap + (IF span = 0 THEN 0 ELSE (cap * (span - 1) + length - 1) \div length)

(* However mails to several recipients and for several purposes follow one *)
(* another, the budget of a minute or a day is not sent twice around the   *)
(* end of one (caps.ts 30-35, "so a tenant cannot send a full window's     *)
(* quota at the boundary and another right after"), no recipient gets more *)
(* than two hours' worth within an hour, and an equal mail is not sent     *)
(* again within the dedup window.                                          *)
MailsWithinCaps ==
  \A i, j \in 1..Len(mails) : i < j =>
    LET span  == mails[j].at - mails[i].at
        alike == {k \in i..j : mails[k].to = mails[i].to}
    IN /\ PerMinute # 0 /\ span < Minute => j - i + 1 <= Sliding(PerMinute, span, Minute)
       /\ PerDay # 0 /\ span < Day => j - i + 1 <= Sliding(PerDay, span, Day)
       /\ span < Hour => Cardinality(alike) <= 2 * Hourly
       /\ mails[i].to = mails[j].to /\ mails[i].purpose = mails[j].purpose => span >= Dedup
=============================================================================
