-------------------------------- MODULE Limits --------------------------------
(***************************************************************************)
(* What a server counts to turn callers away: the requests of a route with *)
(* @ratelimit (RateLimit) and the mails it sends (MailCaps).               *)
(***************************************************************************)
EXTENDS RateLimit, MailCaps

limitsVars == <<rateVars, mailVars>>

LimitsInit == RateInit /\ MailInit

LimitsNext ==
  \/ RateNext /\ UNCHANGED mailVars
  \/ MailNext /\ UNCHANGED rateVars

LimitsSpec == LimitsInit /\ [][LimitsNext]_limitsVars

(* No limit lets more through than it promises, over any stretch of time:  *)
(* not one of the four strategies of @ratelimit (ratelimit.ts), and not    *)
(* the budgets of the mailer (caps.ts), though each keeps only counts of a *)
(* window or two and not what happened when.                               *)
LimitsHold == WithinRate /\ MailsWithinCaps
=============================================================================
