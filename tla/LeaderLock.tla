------------------------------ MODULE LeaderLock ------------------------------
(***************************************************************************)
(* The Redis key hedging:leader_lock and the three commands the service    *)
(* runs on it (internal/storage/redis.go).  The value of the key is the    *)
(* podID of the holder; a podID names one process (host, pid and start     *)
(* time), so a restarted pod is another member of Pod.  Redis runs each    *)
(* command, and each Lua script, atomically.                               *)
(***************************************************************************)
EXTENDS Integers

CONSTANTS
  Pod,      \* the podIDs
  NoOne,    \* the key does not exist
  LockTTL,  \* opts.LockLeaderTTL, in ticks
  Second    \* ticks in a second

ASSUME LockAssumption ==
  /\ NoOne \notin Pod
  /\ LockTTL \in Nat
  /\ Second \in Nat \ {0}

VARIABLES
  owner,    \* the value of the key, or NoOne
  ttl       \* ticks left before the key expires; 0 on a held key: it never does

lock == <<owner, ttl>>

\* What the caller of a command is told.
Reply == {"granted", "denied", "error"}

Command == {"acquire", "renew", "release"}

LockInit ==
  /\ owner = NoOne
  /\ ttl = 0

-------------------------------------------------------------------------------
\* Seeded fault: a fraction of a second counts as a whole one.
RenewTTLRoundedUp == LockTTL + ((Second - (LockTTL % Second)) % Second)

\* RenewLeadership passes int(ttl.Seconds()): the fraction of a second is lost.
RenewTTL == LockTTL - (LockTTL % Second)

\* Seeded fault: SET without NX.
AcquireOverwrites(p, reply) ==
  /\ owner' = p
  /\ ttl' = LockTTL
  /\ reply = "granted"

(* SET key podID NX with the configured expiry.  A zero duration makes      *)
(* go-redis send no expiry at all.                                          *)
AcquireLeaderLock(p, reply) ==
  \/ /\ owner = NoOne
     /\ owner' = p
     /\ ttl' = LockTTL
     /\ reply = "granted"
  \/ /\ owner # NoOne
     /\ reply = "denied"
     /\ UNCHANGED lock

\* Seeded fault: the script answers OK to a holder without setting the expiry.
RenewKeepsTTL(p, reply) ==
  \/ /\ owner = p
     /\ reply = "granted"
     /\ UNCHANGED lock
  \/ /\ owner # p
     /\ reply = "error"
     /\ UNCHANGED lock

(* The script sets the key again if the caller holds it.  "EX 0" is an      *)
(* error in Redis, and the script's false reaches go-redis as a nil reply,  *)
(* which it returns as an error too.                                        *)
RenewLeadership(p, reply) ==
  \/ /\ owner = p
     /\ RenewTTL > 0
     /\ ttl' = RenewTTL
     /\ reply = "granted"
     /\ UNCHANGED owner
  \/ /\ owner # p \/ RenewTTL = 0
     /\ reply = "error"
     /\ UNCHANGED lock

\* The script deletes the key if the caller holds it.
ReleaseLeaderLock(p) ==
  \/ /\ owner = p
     /\ owner' = NoOne
     /\ ttl' = 0
  \/ /\ owner # p
     /\ UNCHANGED lock

\* Redis runs command cmd of pod p and answers reply.
RunCommand(p, cmd, reply) ==
  \/ /\ cmd = "acquire"
     /\ AcquireLeaderLock(p, reply)
  \/ /\ cmd = "renew"
     /\ RenewLeadership(p, reply)
  \/ /\ cmd = "release"
     /\ ReleaseLeaderLock(p)
     /\ reply = "granted"

\* One tick of the expiry clock of Redis.
ExpiryTick ==
  IF ttl = 1
  THEN owner' = NoOne /\ ttl' = 0
  ELSE /\ ttl' = IF ttl = 0 THEN 0 ELSE ttl - 1
       /\ UNCHANGED owner

===============================================================================
