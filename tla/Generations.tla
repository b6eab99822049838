----------------------------- MODULE Generations -----------------------------
(***************************************************************************)
(* The run profile (runprofile/): append-only signed records outside the   *)
(* deployment, the recovery generation read from them as the largest valid *)
(* value and advanced to that plus one, and the history of the trust       *)
(* material (runprofile/trust.go) the records are checked against.         *)
(*                                                                         *)
(* CAs are numbered in the order they follow each other; a credential is   *)
(* <<CA, n>> and a CA signs as itself.  A signature holds or does not:     *)
(* cryptography and encodings are left out, and certificates are valid     *)
(* when they sign.  The object store and the issuer of the trust material  *)
(* are external: the issuer puts the next CA into the configured roots,    *)
(* writes its rotation, and only then takes the previous CA out.           *)
(***************************************************************************)
EXTENDS Integers, FiniteSets, FiniteSetsExt

CONSTANTS
    Scenarios,
    Advancers,   \* processes that may advance the generation
    Skew         \* DefaultSkew

VARIABLES
    scenario,   \* [advancers, credentials: of each CA, cas: how many follow each other, until,
                \*  elsewhere: the values the evidence store and the databases may show, may: what, how often]
    instant,    \* the store's clock
    profile,    \* the records the store holds, by kind
    roots,      \* the configured roots
    advance,    \* the advances under way
    happen      \* what may still happen

gvars == <<scenario, instant, profile, roots, advance, happen>>

Happens(what) == happen[what] > 0 /\ happen' = [happen EXCEPT ![what] = @ - 1]

\* Append: a record of a kind, received now.  What it is of: a value, a rotation, or what is revoked.
Written(kind, by, of) == [profile EXCEPT ![kind] = @ \cup {[by |-> by, of |-> of, at |-> instant]}]

CAOf(signer) == signer[1]
CA(n) == <<n, 0>>   \* the CA itself as a signer

-----------------------------------------------------------------------------
(* The trust history (trust.go).                                           *)

\* Walking back from the roots along every rotation that is signed and accepted.
TrustedCAs(configured, rotations) ==
    LET walk[n \in 0 .. Cardinality(rotations)] ==
            IF n = 0 THEN configured
            ELSE walk[n - 1] \cup {r.of.previous : r \in {x \in rotations : x.of.holds /\ x.of.next \in walk[n - 1]}}
    IN  walk[Cardinality(rotations)]

\* The trusted CAs, and the revocations whose signer chains to one.
BuildTrust(configured, rotations, revokes) ==
    LET trusted == TrustedCAs(configured, rotations)
    IN  [trusted |-> trusted, revocations |-> {r \in revokes : CAOf(r.by) \in trusted}]

revokedAt(chain, t, revocations) == \E r \in revocations : r.of \in chain /\ t > r.at - Skew

\* The chain of a signer ends at a trusted CA and none of it was revoked when the record was received.
Holds(h, r) == CAOf(r.by) \in h.trusted /\ ~revokedAt({r.by, CA(CAOf(r.by))}, r.at, h.revocations)

-----------------------------------------------------------------------------
(* Advance: the keys of the kind are listed, then the roots are read and   *)
(* the trust kinds listed, one after the other, then the records judged.   *)

NoAdvance == [pc |-> "idle", by |-> CA(1), seen |-> {}, listed |-> {}, known |-> {}, roots |-> {}, rotations |-> {},
              unread |-> FALSE, next |-> 0]

\* The objects of a listing as they are read: one that cannot be read is left out, and the listing goes on.
Reads(set) == {set} \cup {set \ {r} : r \in set}
Unread(missing) == IF missing THEN Happens("unread") ELSE UNCHANGED happen

\* The credentials a process may begin with: of a CA in the roots, and not revoked.
Held == {c \in roots \X scenario.credentials :
            \A r \in profile.revoke : r.of \notin {c, CA(CAOf(c))}}

\* known: the revocations there were, for the properties.
Begin(a) == \E c \in Held, seen \in SUBSET scenario.elsewhere :
    /\ advance[a].pc = "idle" /\ Happens("advance")
    /\ advance' = [advance EXCEPT ![a] = [NoAdvance EXCEPT !.pc = "roots", !.by = c, !.seen = seen,
                       !.listed = profile.generation, !.known = profile.revoke]]
    /\ UNCHANGED <<scenario, instant, profile, roots>>

ReadRoots(a) ==
    /\ advance[a].pc = "roots"
    /\ advance' = [advance EXCEPT ![a].pc = "cas", ![a].roots = roots]
    /\ UNCHANGED <<scenario, instant, profile, roots, happen>>

ListCAs(a) == \E read \in Reads(profile.rotation) :
    /\ advance[a].pc = "cas"
    /\ Unread(read # profile.rotation)
    /\ advance' = [advance EXCEPT ![a].pc = "credentials", ![a].rotations = read, ![a].unread = read # profile.rotation]
    /\ UNCHANGED <<scenario, instant, profile, roots>>

currentOf(records) == Max({0} \cup {r.of : r \in records})

NextGeneration(runProfile, seen) == Max({runProfile} \cup seen) + 1

\* Current over the records that are read and hold, and the value to write.
Judge(a) == \E read \in Reads(advance[a].listed), revokes \in Reads(profile.revoke) :
    LET h == BuildTrust(advance[a].roots, advance[a].rotations, revokes)
        missing == read # advance[a].listed \/ revokes # profile.revoke
    IN  /\ advance[a].pc = "credentials"
        /\ Unread(missing)
        /\ advance' = [advance EXCEPT ![a] = [@ EXCEPT !.pc = "write", !.roots = {}, !.rotations = {}, !.unread = @ \/ missing,
                           !.next = NextGeneration(currentOf({x \in read : Holds(h, x)}), advance[a].seen)]]
        /\ UNCHANGED <<scenario, instant, profile, roots>>

\* The record is written and the value answered, the write fails, or only its answer is lost.
Write(a) ==
    LET written == Written("generation", advance[a].by, advance[a].next) IN
    /\ advance[a].pc = "write"
    /\ \/ profile' = written /\ advance' = [advance EXCEPT ![a].pc = "answered"] /\ UNCHANGED happen
       \/ profile' \in {written, profile} /\ Happens("fail") /\ advance' = [advance EXCEPT ![a] = NoAdvance]
    /\ UNCHANGED <<scenario, instant, roots>>

\* The caller goes on with the value.
Use(a) ==
    /\ advance[a].pc = "answered" /\ advance' = [advance EXCEPT ![a] = NoAdvance]
    /\ UNCHANGED <<scenario, instant, profile, roots, happen>>

-----------------------------------------------------------------------------
(* The issuer, and time.                                                   *)

Newest == Max(roots)

Introduce ==
    /\ Newest < scenario.cas /\ roots' = roots \cup {Newest + 1}
    /\ UNCHANGED <<scenario, instant, profile, advance, happen>>

\* The rotation to the newest CA; one without both signatures is written again.
Rotate == \E holds \in BOOLEAN :
    /\ Newest > 1 /\ \A r \in profile.rotation : r.of.next # Newest \/ ~r.of.holds
    /\ IF holds THEN UNCHANGED happen ELSE Happens("faulty")
    /\ profile' = Written("rotation", CA(Newest - 1), [previous |-> Newest - 1, next |-> Newest, holds |-> holds])
    /\ UNCHANGED <<scenario, instant, roots, advance>>

Retire == \E r \in profile.rotation :
    /\ r.of.holds /\ r.of.previous \in roots /\ roots' = roots \ {r.of.previous}
    /\ UNCHANGED <<scenario, instant, profile, advance, happen>>

\* A credential, or a CA with a next one, is revoked; a process may be about to write with it.
Revoke == \E c \in Held \cup {CA(n) : n \in roots \ {Newest}} :
    /\ Happens("revoke")
    /\ profile' = Written("revoke", CA(Newest), c)
    /\ UNCHANGED <<scenario, instant, roots, advance>>

Tick ==
    /\ instant < scenario.until /\ instant' = instant + 1
    /\ UNCHANGED <<scenario, profile, roots, advance, happen>>

Init ==
    /\ scenario \in Scenarios
    /\ instant = 0 /\ profile = [generation |-> {}, rotation |-> {}, revoke |-> {}] /\ roots = {1}
    /\ advance = [a \in Advancers |-> NoAdvance] /\ happen = scenario.may

Next ==
    \/ \E a \in scenario.advancers : Begin(a) \/ ReadRoots(a) \/ ListCAs(a) \/ Judge(a) \/ Write(a) \/ Use(a)
    \/ Introduce \/ Rotate \/ Retire \/ Revoke \/ Tick

Spec == Init /\ [][Next]_gvars

-----------------------------------------------------------------------------
(* Properties.                                                             *)

\* A record that a revocation of its signer or of the signer's CA reaches.
Reached(r, revokes) == \E rv \in revokes : rv.of \in {r.by, CA(CAOf(r.by))} /\ r.at + Skew > rv.at

\* An advance answers more than every value its caller saw elsewhere and every value that was in the run profile when it
\* began, whatever CAs were rotated in and out since (Advance, TrustedCAs).  A value whose signer was revoked no later
\* than the skew after it was received is not counted, and every object of the listings has to be readable.  Two advances
\* that overlap may answer the same value.
GenerationsGrow == \A a \in Advancers : advance[a].pc = "answered" /\ ~advance[a].unread =>
    /\ \A v \in advance[a].seen : advance[a].next > v
    /\ \A r \in advance[a].listed : advance[a].next > r.of \/ Reached(r, profile.revoke)

\* What a revoked credential wrote moves no generation on, once the revocation is in the run profile: an advance goes
\* one beyond a value that counts (revokedAt).
RevokedCountsNot == \A a \in Advancers : advance[a].pc = "answered" /\ ~advance[a].unread =>
    advance[a].next - 1 \in {0} \cup advance[a].seen
        \cup {r.of : r \in {x \in advance[a].listed : ~Reached(x, advance[a].known)}}
=============================================================================
