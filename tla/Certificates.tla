---------------------------- MODULE Certificates ----------------------------
(* The certificate of each name a node answers for: the loop that orders,   *)
(* reinstalls, signs and forgets them, what the listener has loaded of      *)
(* them, and the pass that hands a database its own.  Time is counted in    *)
(* windows of renewal: a certificate with Lasts of them to go is fresh,     *)
(* with one it is about to expire, with none it has expired.  Why an        *)
(* attempt failed, the challenges of an order and the account with the      *)
(* authority are left out: an order either brings a certificate or not.     *)
EXTENDS Naturals

CONSTANTS
    Name,        \* the names this node may be asked to answer for
    Managed,    \* those of them that are a database's
    Choices,     \* what an operator may choose: "acme", "self", "file"
    NoCert,      \* nothing stored, or nothing to read, under a name
    Lasts,       \* how many windows a new certificate lasts
    MaxClock,    \* bound: how far the clock goes
    MaxChanges   \* bound: what operators, files and stops may do

ASSUME CertificatesAssumption ==
    /\ Managed \subseteq Name
    /\ Choices \subseteq {"acme", "self", "file"}
    /\ Lasts \in Nat \ {0, 1}
    /\ MaxClock \in Nat /\ MaxChanges \in Nat

VARIABLES
    wanted,    \* the names asked of this node: wanted_names
    acme,      \* whether the node asks a public authority at all
    choice,    \* certificate_policy.renew_with, "none" for the default
    file,      \* what the certificate on disk is good until, if it can be read
    stored,    \* the certificate stored under a name
    cover,     \* the node's own, which answers for all other names
    served,    \* what the listener has loaded, by name
    shown,     \* the one it has loaded for all others
    loop,      \* where the certificate loop is, and what it has read
    hand,      \* where the pass over the databases is, and what it has read
    volume,    \* the certificate a database's server runs with
    clock, passes, handed, changes

listener == <<served, shown>>
certificates == <<wanted, acme, choice, file, stored, cover, served, shown, loop, hand,
                  volume, clock, passes, handed, changes>>

Until == 0 .. MaxClock + Lasts
Cert == [from : {"acme", "self", "file"}, until : Until]
Cover == [from : {"self"}, until : Until, names : SUBSET Name]
Left(c) == IF c.until > clock THEN c.until - clock ELSE 0
Fresh(c) == c # NoCert /\ Left(c) >= Lasts
Expired(c) == c # NoCert /\ Left(c) = 0
Signed == [from |-> "self", until |-> clock + Lasts]

\* ensure_self_signed, for the node's own: signed again when its names
\* changed or it is due.
CoverOf(names) ==
    IF Fresh(cover) /\ cover.names = names THEN cover
    ELSE [from |-> "self", until |-> clock + Lasts, names |-> names]

\* What the loop does about one name after the other.
AboutOne == {"acme", "order", "file", "install", "floor", "swap"}
Looping == [at : {"rest", "names", "policy", "prune", "pruned"} \cup AboutOne,
            todo : SUBSET Name, name : Name \cup {NoCert},
            with : {"none", "self", "file", "acme"}, found : Cert \cup {NoCert}]
Handing == [at : {"rest", "sign", "hand"}, name : Managed \cup {NoCert},
            found : Cert \cup {NoCert}]

\* Nothing is decided and nothing is held.
Between(at, todo) ==
    [at |-> at, todo |-> todo, name |-> NoCert, with |-> "none", found |-> NoCert]
Unread == Between("rest", {})
Idle == [at |-> "rest", name |-> NoCert, found |-> NoCert]

CertificatesInit ==
    /\ wanted = Name /\ acme = TRUE
    /\ choice = [n \in Name |-> "none"]
    /\ file = [n \in Name |-> Lasts]
    /\ stored = [n \in Name |-> NoCert] /\ served = stored
    /\ cover = [from |-> "self", until |-> Lasts, names |-> {}] /\ shown = cover
    /\ loop = Unread /\ hand = Idle
    /\ volume = [d \in Managed |-> NoCert]
    /\ clock = 0 /\ passes = 0 /\ handed = {} /\ changes = 0

------------------------------------------------------------------------------
(* The loop: one pass goes over the names it read, one after the other.     *)

\* What the listener serves is reloaded whole, from what is stored.
Replaced == served' = stored /\ shown' = cover

\* Passes are counted, as far as anything asks.
PassEnds == loop' = Unread /\ passes' = IF passes < 2 THEN passes + 1 ELSE passes

\* refresh_local: the node's own names every name asked of it.  The listener
\* is told when the names changed.
RefreshLocal ==
    /\ loop.at = "rest"
    /\ cover' = CoverOf(wanted)
    /\ IF cover'.names = cover.names THEN UNCHANGED listener
       ELSE served' = stored /\ shown' = cover'
    /\ loop' = Between("names", {})
    /\ UNCHANGED <<wanted, acme, choice, file, stored, hand, volume, clock, passes,
                   handed, changes>>

\* With the switch off the pass ends here.  Otherwise it reads what to go over.
ReadNames ==
    /\ loop.at = "names"
    /\ IF acme THEN loop' = Between("policy", wanted) /\ UNCHANGED passes
       ELSE PassEnds
    /\ UNCHANGED <<wanted, acme, choice, file, stored, cover, listener, hand, volume,
                   clock, handed, changes>>

Default == IF acme THEN "acme" ELSE "self"
\* The outcome is written down, and the next name read.
NextName == Between("policy", loop.todo)

RenewWith(n) == IF choice[n] = "none" THEN Default ELSE choice[n]

\* What to do about a name is what its policy says, or the default.
ReadPolicy(n) ==
    /\ loop.at = "policy" /\ n \in loop.todo
    /\ loop' = IF RenewWith(n) = "self" THEN [loop EXCEPT !.todo = @ \ {n}]
               ELSE [loop EXCEPT !.todo = @ \ {n}, !.name = n, !.with = RenewWith(n),
                                 !.at = RenewWith(n)]
    /\ UNCHANGED <<wanted, acme, choice, file, stored, cover, listener, hand, volume,
                   clock, passes, handed, changes>>

\* ensure: a certificate of the authority's that is not due is left alone.
Ensure ==
    /\ loop.at = "acme"
    /\ loop' = IF ~acme \/ (Fresh(stored[loop.name]) /\ stored[loop.name].from = "acme")
               THEN NextName ELSE [loop EXCEPT !.at = "order"]
    /\ UNCHANGED <<wanted, acme, choice, file, stored, cover, listener, hand, volume,
                   clock, passes, handed, changes>>

\* obtain: the order ends with a certificate that is stored, or with none.
Obtain(signed) ==
    /\ loop.at = "order"
    /\ stored' = IF signed
              THEN [stored EXCEPT ![loop.name] = [from |-> "acme", until |-> clock + Lasts]]
              ELSE stored
    /\ loop' = IF signed THEN [loop EXCEPT !.at = "swap"] ELSE NextName
    /\ UNCHANGED <<wanted, acme, choice, file, cover, listener, hand, volume,
                   clock, passes, handed, changes>>

\* Faulty: a file is read until something is stored.
ReadFileOnce ==
    /\ loop.at = "file"
    /\ loop' = IF file[loop.name] > clock /\ stored[loop.name] = NoCert
               THEN [loop EXCEPT !.at = "install",
                                 !.found = [from |-> "file", until |-> file[loop.name]]]
               ELSE [loop EXCEPT !.at = "floor"]
    /\ UNCHANGED <<wanted, acme, choice, file, stored, cover, listener, hand, volume,
                   clock, passes, handed, changes>>

\* install_from_file: a file that is good and is not what is stored.
ReadFile ==
    LET found == [from |-> "file", until |-> file[loop.name]]
    IN  /\ loop.at = "file"
        /\ loop' = IF file[loop.name] > clock /\ stored[loop.name] # found
                   THEN [loop EXCEPT !.at = "install", !.found = found]
                   ELSE [loop EXCEPT !.at = "floor"]
        /\ UNCHANGED <<wanted, acme, choice, file, stored, cover, listener, hand, volume,
                       clock, passes, handed, changes>>

InstallFile ==
    /\ loop.at = "install"
    /\ stored' = [stored EXCEPT ![loop.name] = loop.found]
    /\ loop' = [loop EXCEPT !.at = "swap", !.found = NoCert]
    /\ UNCHANGED <<wanted, acme, choice, file, cover, listener, hand, volume,
                   clock, passes, handed, changes>>

\* What was stored is put in front of the listener.
Swap ==
    /\ loop.at = "swap"
    /\ Replaced
    /\ loop' = IF loop.with = "file" THEN [loop EXCEPT !.at = "floor"] ELSE NextName
    /\ UNCHANGED <<wanted, acme, choice, file, stored, cover, hand, volume, clock, passes, handed, changes>>

\* Faulty: only once it has expired.
PastTheFloor(c) == Expired(c) /\ c.from # "self"

\* hold_the_floor: what is about to expire, and nothing replaces.
OnTheFloor(c) == c # NoCert /\ Left(c) <= 1 /\ c.from # "self"

HoldTheFloor ==
    /\ loop.at = "floor"
    /\ stored' = IF OnTheFloor(stored[loop.name]) THEN [stored EXCEPT ![loop.name] = Signed] ELSE stored
    /\ loop' = IF stored' = stored THEN NextName
               ELSE [loop EXCEPT !.at = "swap", !.with = "self"]
    /\ UNCHANGED <<wanted, acme, choice, file, cover, listener, hand, volume,
                   clock, passes, handed, changes>>

\* prune: what is stored for no name of this node's, but for what was in a file.
Stale == {n \in Name : stored[n] # NoCert /\ stored[n].from # "file" /\ n \notin wanted \cup Managed}

ReadStale ==
    /\ loop.at = "policy" /\ loop.todo = {}
    /\ IF Stale = {} THEN PassEnds
       ELSE loop' = Between("prune", Stale) /\ UNCHANGED passes
    /\ UNCHANGED <<wanted, acme, choice, file, stored, cover, listener, hand, volume,
                   clock, handed, changes>>

\* Faulty: and the listener is not told.
PruneUnseen ==
    /\ loop.at = "prune"
    /\ stored' = [n \in Name |-> IF n \in loop.todo THEN NoCert ELSE stored[n]]
    /\ PassEnds
    /\ UNCHANGED <<wanted, acme, choice, file, cover, listener, hand, volume,
                   clock, handed, changes>>

Prune ==
    /\ loop.at = "prune"
    /\ stored' = [n \in Name |-> IF n \in loop.todo THEN NoCert ELSE stored[n]]
    /\ loop' = Between("pruned", {})
    /\ UNCHANGED <<wanted, acme, choice, file, cover, listener, hand, volume,
                   clock, passes, handed, changes>>

SwapPruned ==
    /\ loop.at = "pruned"
    /\ Replaced /\ PassEnds
    /\ UNCHANGED <<wanted, acme, choice, file, stored, cover, hand, volume, clock, handed, changes>>

Loop ==
    \/ RefreshLocal \/ ReadNames \/ Ensure \/ ReadFile \/ InstallFile \/ Swap
    \/ HoldTheFloor \/  ReadStale \/ Prune \/ SwapPruned
    \/ \E n \in Name : ReadPolicy(n)
    \/ \E signed \in BOOLEAN : Obtain(signed)

------------------------------------------------------------------------------
(* refresh_certificates: every database gets what is stored for its name,   *)
(* or one of the node's own.                                                *)

Elsewhere(c) == c # NoCert /\ c.from \in {"acme", "file"}

Look(d) ==
    /\ hand.at = "rest"
    /\ hand' = IF Elsewhere(stored[d]) THEN [at |-> "hand", name |-> d, found |-> stored[d]]
               ELSE [at |-> "sign", name |-> d, found |-> NoCert]
    /\ UNCHANGED <<wanted, acme, choice, file, stored, cover, listener, loop, volume,
                   clock, passes, handed, changes>>

\* One it signed before stays while it is fresh; another source's names differ.
SignForDatabase ==
    /\ hand.at = "sign"
    /\ stored' = IF Fresh(stored[hand.name]) /\ stored[hand.name].from = "self" THEN stored
              ELSE [stored EXCEPT ![hand.name] = Signed]
    /\ hand' = [hand EXCEPT !.at = "hand", !.found = stored'[hand.name]]
    /\ UNCHANGED <<wanted, acme, choice, file, cover, listener, loop, volume,
                   clock, passes, handed, changes>>

HandOverCertificate ==
    /\ hand.at = "hand"
    /\ volume' = [volume EXCEPT ![hand.name] = hand.found]
    /\ hand' = Idle /\ handed' = handed \cup {hand.name}
    /\ UNCHANGED <<wanted, acme, choice, file, stored, cover, listener, loop,
                   clock, passes, changes>>

Hand == (\E d \in Managed : Look(d)) \/ SignForDatabase \/ HandOverCertificate

------------------------------------------------------------------------------
(* What operators do, what becomes of files, and time.                      *)

\* Each wakes the loop, or is seen by the passes of half a day.
Changing == changes < MaxChanges /\ changes' = changes + 1 /\ passes' = 0

\* A name comes or goes: a port, a claim of another node, a console's domain.
SetWanted(n) ==
    /\ Changing
    /\ wanted' = IF n \in wanted THEN wanted \ {n} ELSE wanted \cup {n}
    /\ UNCHANGED <<acme, choice, file, stored, cover, listener, loop, hand, volume, clock, handed>>

\* store_source: a file must be good when chosen; the default is not written down.
StoreSource(n, with) ==
    /\ Changing
    /\ with = "file" => file[n] > clock
    /\ with = "acme" => acme
    /\ choice' = [choice EXCEPT ![n] = IF with = Default THEN "none" ELSE with]
    /\ UNCHANGED <<wanted, acme, file, stored, cover, listener, loop, hand, volume, clock, handed>>

SetAcme ==
    /\ Changing
    /\ acme' = ~acme
    /\ UNCHANGED <<wanted, choice, file, stored, cover, listener, loop, hand, volume, clock, handed>>

\* Whatever keeps the files fresh writes a new one, or spoils it.
WriteFile(n, good) ==
    /\ Changing
    /\ file' = [file EXCEPT ![n] = IF good THEN clock + Lasts ELSE 0]
    /\ UNCHANGED <<wanted, acme, choice, stored, cover, listener, loop, hand, volume, clock, handed>>

\* A process that starts signs for its own name first, and loads what is stored.
Restart ==
    /\ Changing
    /\ cover' = CoverOf({}) /\ shown' = cover' /\ served' = stored
    /\ loop' = Unread /\ hand' = Idle
    /\ UNCHANGED <<wanted, acme, choice, file, stored, volume, clock, handed>>

\* A window is days: the loop makes at least two whole passes in it, every
\* database is gone over, and no pass is as long.
Tick ==
    /\ clock < MaxClock /\ loop.at = "rest" /\ hand.at = "rest"
    /\ handed = Managed /\ (acme => passes = 2)
    /\ clock' = clock + 1 /\ passes' = 0 /\ handed' = {}
    /\ UNCHANGED <<wanted, acme, choice, file, stored, cover, listener, loop, hand, volume, changes>>

CertificatesNext ==
    \/ Loop \/ Hand \/ SetAcme \/ Restart \/ Tick
    \/ \E n \in Name :
          \/ SetWanted(n)
          \/ \E with \in Choices : StoreSource(n, with)
          \/ \E good \in BOOLEAN : WriteFile(n, good)

CertificatesSpec == CertificatesInit /\ [][CertificatesNext]_certificates

------------------------------------------------------------------------------
(* What the certificates promise.                                           *)

CertificatesTypeOK ==
    /\ wanted \subseteq Name /\ acme \in BOOLEAN
    /\ choice \in [Name -> {"none", "self", "file", "acme"}] /\ file \in [Name -> Until]
    /\ stored \in [Name -> Cert \cup {NoCert}] /\ served \in [Name -> Cert \cup {NoCert}]
    /\ cover \in Cover /\ shown \in Cover
    /\ loop \in Looping /\ hand \in Handing
    /\ loop.at \in AboutOne => loop.name \in Name
    /\ hand.at # "rest" => hand.name \in Managed
    /\ volume \in [Managed -> Cert \cup {NoCert}] /\ handed \subseteq Managed
    /\ clock \in 0 .. MaxClock /\ passes \in 0 .. 2 /\ changes \in 0 .. MaxChanges

(* Between passes the listener serves exactly what a restart would load:    *)
(* whatever was installed, signed or forgotten went to the listener too.    *)
ServedIsStored ==
    loop.at = "rest" => \A n \in Name \ Managed : served[n] = stored[n]

(* Time alone does not take a name off the air.  One whose certificate is   *)
(* read from a file does not expire with it when whatever kept the file     *)
(* fresh has stopped, and a database does not with one of the node's own,   *)
(* though nobody but the pass over the databases ever looks at it.          *)
HeldInTime ==
    [][clock' # clock =>
          /\ \A n \in wanted \ Managed :
                /\ acme /\ choice[n] = "file"
                /\ served[n] # NoCert /\ served[n].from = "file" /\ ~Expired(served[n])
                => ~Expired(served[n])'
          /\ \A d \in Managed :
                volume[d] # NoCert /\ volume[d].from = "self" /\ ~Expired(volume[d])
                => ~Expired(volume[d])']_certificates

\* What the listener answers with for a name.
AnswersWith(n) == IF served[n] # NoCert THEN served[n] ELSE shown

(* "Whatever happened above, a name must not end up serving a certificate   *)
(* that has expired": least of all one the node signed itself, as it can    *)
(* sign another whenever it likes.                                          *)
NoneLapses ==
    [][\A n \in wanted \ Managed :
          /\ clock' # clock /\ acme
          /\ AnswersWith(n).from = "self" /\ ~Expired(AnswersWith(n))
          => ~Expired(AnswersWith(n))']_certificates

(* Two whole passes after anything changed, whatever name is asked of this  *)
(* node is answered for by some certificate that has it, with a public      *)
(* authority or without, and by the file an operator chose as long as it is *)
(* good, whatever an order, a signature or a stop did meanwhile.            *)
AnsweredAsChosen ==
    passes = 2 /\ loop.at = "rest" =>
        \A n \in wanted \ Managed :
            /\ served[n] # NoCert \/ n \in shown.names
            /\ acme /\ choice[n] = "file" /\ file[n] > clock + 1 =>
                   served[n] = [from |-> "file", until |-> file[n]]

==============================================================================
