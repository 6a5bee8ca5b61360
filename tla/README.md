# A formal model of rangefinder

rangefinder turns a JSON range configuration into a small estate of hosts that
answer on real protocols, records everything clients do as ECS telemetry, and
closes a loop around it: capture a real service, serve its twin, attack it, score
the telemetry, derive detections.  This directory specifies the parts of it that
keep state or compute a fixpoint, model-checks them with TLC on small instances
and proves their main invariants for every instance with TLAPS.

`PROJECT.json` is the index: components, runs, the mutants that show each property
can fail, the source lines behind each definition, findings, hazards, theorems.
Paths below are relative to `src/`; line numbers are of the modelled commit.

## 1. Inventory

| Component | State it keeps | Operations | Correct when |
|---|---|---|---|
| **Host supervisor** `runtime/supervisor.py` | `started`, `_stop`, serve tasks | start all in order, roll back, serve, signal, stop all in order, drain, exit | `host_ready` is true; whatever was started is released; a signal ends the process |
| **Facade base** `facades/base.py` | listener, one task per connection | `start`, `serve_forever`, `stop`, `_wrapped_handle` | one open and one close event per connection, also after an error or a cancellation |
| **Emitter** `telemetry/emitter.py` | sinks, a lock | `emit`, `close` | no event is lost, none interleaves with another |
| **LDAP facade** `facades/ldap.py`, `ntlm.py` | per connection: `session["authenticated"]`, `ntlm_state` | simple, SASL, GSS-SPNEGO and Sicily binds; search; extended | entries are shown only to bound connections of a hardened directory; the log agrees with the session |
| **HTTP facade** `facades/http.py` | per connection: NTLM state | keep-alive loop, body drain, NTLM and Basic gates, TRACE, OPTIONS | no protected body without credentials; requests stay in step with the stream |
| **SMB facade** `facades/smb.py` | files, log handler, connections by thread id | library callbacks and log records turned into events | an event per logon and per access, with the right connection and outcome; restricted shares only for sessions with a name |
| **SSH facade** `facades/ssh.py` | connections by `id(conn)` | auth callbacks, shell | commands carry their connection |
| **Kerberos facade** `facades/kerberos.py` | none: a ticket carries its own | AS-REQ, TGS-REQ over UDP and TCP | pre-authentication and roastability as configured; the log agrees with the wire |
| **DNS facade** `facades/dns.py` | zone | query, AXFR | every query is logged or unreadable; a transfer is whole, permitted and fits its messages |
| **Banner, RDP facades** | per connection: what arrived, challenge | line and byte rules; negotiation, TLS, CredSSP | lines logged as sent; success only for the own challenge |
| **Scorer** `scoring.py` | per source: next step, first time, chain | `_eval_detect`, `_eval_sequence` | met exactly when the log holds a signal or a kill chain |
| **Attack paths** `paths.py`, `coherence.py` | readable locations, looted secrets, how each was opened | LOOT, ACCESS, pivots, verdicts, ACL escalation | the fixpoint, no more and no less; a live verdict is deserved |
| **Estate verification** `verify.py`, `credtest.py` | results per claim | probe each claim; serve and compare a twin | nothing unproven is called live |
| **Merge, append** `orchestrate/merge.py`, `cli.py:464` | hosts by id, addresses, host names | union, pin and reassign addresses, rename, grow the sidecar | the result validates; nothing measured is silently dropped |
| **Nmap import** `importers/nmap.py` | used ids | one pass over the XML | ids are unique |
| **ACL analysis** `acl.py` | none | decode descriptors to edges | edges as measured |
| **Detections** `detect.py` | none | parse and evaluate rules | true and false positives as counted |
| **Capture clients** `capture/` | findings of one capture | sequential probes of a real service | what was not measured is not claimed |
| **Schema, loader, registry, TLS, compose, CLI** | certificates cached by name | validate, build, print, dispatch | declarative |

How they interact:

- `rangefinder run` builds a host's facades from the registry and gives them to the
  supervisor.  All facades of a host share one event loop and one emitter; the SMB
  facade adds the threads of its library, which emit under the emitter's lock.
- A client connection is one task of the loop (`_wrapped_handle` around a facade's
  `handle`); connections of one facade interleave at every `await`.
- The telemetry of all hosts is merged by the text of `@timestamp` and read by the
  scorer and the detection rules; these never talk to a running host.
- `capture` writes a configuration; `merge` and `append` combine several; `coherence`,
  `acl`, `paths` read one; `verify estate` and `paths --verify` compare one with the
  live estate.

The hard behaviours are the interleaving of connections and of start, signal and
stop; failures in the middle of a start; handlers that outlive their listener;
session state that several protocol exchanges share; the order of events in a merged
log against a time window; and fixpoints whose result must not depend on an order.
`PROJECT.json` lists each as a hazard at its line, with the properties that cover it
or the reason none does yet.

## 2. Modules

| Module | Role |
|---|---|
| `DirectoryGate` | abstract: what an LDAP directory may disclose to whom |
| `LdapSession` | the connections of one LDAP facade; implements `DirectoryGate` |
| `HostSupervisor` | supervisor, listeners, connections, emitter, composed |
| `HttpSession` | the keep-alive connections of one HTTP facade and its gates |
| `SmbTelemetry` | the SMB facade around its library: policy hooks, log records, threads |
| `SshSession` | the callbacks and shells of one SSH facade |
| `RdpSession`, `BannerSession` | the exchanges of these facades |
| `KerberosKdc` | a KDC answering one request after another, and the tickets it made |
| `DnsServer` | one query at a time: name, lookup, zone transfer |
| `ObjectiveScorer` | the two scans of the scorer over one log |
| `AttackPaths` | compose_paths and annotate_live over an estate |
| `AclEscalation` | ACLs to edges, and control spreading over them |
| `EstateMerge` | captures appended and merged into a range |
| `DetectionRules` | objectives compiled to rules, rules and scorer over two logs |
| `MC...` | the instances TLC checks; `MCServices` and `MCRangeConfig` compose several components |
| `...Proofs` | invariants, lemmas and theorems of the module they extend; `AttackPathsProofs` also those of `AclEscalation`, `ObjectiveScorerProofs` those of `DetectionRules`, `ServicesProofs` those of the SMB, SSH, RDP, banner, Kerberos and DNS modules |
| `SharedLemmas` | least and greatest numbers, induction and recursion over numbers, and what lists put together of lists hold, for the proofs |

Operators whose comment begins with *Mutation* or *Mutant* are wrong versions of the
definition that follows them; no specification uses them.  Each is a bug this code
could plausibly have, and `PROJECT.json` names the property that finds it.

### LdapSession

A connection slot is `"free"`, `"open"` or `"lost"` (the client went away while an
answer was written).  `authenticated[c]` is `session["authenticated"]` and
`challenge[c]` the challenge in `ntlm_state`; both are local variables of `handle()`,
so `Connect` gives them fresh values.  An action is one request from its reading to its event:

- `SimpleBind`, `SaslBind` are `_handle_bind`.  `SimpleResult` is its decision table,
  `Decide` the reset of the session at line 697.
- `SpnegoNegotiate`, `SicilyNegotiate` are the Type 1 branches, `Type3` the
  Type 3 branches, which are alike.  A response names the challenge it was computed
  over: one of this connection, of another, of an earlier life of the slot, or none.
- `SearchRefused`, `SearchServed` are `_handle_search` with its gate, its `sizeLimit`
  and the number of entries it logs.
- `Respond` ends every handler: `drain()` succeeds, or raises because the client is
  gone, and then no event is emitted.

A decoded request is a member of a small set, matching entries are a number,
NTLM cryptography is "right password, this challenge".  `issued` and
`evidence` are history variables.

### HostSupervisor

An action is what runs between two awaits of the loop.  `pc` is where `run()` is:
`start` (lines 38-49), `rollback` (44-49), `serve` (51-62), `stop` (64-77), `cancel`
(`asyncio.run` cancels what is left), `gone`.  A facade has a *kind*, which decides what
its start and stop do: `stream` (http, ldap, banner, rdp: wrapped connections),
`datagram` (dns, kerberos: a UDP endpoint first), `session` (ssh), `thread` (smb: files
and a log handler).  A start fails with `OSError` (rollback) or, for the kinds whose
library may, with something else (no rollback); what the failing facade itself leaves is its UDP
endpoint, or of an SMB facade its directory, its listener and its log handler, as far as it had
come (`Leftovers`).  `waits` says whether
`Server.wait_closed()` waits for connections: it does on Python 3.12 and later, the
image's version, and did not before; both are checked.

### ObjectiveScorer

A state is what both scans keep after a prefix of the log, so every reachable state is
the score of one complete log and an invariant is a statement about every log.  An event
is what the conditions make of it: source, time, the set of steps it matches, whether a
signal matches.  `Skip`, `Advance`, `Expire` are the branches of the loop body
(lines 144-176), `ReadOn` the rest of the log after `_eval_sequence` has returned.

### AttackPaths

`Loot` and `Access` are the two halves of the `while changed` loop, `Verify` is
`paths --verify`.  A secret is its number in the sorted order of the code, a location the
text behind a door, with what leaks in it; the first location or secret in that order is
taken, as in the code.  A host, with its services, is part of the door.  The user named for an
opened door comes from the iteration of a set, so it is any that fits.
`loc.label in p.origins` (line 227) is left out: a label never equals an origin.

### HttpSession

An action is one turn of the loop in `handle()` (lines 100-176): a request is read and its
body drained, TRACE is answered before any gate, then NTLM (`_ntlm_gate`: `Challenged`,
`Denied`), then `_resolve` with the Basic gate and the canned answers, the credentials'
event, the answer, the request's event, and whether the connection goes on.  The NTLM state is
a local of `handle()`, so it sticks to the connection; Basic is asked of every request.  What
is left of a body when `_drain_body` gives up stays in the stream (`unread`), and the next
request may be read out of it.  `answer` is what the last answer told the client
(nothing, the methods of a route, its content); `issued`, `proved` and `strays` (connections that
have answered a request read out of a body) are history variables.

### SmbTelemetry and SshSession

Both facades sit on a library.  In `SmbTelemetry` a thread of it serves a connection and
writes log records, which the facade's handler turns into events under the *thread id*; the
entry of an id is made by the "Incoming connection" record, dropped when the connection closes,
and a pending logon is flushed by the next record that decides it.  The
hooks refuse dialects (`SmbNegotiate`, `Smb1Negotiate`), and take back a tree connect the
library has granted and logged (`SmbTreeConnect`, `Revoked`).  A tree remembers whose session
it was granted to: the hook takes back the new tree and leaves earlier ones, and a later
logon of the connection takes none.  The handler hears the logger of the whole process, so one SMB
facade per host is assumed, as `facades/smb.py:25` says.

In `SshSession` the key is `id(conn)`: a shell may run, or have its first turn, after its
connection is lost, and the object's id is used again once its shells are over.  A connection may open
several sessions, each with a shell, an `info` and commands of its own; a password comes by the password
method or by keyboard-interactive.  Thread ids and objects are slots that may be taken again
at any time after they are free.

### RdpSession, BannerSession, KerberosKdc, DnsServer

`RdpSession` is a connection from negotiation to the answer of the CredSSP challenge, whose
number says on which connection it was made.  `BannerSession` reads a stream whose pieces
arrive as the network likes; a rule matches a probe only where it sees all of it.
`KerberosKdc` handles one request per action; the tickets it made are all the memory there is, and
a presented ticket may be an own one or a forgery.  `DnsServer` walks over the cells of a
name one iteration at a time, which is what makes a loop visible; a packet that ends in the name,
or before the type and class, is dropped (`DnsTruncated`).  Every message, of a transfer or of an ordinary
answer, has to fit its length prefix or its datagram (`Sent`).

### EstateMerge, AclEscalation, DetectionRules

`EstateMerge` takes a range file through captures: `CaptureNew`, `CaptureAppend` (with
`_reconcile_append`) and `MergeFile`.  Each computes
the whole result of `merge_configs` (`UnionById`, `Assigned`, `Renamed`) and validates it
(`Valid`) before writing.  Addresses are numbers, subnets aligned blocks; `taken` is the
history of what was captured for which host.

`AclEscalation` computes the edges once (`Analyzed`) and takes one edge per step, in the
code's order; a round that has changed something is followed by another.  Of one entry come the
owner's edge (`OwnerEdges`), the edges of each permission (`DirectEdges`), and those of the
replication rights a trustee's permissions give together (`ReplicationEdges`).  What the
edges should be is said apart from them, by the descriptors (`MayControl`, `MayReplicate`).

`DetectionRules` keeps a rule's condition as text (a sequence of tokens) and
evaluates it with the precedence of `_eval_condition`: `Called` is one call of the recursive
descent, at a level of the grammar and a place of the text, and `Evaluated` nests calls as deep
as the text can need (`Depth`: a token takes four levels at most).  An action is one more event in the
attack or the benign log, and the scorer's verdict on the same log is computed beside the rule's.

## 3. Runs

All sizes below are of complete state spaces.

| Run | Instance | Shows |
|---|---|---|
| `LdapTwoConns` | 2 connections, 1 account and a stranger, 2 entries, 2 challenges; hardened; 127,858 states | admission rests on evidence of this very connection; the log agrees with the session; searches are audited; the gate is implemented |
| `LdapRefused` | 1 connection, 1 entry, 1 challenge | *violation*: a refused bind can leave the connection bound |
| `Supervisor` | one facade of each kind, 2 clients, both values of `waits`; 62,367 states | host_ready is true; a run that ends has released; the log is complete; a signal ends the process |
| `SupervisorStuck` | a stream and a datagram facade, 1 client, `waits` | *violation*: an idle client keeps a serving host from ending after a signal |
| `SupervisorBlame` | the same two facades | *violation*: the error names the wrong facade |
| `Services` | the HTTP, SMB, SSH, RDP, banner, Kerberos and DNS facades of a host and the scorer, a behaviour about one of them at a time; 802,886 states up to symmetry | protected content and methods only on credentials; the log agrees with the gates and the answers; events name their own connection though ids are reused; logons are told; trees of restricted shares are granted to named sessions, and logged; success means an answered own challenge; lines are logged as sent; tickets go to holders of tickets, and the KDC's log agrees with its answers; transfers are whole; a reported chain is one, without a window none is missed, met stays met |
| `HttpDesync` | 1 connection, 1 open route, bodies whole or chunked | *violation*: a request is read out of a chunked body and answered |
| `DnsLoops` | a name with a pointer back to its first label | *violation*: the query is never decoded and never logged |
| `ScoreMissed` | the scorer's objectives of `Services`, logs of up to 3 events | *violation*: a chain inside its window is missed |
| `RangeConfig` | some 9,000 estates of 4 texts and up to 3 secrets, up to 3 probes; up to 4 captures of 8 kinds into 3 ranges; 4-entry directories with lists of every kind; 6 objectives over logs of 2 events; 248,245 states | paths: sound, complete, shortest, confirmed by accepted logins, the loop ends; ranges: what is written loads, nothing captured is lost, no address moves without cause; ACLs: exactly what the descriptors give, the rounds end; rules: count what the scorer counts |
| `PathsMasked` | the estates of `RangeConfig` | *violation*: confirmed-live with a refused login |
| `MergeAdopts` | the captures of `RangeConfig` | *violation*: a capture is united with a host by an address that host was merely given |

`Services` and `RangeConfig` hold several components that share no state (the scorer reads the log when
the hosts are done): a variable `focus` says which one a behaviour is about, so that state spaces add up instead of multiplying, and
the parameters of the others stay at one value.  In `Services` the threads of SMB and the connections
of HTTP are symmetric; its properties are invariants and an action property, for which this is sound.

### Bounds, and why they are enough

- `MaxChallenges = 2`: two challenges are needed to answer one connection's with
  another's, and an old one of a slot after it was opened again; more only repeat this.  `MaxEntries = 2`
  has `sizeLimit` absent, below, at and above the matches.  A third connection would
  behave as the second does towards the first.
- Supervisor: one facade of each kind gives every order of "before" and "after"
  a failing one; two clients give a connection that ends before and one that
  outlives the listener.  Every client connects once.
- Scorer: `MaxEvents = 5` is an expired attempt (2 events) and a complete chain of three, or two
  chains of two interleaved with a stranger's event.  Times 0 to 2 with windows 0 and 1
  have events inside, at the edge of, and outside the window.
- HTTP: two connections, on routes with NTLM, Basic, both, neither, and a canned 401, for a challenge of
  the other; two challenges for one that is answered late; requests vary what the gates look at on the routes that have them (`MCHttpSession`).
- `Services`: two thread ids and two connections make a reused id; two logons per connection
  a failed one followed by another; SSH needs three connections on two objects, so that an
  object is used again while another is busy, and two sessions of each; RDP three on two slots; `MaxHalves = 6` is three probes,
  each of which may arrive in one piece or two, alone or with the next.  The zones are one for each case of the splitting: none, one
  message, several, a record over the limit, a record over any message; the names have a
  pointer forward, to itself, backward, and a truncation.  A session with a name, an anonymous one
  and a failed logon on one connection take two logons, in every order.
- The violations are found on instances of their own, as small as they allow.
- `EstateMerge`: blocks of four and eight addresses, where a fifth host does not fit; four captures
  are two collisions and an append to their result.  The code's 256 and offset 10 are
  `SubnetBits` and `FirstHost`.
- `AclEscalation`: a domain head, two users and a group: membership, right and replication
  chains of every order of these.
- `DetectionRules`: two events in two logs, since a rule judges every event alone.
- Estates: three secrets make a path of two logins and a detour; a door opened by two
  users; a secret on two ports; two routes of one service.  `MaxProbes` bounds the logins
  of estates that are verified, since every combination of answers is tried.

Deadlock is checked in `LdapTwoConns`, `LdapRefused` and `HttpDesync`, where a slot can always be used again.
The other systems really stop: a process exits, a log ends, a loop ends, the
connections of a bounded instance are used up.

### Fairness

`HostSupervisor`: `LoopFairness` is weak fairness of the supervisor's coroutine, of the
serve tasks and of cancelled handlers, which a running event loop gives: a ready callback
gets its turn.  Clients are fair only where `ShutdownCompletes` says so (`ClientFairness`,
the premise for `waits`); without that the property fails, which is what
`SupervisorStuck` shows.  The signal is never fair.  `AttackPaths`: weak fairness of the
loop's two halves, one synchronous call.  `AclEscalation`: `RoundsFairness`, likewise.
`DnsServer`: `DnsFairness`, used by `DnsLoops`, since `build_response` is synchronous and the event loop runs a
callback to its end; datagrams are not fair.  The other specifications have no liveness
property and no fairness.

### What the code does not do

1. A refused NTLM response without a challenge, and SPNEGO credentials that hold no NTLM
   message, answer `invalidCredentials` and leave the session bound (`facades/ldap.py:581`,
   `:600`); the comment at `:694` says any failure unbinds.
2. `await facade.stop()` (`runtime/supervisor.py:67`) waits for clients on Python 3.12,
   outside the bounded gather; the comment at `:64` says the shutdown is bounded.
3. The rollback rebinds `facade` (`runtime/supervisor.py:45`), so the error of a failed
   start names a facade that did start.
4. The scorer keeps the first opening step until a later step is too late
   (`scoring.py:157`), so a complete chain inside the window can be missed; `README.md:300`
   and `config/model.py:129` promise it is met.
5. The key of a live verdict has neither the port nor the secret (`paths.py:324`), so an
   accepted login can mask a refused one; the docstring at `paths.py:338` says every pivot
   authenticates.
6. `_reconcile_append` unites a capture with any host that has its address, also one that
   `_assign_ips` gave it (`cli.py:481`); the docstring at `:467` speaks of the measured one.
7. A chunked body is left unread and the connection stays open (`facades/http.py:263`); the comment
   at `:264` says it will be closed, the one at `:236` that keep-alive does not desync.
8. A compression pointer that leads back is followed for ever in the event loop
   (`facades/dns.py:305`), and the query is never logged; the docstring at `:7` says every query is.

Noticed while modelling, without a run of their own:

- Life cycle: a start that raises anything but `OSError` is not rolled back at all.  The facade whose start
  fails is not in `started`, so the rollback leaves what it had bound already (`facades/dns.py:59`,
  `facades/smb.py:191`), where the comment at `runtime/supervisor.py:38` rolls all back; `RunReleases` leaves it out.
  On Python 3.10 and 3.11 handlers outlive the sinks and what they emit is lost in silence
  (`telemetry/emitter.py:94`), where the docstring at `telemetry/emitter.py:3` and `DESIGN.md:28` promise a
  complete log; `LogComplete` is stated for 3.12 and later.
- LDAP: a SASL mechanism other than GSS-SPNEGO is accepted unchecked (`facades/ldap.py:691`), on a hardened
  directory too, a few lines below the comment at `:685` that speaks of failing closed for a credential that
  cannot be validated; `AdmittedOnEvidence` counts it as evidence.
- Paths: `grant_verdicts` is keyed without the user (`paths.py:347`).  Edges of well-known
  groups (Everyone, Authenticated Users) are drawn but nobody is a member of them, and
  GenericAll on the domain head is no DCSync edge, so neither spreads control.
- HTTP: credentials on a route without a gate are logged as a success.  A late body, one over the limit of
  the drain and one whose length is no number are left in the stream as a chunked one is.
- SMB: a failed logon that is followed by another on its connection has no event (`facades/smb.py:567`), where
  the comment at `:563` emits its outcome on success or on close; `SmbLogonsTold` asks for the last failure only.
  A tree connect that the hook takes back from a null session is logged as a success (`facades/smb.py:444`,
  `:584`), which `examples/detections/smb-anon-sensitive-share.yml:4` takes for a mounted share;
  `SmbRestrictedClosed` says only that what is granted is logged.  A tree granted to a named session stays connected
  when the connection then logs on anonymously; the hook covers SMB2, so a host with SMB1 and no registered
  credential serves restricted shares to null sessions over SMB1 (`SmbRestrictedClosed` excludes it).
- SSH: a connection lost before its shell's first turn has its commands logged without a
  source (`SshOwnCommands` says when).
- Kerberos: the AS-REP is logged before it is built, so one in a type the library lacks is logged
  and not sent; an AES128 session key is given 32 bytes, and no service ticket can follow.
- DNS: a query that cannot be read is dropped without an event (`EveryQueryLogged` allows for it).
  A record larger than a message gets one of its own over the limit, and above 65535 bytes it cuts the transfer
  short (`facades/dns.py:351`, `:105`) although it is logged as NOERROR, where the docstrings at `:337` and `:328` split it as
  needed and let no bad record drop the connection, and the comment at `:34` keeps messages under a limit; `DnsTransferWhole`
  exempts both.  An ordinary answer over TCP that exceeds the length prefix ends the connection likewise.  A record that cannot be encoded is left out with NOERROR, where the comment at
  `facades/dns.py:132` speaks of SERVFAIL; an NS record at the apex that cannot be encoded still suppresses
  the made-up one.
- Merge: subnets of two addresses or one are refused as invalid rather than as too small.  The range is
  written before its sidecar (`cli.py:459`).  `_make_id` does not end on a full-length base
  that is taken (`importers/nmap.py:208`).
- Rules: the comment at `detect.py:311` says the model guarantees exactly one matcher, the validator
  (`config/model.py:112`) at least one; with two, rule and scorer differ (`RuleAgreesWithScore`
  is stated for one).

## 4. Proofs

All for every value of the constants, from the `ASSUME`s of the modules, which the runs
evaluate: constants are sets of the stated type, and the null values are outside them; of
estates also that a port knows one password per user and door.

| Theorem | Says | Inductive invariant |
|---|---|---|
| `LdapSessionProofs!TypeCorrect` | `TypeOK` | itself |
| `!Admission` | `AdmittedOnEvidence` | with `ChallengeIsOwn`: the challenge a connection holds was issued on it. Without this a response that validates need not be evidence |
| `!LogTruth` | `LogMatchesSession` | with `TypeOK`; each request changes both sides or neither |
| `!Refinement` | `ImplementsGate` | under `TypeOK` every action maps to `Decide`, `Answer`, `AnswerAndLose` or a stutter of the gate |
| `HostSupervisorProofs!TypeCorrect` | `TypeOK` | `TypeOK`, with `Progress` for the ranges of `pos` and `started` |
| `!ReadyMeansReady` | `ReadyIsTrue` | `Progress` (how far `started` is at each `pc`) and `Announced` (started facades are up and have said so) |
| `!Released` | `RunReleases` | `Held`: what is held belongs to a facade that is started and not yet stopped, is starting, or failed |
| `!NothingLost` | `LogComplete` | `Logged`: while the sinks are closed no connection of the loop is open, since each stop waited for its own |
| `ObjectiveScorerProofs!TypeCorrect` | `ScoreTypeOK` | part of the next |
| `!Sound` | `WinnerIsKillChain` | `Machine(k)`: every machine's chain is a chain of the log inside the window its first event opened; `Reported` says the same of the winner |
| `!Complete` | `UnwindowedChainFound` | `Greedy`: a machine is at least as far as any chain of its source in the log, the exchange argument for earliest matches |
| `AttackPathsProofs!TypeCorrect` | `TypeOK` | with the two below |
| `!Sound` | `ReachSound` | `NothingInvented`: what is readable or looted is in every closed set |
| `!Complete` | `ReachComplete` | `NothingLeft`: after a half-round without a change nothing of the other half is open |
| `!ShortestPaths` | `HopsMinimal` | `BreadthFirst`: there is a level for every readable location (a history the code does not keep) such that every step taken is one level (`Recorded`), no leak or login skips one (`Shortest`), and what is still open starts at the last level found (`Frontier`). The path that is walked and the search over all paths are both shown to count levels |
| `!Confirmed` | `ConfirmedByKeys` | with the same: a path that is walked has an accepted claim behind each of its logins, because a verdict is given to its user and door |
| `!Escalation` | `EscalationExact` | `AclInv`: every label under control but a start was taken over through one that was there before (`ChainHolds`); who was expanded has all groups (`WithGroups`); in a round, every edge already passed is `Settled` unless the round has changed something, so that a round without a change settles all; the domain is told by one who may replicate it (`DomainJustified`) |
| `!EdgesExact` | the list of edges is what the descriptors say, no more and no less | none: for one directory. Membership in lists that are flattened and filtered (`FlattenedElements`), permission by permission, and the first of a trustee's permissions for the rights put together (`FirstTogether`) |
| `HttpSessionProofs!TypeCorrect` | `HttpTypeOK` | part of the next |
| `!Protected` | `ProtectedOnCredentials` | with `Gates`: a connection's challenge was drawn for it, and only those who proved themselves are authenticated; `Deserved` says of every branch of a turn what it may answer and log |
| `!LogTruth` | `HttpLogTruth` | with the same |
| `ServicesProofs!OwnConnection`, `!LogonsTold`, `!RestrictedClosed` | `SmbOwnConnection`, `SmbLogonsTold`, `SmbRestrictedClosed` | `SmbThreadInv`: what a thread's entry, pending logon, session and trees are at every point between two records; `Told` counts the logons made against those told; `Granted` says of a tree of a restricted share whose session it was granted to, and that a success and the connect were told by then |
| `!OwnCommands` | `SshOwnCommands` | `SshObject`: what the table says at every stage of an object, and `ShellRight` what a shell and its `info` say, for each session of it |
| `!TicketForTgt` | `KrbTicketForTgt` | with: the tickets made are of accounts with a key |
| `!KdcLogTruth` | `KrbLogTruth` | with the same |
| `!RdpTruth` | `RdpLogTruth` | `RdpConnection`: a connection negotiates once and before it logs on, so the protocol it chose is the one its logon was made under |
| `!LinesLogged` | `BannerLogged` | `BannerInv`: as many lines are logged as are taken from the stream (`BannerLines`), and the answers are those of the lines that have one, at most the last missing (`BannerAnswered`) |
| `!TransferWhole` | `DnsTransferWhole` | itself. The work is in what a transfer is: its messages cut the bracketed list of records into consecutive slices (`Cut`), so that their places, one after another, are the places of the list (`PlacesAreNumbers`) |
| `LdapSessionProofs!Audit` | `SearchAudited` | with `TypeOK`: a search is logged by the step that ends it, with the number of entries that step shows |
| `ObjectiveScorerProofs!Monotone` | `MetStaysMet` | an action property: a scan that has fired keeps its event, and one that has reported keeps its chain |
| `!RulesAgree` | `RuleAgreesWithScore` | `RuleInv`, types only: the work is in `RuleMatches` |
| `!RuleMatches` | evaluating the compiled condition finds the disjunction of the signals' conjunctions | none: for one objective and one event. The text is laid out signal after signal at known places (`Laid`, `RuleText`); reading from the last name of a signal back, and from the last signal back, every call gives what is laid out from its place on, if it is nested deep enough (`NamesRead`, `SignalRead`, `RuleRead`) |
| `EstateMergeProofs!NothingIsLost` | `NothingLost` | `EstateInv`: the range loads, and every capture that no later one of its service has replaced is served by its host |
| `!LoadsAgain` | `WrittenLoads` | with the same: the addresses given are new and inside the subnet, because a subnet of more than two has room or the merge fails (`AssignedPlaces`), and the names given differ (`RenamedKeeps`) |
| `!AddressesKept` | `AddressKept` | an action property, from the same |

A module's lemma `IInvariant` (`SmbInvariant`, `SshInvariant`, `KrbInvariant`, `RdpInvariant`, `BannerInvariant`,
`EstateInvariant`, `AclInvariant`) is the conjunction of its invariants as a theorem of its specification; the
theorems follow from it.

Recursion.  What a recursive function computes is needed for paths, memberships, merges, transfers
and the reading of conditions.  The function exists because one can be built up to any number
(`SharedLemmas!FiniteRecursion`),
it satisfies its equations, and another that does is the same (`SameRecursion`); what holds of it
at every number follows from induction over the *set* of numbers at which it holds (`EveryNumber`,
`GreatestExists`), which rests on the well-foundedness of the naturals.  So there are lemmas that
unfold a function (`WalkUnfolds`, `WithinUnfolds`, `ListedUnfolds`, `SizesUnfold`, `ChunksUnfold`,
`AllGroupsUnfold`, `EvaluatedUnfolds`, and `FlattenUnfolds` for the library's `FlattenSeq`) and lemmas
that say what it is.  For this, functions of the models are written over `0 .. n`, and not with folds;
mutual recursion is one function whose argument is the call, and whose number is how deep calls may
still be nested.

What is assumed of constants, beyond their types: in `EstateMerge` the files a range starts from load
(`cmd_append` reads them before anything else), and subnets have at least four addresses where the
append chooses them; in `DnsServer` the limit of a message is below what its length prefix can announce;
in `AclEscalation` a range file names finitely many accounts; in `DetectionRules` an objective has
a signal, a signal a condition and a condition a matcher, as `config/model.py` validates and
`compile_objective` asks.

Model-checked only: `ShutdownCompletes`, `Terminates` and `RoundsEnd` (liveness under
fairness, beyond the prover), and the violations.  Every safety invariant and every action property
that a passing run checks is also a theorem.

## 5. What is not modelled, and why

- Formatting of events and reports, wire formats, certificates, argument handling and the
  Compose file hold no property of interest, or are inputs to the models as small sets.
- The libraries (asyncio, impacket, asyncssh, ldap3, pyasn1) appear as the code uses them.
- The capture clients (`capture/`) are straight-line programs over the answers of a server they do not
  control; what they bring home is the input of `EstateMerge` and `AclEscalation`.
- `verify.py`'s in-process twin: a thread and a timeout for one check in one process; the two
  hazards it has are listed without a property.
- Files of the SMB facade, TLS contexts, the registry, the schema's field checks.
- In `EstateMerge`, identities and the Markdown sidecar; in `KerberosKdc` and `RdpSession`,
  cryptography, which is given by whose key something is under.

## 6. Plan

1. `TwinServer`: the in-process facade of `verify.py`, its thread and its timeouts, with the two
   hazards of it that have no property.
2. `RuleAgreesWithScore` for conditions with two matchers, once the code says which of them counts.
3. The decoding of a security descriptor and the tokens of a hand-written rule (`N of`, wildcards),
   which `AclEscalation` and `DetectionRules` take as given.

Runs are kept to one per question; small components share a run where their instances are
independent.
