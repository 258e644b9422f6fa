------------------------------ MODULE Installer ------------------------------
(***************************************************************************)
(* The host command lrp: install, start, stop, upgrade and uninstall       *)
(* (cmd/lrp, internal/installer, internal/hostsetup) against the files of  *)
(* the installation directory, the Compose stack, the Docker volumes, the  *)
(* host's split DNS and its trust store.                                   *)
(*                                                                         *)
(* A command is a sequence of steps.  Every step may fail or be            *)
(* interrupted, the command then stops there and leaves what it has done;  *)
(* the user goes on with any command.  One command runs at a time.         *)
(*                                                                         *)
(*   install    bundle env pull up resolve copyca trust                    *)
(*   upgrade    [download stage swap] reenv pull up                        *)
(*   start      up           stop  halt                                    *)
(*   uninstall  unresolve untrust down [remove]                            *)
(*                                                                         *)
(* A dry run, an invalid zone or port, and a release that cannot be        *)
(* resolved end a command before its first step: stutters.                 *)
(***************************************************************************)
EXTENDS Naturals, FiniteSets

CONSTANTS
    Systems,        \* values of runtime.GOOS
    Zones, Ports,   \* what install is given
    DefaultZone,    \* the zone of a new settings row
    DefaultPort,    \* what compose.yaml takes for an empty port
    Tags,           \* releases
    Tokens,         \* bootstrap tokens, 32 random bytes each
    Authorities,    \* root certificates Caddy may generate
    Attempts,       \* tries of copyCA, 20 in the code
    Faults,         \* the kinds of failure that may happen
    MaxFaults       \* bound: failures in one behaviour

ASSUME SystemsAssumption == Systems \subseteq {"linux", "darwin"}
ASSUME NamesAssumption ==
    /\ DefaultZone \in Zones /\ DefaultPort \in Ports
    /\ "empty" \notin Zones \cup Ports \cup Tags \cup Tokens
    /\ {"dev", "latest", "partial", "none"} \cap Tags = {}
    /\ "none" \notin Authorities /\ "absent" \notin Zones /\ "off" \notin Tags \cup Zones
ASSUME LimitsAssumption == Attempts \in Nat /\ MaxFaults \in Nat

VARIABLES
    os,         \* the system lrp runs on
    cmd,        \* the command under way, or NoCmd
    step,       \* its next step, "idle" when there is none
    tries,      \* attempts of copyCA so far
    bin,        \* the release of the lrp executable
    staged,     \* the file beside it with the suffix .upgrade
    bundle,     \* the release whose assets are in the installation directory
    env,        \* the file .env
    exported,   \* the file lrp-local-ca.crt
    controller, \* the container's environment, or Off
    dns,        \* the zone CoreDNS answers for, or "off"
    caddy,      \* the Caddy container, "on" or "off"
    data,       \* volume controller-data: the zone of the settings row
    ca,         \* volume caddy-data: the root certificate
    resolver,   \* zones the host sends to 127.0.0.1
    trusted,    \* certificates of LRP in the host's trust store
    last,       \* history: the last command, if it succeeded and nothing happened since
    unfinished, \* history: "yes" if .env was written and no up has succeeded since
    faults,     \* history: failures so far
    torn        \* history: "yes" once a write of .env has failed

files   == <<bundle, env, exported>>
cli     == <<os, bin, staged>>
stack   == <<controller, dns, caddy>>
volumes == <<data, ca>>
host    == <<resolver, trusted>>
failures == <<faults, torn>>
vars    == <<os, cmd, step, tries, bin, staged, bundle, env, exported, controller, dns,
             caddy, data, ca, resolver, trusted, last, unfinished, faults, torn>>

NoCmd == [name |-> "none"]
NoEnv == [zone |-> "absent"]
Off   == [image |-> "off"]

Commands ==
    {NoCmd}
    \cup [name: {"install"}, zone: Zones, port: Ports, version: Tags \cup {"latest"}]
    \cup [name: {"upgrade"}, tag: Tags]
    \cup [name: {"start", "stop"}]
    \cup [name: {"uninstall"}, purge: BOOLEAN]

Steps == {"idle", "bundle", "env", "pull", "up", "resolve", "copyca", "trust",
          "download", "stage", "swap", "reenv", "halt", "unresolve", "untrust",
          "down", "remove"}

\* A variable that the file does not set reads as the empty string, "empty" here.
Env == [zone: Zones \cup {"empty"}, port: Ports \cup {"empty"},
        version: Tags \cup {"latest", "empty"}, token: Tokens \cup {"empty"}]

\* What compose.yaml makes of .env: an empty version or port has a default.
ControllerOf(e) ==
    [image |-> IF e.version = "empty" THEN "latest" ELSE e.version,
     port  |-> IF e.port = "empty" THEN DefaultPort ELSE e.port,
     token |-> e.token]

Init ==
    /\ os \in Systems
    /\ cmd = NoCmd /\ step = "idle" /\ tries = 0
    /\ bin \in Tags \cup {"dev"} /\ staged = "none"
    /\ bundle = "none" /\ env = NoEnv /\ exported = "none"
    /\ controller = Off /\ dns = "off" /\ caddy = "off"
    /\ data = "none" /\ ca = "none"
    /\ resolver = {} /\ trusted = {}
    /\ last = NoCmd /\ unfinished = "no" /\ faults = 0 /\ torn = "no"

-----------------------------------------------------------------------------
(* Commands begin, go on, succeed and fail                                 *)

Begin(c, first) ==
    /\ step = "idle"
    /\ cmd' = c /\ step' = first /\ tries' = 0 /\ last' = NoCmd
    /\ UNCHANGED <<cli, files, stack, volumes, host, unfinished, failures>>

Install ==
    \E z \in Zones, p \in Ports, v \in Tags \cup {"latest"} :
        Begin([name |-> "install", zone |-> z, port |-> p, version |-> v], "bundle")

Start == env # NoEnv /\ Begin([name |-> "start"], "up")

Stop == env # NoEnv /\ Begin([name |-> "stop"], "halt")

\* Mutant of Upgrade: an executable that is at the release is taken for an
\* installation that is.
UpgradeSkips ==
    \E t \in Tags :
        /\ bin = t => env # NoEnv
        /\ Begin([name |-> "upgrade", tag |-> t], IF bin = t THEN "up" ELSE "download")

\* An executable that is at the release already is left alone.
Upgrade ==
    \E t \in Tags :
        Begin([name |-> "upgrade", tag |-> t], IF bin = t THEN "reenv" ELSE "download")

Uninstall ==
    \E purge \in BOOLEAN :
        env # NoEnv /\ Begin([name |-> "uninstall", purge |-> purge], "unresolve")

\* The step s of the command is done and the step next follows.
Go(s, next) ==
    /\ step = s
    /\ step' = next
    /\ UNCHANGED <<cmd, tries, last, failures>>

Succeed(s) ==
    /\ step = s
    /\ step' = "idle" /\ cmd' = NoCmd /\ tries' = 0
    /\ last' = cmd
    /\ UNCHANGED failures

\* Every caller returns the error: the command ends.
GiveUp(s) ==
    /\ step = s
    /\ step' = "idle" /\ cmd' = NoCmd /\ tries' = 0
    /\ last' = NoCmd

\* One failure of the given kind happens now.
Spend(kind) ==
    /\ kind \in Faults
    /\ faults < MaxFaults
    /\ faults' = faults + 1
    /\ torn' = IF kind = "write" THEN "yes" ELSE torn

Fail(s) == GiveUp(s) /\ Spend("step")

\* Steps that have no effect when they fail.
FailClean ==
    /\ \E s \in {"pull", "resolve", "trust", "download", "unresolve", "untrust"} : Fail(s)
    /\ UNCHANGED <<cli, files, stack, volumes, host, unfinished>>

-----------------------------------------------------------------------------
(* The installation directory                                              *)

Bundle ==
    /\ Go("bundle", "env")
    /\ bundle' = bin
    /\ UNCHANGED <<cli, env, exported, stack, volumes, host, unfinished>>

\* Some of the three files are of this release, some of an earlier one.
BundleFails ==
    /\ Fail("bundle")
    /\ bundle' \in {bundle, "mixed", bin}
    /\ UNCHANGED <<cli, env, exported, stack, volumes, host, unfinished>>

\* Random tokens do not repeat.
Fresh == {t \in Tokens : (env # NoEnv => t # env.token) /\ (controller # Off => t # controller.token)}

materialize(c, t) ==
    [zone |-> c.zone, port |-> c.port, version |-> c.version, token |-> t]

WriteEnv ==
    /\ Go("env", "pull")
    /\ \E t \in Fresh : env' = materialize(cmd, t)
    /\ unfinished' = "yes"
    /\ UNCHANGED <<cli, bundle, exported, stack, volumes, host>>

\* Mutant of replaceEnv: the other settings are not written back.
replaceEnvOnly(e, version) ==
    [zone |-> "empty", port |-> "empty", version |-> version, token |-> "empty"]

replaceEnv(e, version) ==
    [zone |-> e.zone, port |-> e.port, version |-> version, token |-> e.token]

ReplaceEnv ==
    /\ Go("reenv", "pull")
    /\ env # NoEnv
    /\ env' = replaceEnv(env, cmd.tag)
    /\ unfinished' = "yes"
    /\ UNCHANGED <<cli, bundle, exported, stack, volumes, host>>

ReplaceEnvAbsent ==
    /\ env = NoEnv
    /\ GiveUp("reenv")
    /\ UNCHANGED <<cli, files, stack, volumes, host, unfinished, failures>>

\* os.WriteFile empties the file before it writes: when it fails, or the
\* command is killed, the file holds the first lines, none or all.
Torn(e) ==
    {[zone    |-> IF lines > 0 THEN e.zone ELSE "empty",
      port    |-> IF lines > 1 THEN e.port ELSE "empty",
      version |-> IF lines > 2 THEN e.version ELSE "empty",
      token   |-> IF lines > 3 THEN e.token ELSE "empty"] : lines \in 0..4}

WriteEnvFails ==
    /\ Spend("write")
    /\ \/ GiveUp("env") /\ \E t \in Fresh : env' \in Torn(materialize(cmd, t))
       \/ env # NoEnv /\ GiveUp("reenv") /\ env' \in Torn(replaceEnv(env, cmd.tag))
    /\ unfinished' = "yes"
    /\ UNCHANGED <<cli, bundle, exported, stack, volumes, host>>

-----------------------------------------------------------------------------
(* The Compose stack                                                       *)

Pull ==
    /\ Go("pull", "up")
    /\ UNCHANGED <<cli, files, stack, volumes, host, unfinished>>

\* A new controller finds or creates its database.
Opened == IF data = "none" THEN DefaultZone ELSE data

\* Mutant of UpEffect: containers that run already are not recreated.
UpStartsMissing ==
    /\ controller' = IF controller = Off THEN ControllerOf(env) ELSE controller
    /\ dns' = IF dns = "off" THEN env.zone ELSE dns
    /\ caddy' = "on"
    /\ data' = Opened

\* docker compose up -d: what does not run is started, what runs with
\* another configuration is recreated.
UpEffect ==
    /\ controller' = ControllerOf(env)
    /\ dns' = env.zone
    /\ caddy' = "on"
    /\ data' = Opened

Up ==
    /\ IF cmd.name = "install" THEN Go("up", "resolve") ELSE Succeed("up")
    /\ UpEffect
    /\ unfinished' = "no"
    /\ UNCHANGED <<cli, files, ca, host>>

\* Some containers are recreated, some are not or no longer there.
UpFails ==
    /\ Fail("up")
    /\ controller' \in {controller, Off, ControllerOf(env)}
    /\ dns' \in {dns, "off", env.zone}
    /\ caddy' \in {caddy, "off", "on"}
    /\ data' = IF controller' # Off THEN Opened ELSE data
    /\ UNCHANGED <<cli, files, ca, host, unfinished>>

\* Caddy creates its certificate authority at its first start, in its own time.
MintCA ==
    /\ caddy = "on" /\ ca = "none"
    /\ \E a \in Authorities \ (trusted \cup {exported}) : ca' = a
    /\ UNCHANGED <<cmd, step, tries, cli, files, stack, data, host, last, unfinished, failures>>

Halt ==
    /\ Succeed("halt")
    /\ controller' = Off /\ dns' = "off" /\ caddy' = "off"
    /\ UNCHANGED <<cli, files, volumes, host, unfinished>>

StackLeft == controller' \in {controller, Off} /\ dns' \in {dns, "off"} /\ caddy' \in {caddy, "off"}

HaltFails ==
    /\ Fail("halt")
    /\ StackLeft
    /\ UNCHANGED <<cli, files, volumes, host, unfinished>>

\* docker compose down removes volumes once the containers are gone.
Down ==
    /\ step = "down"
    /\ IF cmd.purge THEN Go("down", "remove") ELSE Succeed("down")
    /\ controller' = Off /\ dns' = "off" /\ caddy' = "off"
    /\ data' = IF cmd.purge THEN "none" ELSE data
    /\ ca' = IF cmd.purge THEN "none" ELSE ca
    /\ UNCHANGED <<cli, files, host, unfinished>>

DownFails ==
    /\ Fail("down")
    /\ StackLeft
    /\ IF cmd.purge /\ controller' = Off /\ caddy' = "off"
       THEN data' \in {data, "none"} /\ ca' \in {ca, "none"}
       ELSE UNCHANGED volumes
    /\ UNCHANGED <<cli, files, host, unfinished>>

Remove ==
    /\ Succeed("remove")
    /\ bundle' = "none" /\ env' = NoEnv /\ exported' = "none"
    /\ unfinished' = "no"
    /\ UNCHANGED <<cli, stack, volumes, host>>

RemoveFails ==
    /\ Fail("remove")
    /\ env' \in {env, NoEnv} /\ exported' \in {exported, "none"}
    /\ UNCHANGED <<cli, bundle, stack, volumes, host, unfinished>>

-----------------------------------------------------------------------------
(* The host's split DNS and trust store                                    *)

\* The rules after the plan.  On macOS one file per zone, on Linux one link
\* whose domain is replaced; the commands before that one change no rule.
PlanInstall(rules, zone) == IF os = "darwin" THEN rules \cup {zone} ELSE {zone}

PlanTrust(store, cert) == IF os = "darwin" THEN store \cup {cert} ELSE {cert}

\* Linux drops the link's rules, macOS the file of the zone of .env.
PlanUninstall(rules, zone) == IF os = "darwin" THEN rules \ {zone} ELSE {}

Resolve ==
    /\ Go("resolve", "copyca")
    /\ resolver' = PlanInstall(resolver, cmd.zone)
    /\ UNCHANGED <<cli, files, stack, volumes, trusted, unfinished>>

copyCA ==
    /\ Go("copyca", "trust")
    /\ caddy = "on" /\ ca # "none"
    /\ exported' = ca
    /\ UNCHANGED <<cli, bundle, env, stack, volumes, host, unfinished>>

\* Mutant of copyCARetry: attempts are not counted.
copyCARetryForever ==
    /\ step = "copyca" /\ tries < Attempts
    /\ UNCHANGED vars

\* The certificate is not there yet or the copy fails: after half a second
\* the next attempt.
copyCARetry ==
    /\ step = "copyca" /\ tries < Attempts
    /\ tries' = tries + 1
    /\ UNCHANGED <<cmd, step, cli, files, stack, volumes, host, last, unfinished, failures>>

\* Mutant of copyCAFails: the installation goes on with the file it has.
copyCAIgnored ==
    /\ tries = Attempts
    /\ Go("copyca", "trust")
    /\ UNCHANGED <<cli, files, stack, volumes, host, unfinished>>

copyCAFails ==
    /\ tries = Attempts
    /\ GiveUp("copyca")
    /\ UNCHANGED <<cli, files, stack, volumes, host, unfinished, failures>>

Trust ==
    /\ Succeed("trust")
    /\ trusted' = PlanTrust(trusted, exported)
    /\ UNCHANGED <<cli, files, stack, volumes, resolver, unfinished>>

\* An empty zone names the directory itself, which rm -f does not remove.
ZoneLost == os = "darwin" /\ env.zone = "empty"

Unresolve ==
    /\ Go("unresolve", "untrust")
    /\ ~ZoneLost
    /\ resolver' = PlanUninstall(resolver, env.zone)
    /\ UNCHANGED <<cli, files, stack, volumes, trusted, unfinished>>

UnresolveLost ==
    /\ ZoneLost
    /\ GiveUp("unresolve")
    /\ UNCHANGED <<cli, files, stack, volumes, host, unfinished, failures>>

\* Mutant of Untrust: the certificate stays.
UntrustNothing ==
    /\ Go("untrust", "down")
    /\ UNCHANGED <<cli, files, stack, volumes, host, unfinished>>

Untrust ==
    /\ Go("untrust", "down")
    /\ os = "darwin" => trusted # {}
    /\ trusted' = {}
    /\ UNCHANGED <<cli, files, stack, volumes, resolver, unfinished>>

\* security delete-certificate finds no certificate of that name.
UntrustAbsent ==
    /\ os = "darwin" /\ trusted = {}
    /\ GiveUp("untrust")
    /\ UNCHANGED <<cli, files, stack, volumes, host, unfinished, failures>>

-----------------------------------------------------------------------------
(* The lrp executable                                                      *)

\* Both downloads and the checksum: a mismatch is a failure.
Download ==
    /\ Go("download", "stage")
    /\ UNCHANGED <<cli, files, stack, volumes, host, unfinished>>

Stage ==
    /\ Go("stage", "swap")
    /\ staged' = cmd.tag
    /\ UNCHANGED <<os, bin, files, stack, volumes, host, unfinished>>

\* Mutant of StageFails: the new release is written over the executable.
StageInPlaceFails ==
    /\ Fail("stage")
    /\ bin' \in {bin, "partial"}
    /\ UNCHANGED <<os, staged, files, stack, volumes, host, unfinished>>

StageFails ==
    /\ Fail("stage")
    /\ staged' \in {staged, "partial"}
    /\ UNCHANGED <<os, bin, files, stack, volumes, host, unfinished>>

Swap ==
    /\ Go("swap", "reenv")
    /\ bin' = staged /\ staged' = "none"
    /\ UNCHANGED <<os, files, stack, volumes, host, unfinished>>

\* A rename that fails removes the staged file, a killed command leaves it.
SwapFails ==
    /\ Fail("swap")
    /\ staged' \in {staged, "none"}
    /\ UNCHANGED <<os, bin, files, stack, volumes, host, unfinished>>

-----------------------------------------------------------------------------
\* The machine restarts: no container has a restart policy, resolvectl keeps
\* its rules in memory.
Reboot ==
    /\ Spend("reboot")
    /\ step' = "idle" /\ cmd' = NoCmd /\ tries' = 0 /\ last' = NoCmd
    /\ controller' = Off /\ dns' = "off" /\ caddy' = "off"
    /\ resolver' = IF os = "linux" THEN {} ELSE resolver
    /\ UNCHANGED <<cli, files, volumes, trusted, unfinished>>

Run == Install \/ Start \/ Stop \/ Upgrade \/ Uninstall

Advance ==
    \/ Bundle \/ BundleFails \/ WriteEnv \/ ReplaceEnv \/ ReplaceEnvAbsent \/ WriteEnvFails
    \/ Pull \/ Up \/ UpFails \/ Halt \/ HaltFails
    \/ Down \/ DownFails \/ Remove \/ RemoveFails
    \/ Resolve \/ copyCA \/ copyCARetry \/ copyCAFails \/ Trust
    \/ Unresolve \/ UnresolveLost \/ Untrust \/ UntrustAbsent
    \/ Download \/ Stage \/ StageFails \/ Swap \/ SwapFails
    \/ FailClean

Next == Run \/ Advance \/ MintCA \/ Reboot

Spec == Init /\ [][Next]_vars

\* A command that runs goes on; Caddy need never produce a certificate.
LiveSpec == Spec /\ WF_vars(Advance)

-----------------------------------------------------------------------------
(* Properties                                                              *)

TypeOK ==
    /\ os \in Systems
    /\ cmd \in Commands /\ step \in Steps /\ tries \in 0..Attempts
    /\ bin \in Tags \cup {"dev"}
    /\ staged \in Tags \cup {"none", "partial"}
    /\ bundle \in Tags \cup {"dev", "none", "mixed"}
    /\ env \in Env \cup {NoEnv}
    /\ exported \in Authorities \cup {"none"}
    /\ controller \in [image: Tags \cup {"latest"}, port: Ports, token: Tokens \cup {"empty"}] \cup {Off}
    /\ dns \in Zones \cup {"empty", "off"}
    /\ caddy \in {"off", "on"}
    /\ data \in Zones \cup {"none"}
    /\ ca \in Authorities \cup {"none"}
    /\ resolver \subseteq Zones
    /\ trusted \subseteq Authorities
    /\ last \in Commands /\ unfinished \in {"yes", "no"} /\ faults \in Nat
    /\ torn \in {"yes", "no"}

\* What runs is what .env says.
StackMatches == controller = ControllerOf(env) /\ dns = env.zone /\ caddy = "on"

\* A successful install has done all of its work, whatever earlier commands
\* left half done: the running controller has the token the other commands will
\* read, the zone asked for is answered and routed, and the certificate Caddy
\* signs with is trusted (installer.go, Install).
InstallEstablishes ==
    last.name = "install" =>
        /\ env.token \in Tokens
        /\ env = materialize(last, env.token)
        /\ StackMatches
        /\ bundle = bin
        /\ last.zone \in resolver
        /\ os = "linux" => resolver = {last.zone}
        /\ ca # "none" /\ ca \in trusted

\* A successful upgrade, also one that repeats a failed one, has moved the
\* executable, the installation and the running controller to the release it
\* was asked for (main.go, upgradeCLI; installer.go, Upgrade).
UpgradeConverges ==
    last.name = "upgrade" =>
        /\ bin = last.tag
        /\ env.version = last.tag
        /\ StackMatches

\* The running containers differ from .env only after an install or upgrade
\* that wrote it and has not brought the stack up since; lrp start is then
\* enough (installer.go: .env is written before pull and up).
SkewExplained ==
    env # NoEnv /\ unfinished = "no" =>
        controller \in {Off, ControllerOf(env)} /\ dns \in {"off", env.zone}

\* Without .env the commands refuse to act, so nothing that they would have to
\* take away outlives it: no container, no trusted certificate and on Linux no
\* split-DNS rule (installer.go, Uninstall: the directory goes last).
NothingLeftBehind ==
    env = NoEnv =>
        /\ controller = Off /\ dns = "off" /\ caddy = "off"
        /\ trusted = {}
        /\ os = "linux" => resolver = {}

\* The host never trusts an authority other than the one in Caddy's volume:
\* a purge withdraws the trust before it deletes the key, and an install never
\* trusts a certificate file of an earlier installation.
TrustFresh == trusted \subseteq {ca}

\* A running controller has a token, so its API asks for one, and CoreDNS
\* answers for a zone (docs/architecture.md, "Generated installations require
\* either the bootstrap bearer token or an expiring HttpOnly browser session").
\* A write of .env that fails half way is the exception.
Gated ==
    torn = "no" =>
        /\ controller # Off => controller.token \in Tokens
        /\ dns # "off" => dns \in Zones

\* Every command ends, also when Caddy never produces a certificate
\* (installer.go, copyCA: twenty attempts).
CommandEnds == step # "idle" ~> step = "idle"

-----------------------------------------------------------------------------
(* The inductive invariant behind the safety properties                    *)

\* A step belongs to its command, a command that runs is not the last one, and
\* all but the first steps of install and upgrade find .env.
StepInv ==
    /\ step # "idle" => last = NoCmd
    /\ step \in {"bundle", "env", "resolve", "copyca", "trust"} => cmd.name = "install"
    /\ step \in {"download", "stage", "swap", "reenv"} => cmd.name = "upgrade"
    /\ step \in {"unresolve", "untrust", "down", "remove"} => cmd.name = "uninstall"
    /\ step = "remove" => cmd.purge
    /\ step = "pull" => cmd.name \in {"install", "upgrade"}
    /\ step = "up" => cmd.name \in {"install", "upgrade", "start"}
    /\ step = "halt" => cmd.name = "stop"
    /\ step \notin {"idle", "bundle", "env", "download", "stage", "swap", "reenv"} =>
          env # NoEnv

\* What an install has achieved when it gets to a step.
InstallInv ==
    cmd.name = "install" =>
        /\ step # "bundle" => bundle = bin
        /\ step \notin {"bundle", "env"} =>
              env.token \in Tokens /\ env = materialize(cmd, env.token)
        /\ step \in {"resolve", "copyca", "trust"} => StackMatches
        /\ step \in {"copyca", "trust"} =>
              cmd.zone \in resolver /\ (os = "linux" => resolver = {cmd.zone})
        /\ step = "trust" => ca # "none" /\ exported = ca

UpgradeInv ==
    cmd.name = "upgrade" =>
        /\ step = "swap" => staged = cmd.tag
        /\ step \in {"reenv", "pull", "up"} => bin = cmd.tag
        /\ step \in {"pull", "up"} => env.version = cmd.tag

UninstallInv ==
    cmd.name = "uninstall" =>
        /\ step # "unresolve" => (os = "linux" => resolver = {})
        /\ step \in {"down", "remove"} => trusted = {}
        /\ step = "remove" => controller = Off /\ dns = "off" /\ caddy = "off"

\* The parts together.
IndInv == /\ StepInv /\ InstallInv /\ UpgradeInv /\ UninstallInv
          /\ InstallEstablishes /\ UpgradeConverges
          /\ SkewExplained /\ NothingLeftBehind /\ TrustFresh

-----------------------------------------------------------------------------
(* What the documentation says and the code does not do                    *)

\* README.md: "Exact local hostnames beneath a user-selected .test zone".  The
\* zone Caddy's routes are rendered for is the one of the settings row.
ZoneServed == last.name = "install" => data = last.zone
=============================================================================
