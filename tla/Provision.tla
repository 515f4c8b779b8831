----------------------------- MODULE Provision ------------------------------
(***************************************************************************)
(* The setup programs of the server and of a frame: a fixed list of steps, *)
(* each of which looks whether it has something to do and then puts its    *)
(* facts (files, users, units, timers) in place one after the other.  They *)
(* are run again after an upgrade and after a run that was cut short, so   *)
(* what a step looks at decides what a second run repairs.                 *)
(*                                                                         *)
(* A fact is one write or one command, and putting it in place one action. *)
(* A run may end at any of them, with a file half written; a command may   *)
(* fail.                                                                   *)
(*                                                                         *)
(* Abstractions.  What is written is the version of the program that wrote *)
(* it.  Options that leave steps out, dry runs, questions to the user and  *)
(* the summary are left out; so is the firewall's list of ports.           *)
(***************************************************************************)
EXTENDS Naturals, Sequences, FiniteSets, SequencesExt

CONSTANTS
    MaxVersion, \* bound: upgrades
    MaxFaults   \* bound: runs cut short and commands that fail

ASSUME SetupAssumption == MaxVersion \in Nat \ {0}

VARIABLES
    role,       \* which program this machine runs
    have,       \* [fact -> 0, Half or the version that put it there]
    tools,      \* the optional software and hardware of the machine
    version,    \* of the program
    setup,      \* [at, k]: step and fact; at = 0: not running
    sound,      \* the last run came to its end and nothing failed in it
    hurt,       \* history: facts of steps that were cut short, or failed, when
                \* they were last at work
    failures

setupVars == <<role, have, tools, version, setup, sound, hurt, failures>>

Half == MaxVersion + 1

(* A step: the tools and facts it needs, the facts it looks at and whether  *)
(* it wants them there or right, the facts it makes; onFail: "dies" (the    *)
(* run ends), "stops" (the step ends), "on" (nothing is made of it).        *)
Step(needs, looks, wants, makes, onFail) ==
    [needs |-> needs, looks |-> looks, wants |-> wants, makes |-> makes, onFail |-> onFail]

Always(makes, onFail) == Step({}, {}, "right", makes, onFail)

(* The steps of the server. *)
HardwareStep == Always(<<"hardware">>, "dies")
UserStep == Step({}, {"user"}, "right", <<"user">>, "dies")
DirsStep == Always(<<"dirs">>, "dies")
ZfsStep == Step({"zfs"}, {"dataset"}, "right", <<"dataset">>, "stops")
ZfsPermissionsStep == Step({"zfs", "dataset"}, {}, "right", <<"allowed">>, "on")
ConfigStep == Always(<<"config_dir">>, "dies")
TlsStep == Step({"openssl"}, {"key", "cert"}, "there", <<"key", "cert", "key_mode">>, "stops")
UnitStep == Always(<<"unit", "unit_loaded">>, "on")
EnableStep == Always(<<"service">>, "stops")
FirewallStep == Step({"ufw"}, {}, "right", <<"firewall">>, "on")
CronStep == Step({"crontab"}, {"cron"}, "right", <<"cron">>, "stops")
ArcStep == Step({"zfs"}, {"arc"}, "right", <<"arc", "initramfs">>, "on")
ArcNowStep == Step({"zfs"}, {}, "right", <<"arc_now">>, "on")
ScrubStep == Step({"zfs"}, {}, "right", <<"scrubs">>, "on")
EspStep == Step({"zfs", "mirror"}, {}, "right",
                <<"esp_script", "esp_service", "esp_timer", "esp_enabled", "esp_synced">>, "on")
AutoUpdate == Step({"git"}, {}, "right",
                   <<"update_script", "update_service", "update_timer", "updates_enabled">>, "on")
PinStep == Step({}, {"pin"}, "right", <<"pin", "pin_mode">>, "dies")

ServerSteps ==
    <<HardwareStep, UserStep, DirsStep, ZfsStep, ZfsPermissionsStep, ConfigStep, TlsStep,
      UnitStep, EnableStep, FirewallStep, CronStep, ArcStep, ArcNowStep, ScrubStep, EspStep,
      AutoUpdate, PinStep>>

(* Those of a frame; its hardware, unit and enabling are as above. *)
BlankingStep == Step({}, {"blanking"}, "there", <<"blanking", "console">>, "stops")
MpvStep == Always(<<"mpv">>, "dies")
PlaywrightStep == Step({"overlays"}, {"playwright"}, "right", <<"playwright", "chromium">>, "stops")

DisplaySteps ==
    <<HardwareStep, BlankingStep, MpvStep, PlaywrightStep, UnitStep, EnableStep, AutoUpdate>>

Steps == IF role = "server" THEN ServerSteps ELSE DisplaySteps
Facts == UNION {ToSet(s.makes) : s \in ToSet(ServerSteps) \cup ToSet(DisplaySteps)}
Tool == {"git", "zfs", "openssl", "ufw", "crontab", "mirror", "overlays"}

(* Facts written as files, which may be left half written. *)
Files == {"hardware", "key", "cert", "unit", "arc", "esp_script", "esp_service", "esp_timer",
          "update_script", "update_service", "update_timer", "pin", "blanking", "console",
          "mpv"}

(* Facts whose failure the step sees: what a command makes, and one write.  *)
Commands == {"user", "dataset", "allowed", "key", "cert", "unit_loaded", "service", "firewall",
             "cron", "initramfs", "arc_now", "scrubs", "esp_enabled", "esp_synced",
             "updates_enabled", "blanking", "playwright", "chromium"}

(* Units that are enabled and started: "enable --now" does not restart one  *)
(* that runs on an older file.                                              *)
Started == {"service", "scrubs", "esp_enabled", "updates_enabled"}

Right(f) == have[f] \in 1 .. MaxVersion
Renewed(f) == IF f \in Started THEN Right(f) ELSE have[f] = version
Applies(s) == \A n \in s.needs : n \in tools \/ (n \in Facts /\ Right(n))

(* A slip of Done: whatever is there will do.                               *)
DoneIfThere(s) == s.looks # {} /\ \A f \in s.looks : have[f] # 0

(* What the step sees of its facts is what it wants. *)
Done(s) ==
    /\ s.looks # {}
    /\ \A f \in s.looks : IF s.wants = "there" THEN have[f] # 0 ELSE Right(f)

-----------------------------------------------------------------------------
Idle == [at |-> 0, k |-> 1]
NextStep == IF setup.at = Len(Steps) THEN Idle ELSE [at |-> setup.at + 1, k |-> 1]
NextFact == IF setup.k = Len(Steps[setup.at].makes) THEN NextStep
            ELSE [setup EXCEPT !.k = @ + 1]

StartSetup ==
    /\ setup.at = 0
    /\ setup' = [at |-> 1, k |-> 1]
    /\ sound' = TRUE
    /\ UNCHANGED <<role, have, tools, version, hurt, failures>>

SkipStep ==
    /\ setup.at # 0 /\ setup.k = 1
    /\ ~Applies(Steps[setup.at]) \/ Done(Steps[setup.at])
    /\ setup' = NextStep
    /\ UNCHANGED <<role, have, tools, version, sound, hurt, failures>>

(* The step is at work, on the fact of its turn. *)
Working ==
    /\ setup.at # 0
    /\ setup.k = 1 => Applies(Steps[setup.at]) /\ ~Done(Steps[setup.at])

Present == Steps[setup.at].makes[setup.k]

Make ==
    /\ Working
    /\ have' = [have EXCEPT ![Present] = IF Present \in Started /\ Right(Present) THEN @ ELSE version]
    /\ setup' = NextFact
    /\ hurt' = IF setup.k = 1 THEN hurt \ ToSet(Steps[setup.at].makes) ELSE hurt
    /\ UNCHANGED <<role, tools, version, sound, failures>>

Fault ==
    /\ Working
    /\ failures < MaxFaults
    /\ failures' = failures + 1
    /\ sound' = FALSE
    /\ hurt' = hurt \cup ToSet(Steps[setup.at].makes)

LeftHalf ==
    \/ UNCHANGED have
    \/ Present \in Files /\ have' = [have EXCEPT ![Present] = Half]

CommandFails ==
    /\ Fault
    /\ Present \in Commands
    /\ LeftHalf
    /\ setup' = [dies |-> Idle, stops |-> NextStep, on |-> NextFact][Steps[setup.at].onFail]
    /\ UNCHANGED <<role, tools, version>>

(* The run ends here: killed, an exception, no power. *)
CutShort ==
    /\ Fault
    /\ LeftHalf
    /\ setup' = Idle
    /\ UNCHANGED <<role, tools, version>>

(* A new version of the program; the user installs what was missing. *)
Upgrade ==
    /\ setup.at = 0
    /\ version < MaxVersion
    /\ version' = version + 1
    /\ sound' = FALSE
    /\ UNCHANGED <<role, have, tools, setup, hurt, failures>>

InstallTools ==
    /\ setup.at = 0
    /\ tools # Tool
    /\ tools' = Tool
    /\ sound' = FALSE
    /\ UNCHANGED <<role, have, version, setup, hurt, failures>>

-----------------------------------------------------------------------------
SetupInit ==
    /\ role \in {"server", "display"}
    /\ have = [f \in Facts |-> 0]
    /\ tools \in {{}, Tool}
    /\ version = 1
    /\ setup = Idle
    /\ sound = FALSE
    /\ hurt = {}
    /\ failures = 0

SetupNext == StartSetup \/ SkipStep \/ Make \/ CommandFails \/ CutShort \/ Upgrade
             \/ InstallTools

SetupSpec == SetupInit /\ [][SetupNext]_setupVars

-----------------------------------------------------------------------------
(* What a step puts in place without looking at it, or takes for whole when *)
(* it is only there.                                                        *)
Fragile == {"key", "cert", "key_mode", "pin_mode", "initramfs", "blanking", "console",
            "chromium"}

(* The step was broken off over f, and takes what it sees for all its work. *)
Overlooked(s, f) == f \in Fragile \cap hurt /\ Done(s)

Repaired(s) ==
    Applies(s) =>
        \A f \in ToSet(s.makes) :
            Overlooked(s, f) \/ IF s.looks = {} THEN Renewed(f) ELSE Right(f)

(* What a run that comes to its end repairs ("safe to re-run after a        *)
(* partial install or after an upgrade", setup/__init__.py:7-8).  A step    *)
(* that does not look first has all its facts of this version, but a unit   *)
(* that ran already runs on; one that looks has them whole, of whatever     *)
(* version.  Not repaired are the few facts of a step that was broken off   *)
(* over them and now takes an earlier, or a half-written, one for all.      *)
SetupRepairs == setup.at = 0 /\ sound => \A s \in ToSet(Steps) : Repaired(s)
=============================================================================
