------------------------------ MODULE Updates ------------------------------
(***************************************************************************)
(* The settings and the updates of one user's WinDV over several runs:     *)
(* starting and loading, the settings page, asking GitHub for the latest   *)
(* release (several requests may be under way), the notice and closing it, *)
(* downloading and launching the installers, saving when the window closes, *)
(* and the ends of the process in which nothing is saved.                  *)
(***************************************************************************)
EXTENDS SettingsStore

CONSTANTS
    Formats,         \* the formats there are, NoFormat among them
    Pages,           \* what the user may save on the settings page
    Registries,      \* the registries to begin with
    CurrentUser, LocalMachine,  \* what the two hives say of an install
                     \* location: "none", "elsewhere" or "here"
    MaxRelease,      \* bound: the releases that appear
    MaxDay,          \* bound: the days the clock shows
    MaxAsks,         \* bound: requests under way at a time
    MaxRedirects,
    Budgets          \* bounds: how many events of each kind

Releases == 1..MaxRelease
Days == 1..MaxDay

\* What another WinDV may have stored: a list of any length, with repeats and
\* empty entries, a number in any range, and no closed notice later than the
\* last release.
Stored(values) == {Absent} \union values
StoredSettings ==
    {r \in [format : Stored(Formats), history : Stored(Seq(Formats)),
             loss : Stored(Int), check : Stored(BOOLEAN),
             last : Stored(0..MaxDay), latest : Stored(0..MaxRelease),
             dismissed : Stored(0..MaxRelease)] :
        Load(r).dismissed <= Load(r).latest}

ASSUME UpdatesAssumption ==
    /\ {NoFormat, DefaultFormat} \subseteq Formats
    /\ DefaultFormatHistory \in Seq(Formats)
    /\ Pages \subseteq [format : Formats, lossOn : BOOLEAN,
                        lossBox : Int \union {NaN}, check : BOOLEAN]
    /\ Registries \subseteq StoredSettings
    \* What is missing is not mistaken for a value.
    /\ Absent \notin Formats /\ Absent \notin Seq(Formats)
    /\ Absent \notin Int /\ Absent \notin BOOLEAN
    /\ MaxRelease \in Nat \ {0} /\ MaxDay \in Nat \ {0}
    /\ MaxAsks \in Nat /\ MaxRedirects \in Nat

VARIABLES
    registry,   \* what is stored
    settings,   \* MainWindow._settings
    stage,      \* of the process: "closed", "starting", "scripted",
                \* "interactive" or "closing"
    notice,     \* the release of the update bar, 0 while HasUpdate is false
    asks,       \* CheckForUpdatesAsync calls that await GitHub's answer
    install,    \* InstallUpdateAsync: where it is, and of which release
    hops,       \* redirects that the download followed
    current,    \* UpdateChecker.CurrentVersion
    installers, \* the releases whose installers run
    published,  \* GitHub's latest release
    day,        \* the clock
    budget,     \* the events that may still happen
    used, usedSaved,      \* history: the formats used, and as stored
    closed, closedSaved,  \* history: the notices closed, and as stored
    overtaken,  \* history: an answer came after a later one
    torn        \* history: saving broke off between a format and its history

process == <<settings, stage, notice, asks, install, hops>>
world == <<registry, current, installers, published, day>>
history == <<used, usedSaved, closed, closedSaved, overtaken, torn>>
vars == <<process, world, budget, history>>

\* The formats that a list and a current one come from, oldest first.
Uses(s) == Reverse(<<s.format>> \o s.history)

NoInstall == [at |-> "none", tag |-> 0]

Init ==
    /\ registry \in Registries
    /\ settings = Load(registry)
    /\ stage = "closed" /\ notice = 0 /\ asks = <<>>
    /\ install = NoInstall /\ hops = 0
    /\ current = 1 /\ installers = <<>> /\ published = 1 /\ day = 1
    /\ budget \in Budgets
    /\ used = Uses(settings) /\ usedSaved = used
    /\ closed = {settings.dismissed} \ {0} /\ closedSaved = closed
    /\ overtaken = FALSE /\ torn = FALSE

\* One of the events that a bound limits.
Spend(kind) ==
    /\ budget[kind] > 0
    /\ budget' = [budget EXCEPT ![kind] = @ - 1]

Up == stage # "closed"

-----------------------------------------------------------------------------
(* Checking for updates                                                    *)

NewerThanCurrent(tag) == tag > current

\* Faulty: a release is shown although checking is turned off.
ShowKnownUpdateAlways(s, shown) ==
    IF s.latest # s.dismissed /\ NewerThanCurrent(s.latest)
    THEN s.latest ELSE shown

\* The notice after ShowKnownUpdate; it never takes one away.
ShowKnownUpdate(s, shown) ==
    IF /\ s.check
       /\ s.latest # s.dismissed
       /\ NewerThanCurrent(s.latest)
    THEN s.latest ELSE shown

\* A time of the future does not count: the clock was set back.
AskedToday(s) == s.last = day

\* CheckForUpdatesAsync, up to its await.
CheckForUpdates(s, force) ==
    IF ~force /\ ~s.check
    THEN UNCHANGED <<notice, asks>>
    ELSE /\ notice' = ShowKnownUpdate(s, notice)
         /\ IF ~force /\ AskedToday(s)
            THEN UNCHANGED asks
            ELSE /\ Len(asks) < MaxAsks
                 /\ asks' = Append(asks, [force |-> force, now |-> day,
                                          tag |-> 0])

\* GitHub answers a request with the latest release of that moment.
Serve(i) ==
    /\ asks[i].tag = 0
    /\ asks' = [asks EXCEPT ![i].tag = published]
    /\ UNCHANGED <<settings, stage, notice, install, hops, world, budget,
                   history>>

\* The answer arrives, and the call runs on.
Answer(i) ==
    /\ asks[i].tag # 0
    /\ LET s == [settings EXCEPT !.last = asks[i].now,
                                 !.latest = asks[i].tag]
       IN  /\ settings' = s
           /\ notice' = ShowKnownUpdate(s, notice)
    /\ asks' = RemoveAt(asks, i)
    /\ overtaken' = (overtaken \/ asks[i].tag < settings.latest)
    /\ UNCHANGED <<stage, install, hops, world, budget, used, usedSaved,
                   closed, closedSaved, torn>>

\* No answer, or not one that can be read: ask again next time.
CheckFailed(i) ==
    /\ asks' = RemoveAt(asks, i)
    /\ UNCHANGED <<settings, stage, notice, install, hops, world, budget,
                   history>>

\* The settings page's button, which is disabled until its answer is there.
CheckNow ==
    /\ Up /\ Spend("check")
    /\ \A i \in DOMAIN asks : ~asks[i].force
    /\ CheckForUpdates(settings, TRUE)
    /\ UNCHANGED <<settings, stage, install, hops, world, history>>

\* The user closes the notice with its button.
DismissUpdate ==
    /\ notice # 0 /\ Spend("dismiss")
    /\ notice' = 0
    /\ settings' = [settings EXCEPT !.dismissed = settings.latest]
    /\ closed' = closed \union {notice}
    /\ UNCHANGED <<stage, asks, install, hops, world, used, usedSaved,
                   closedSaved, overtaken, torn>>

-----------------------------------------------------------------------------
(* The process                                                             *)

\* MainWindow's constructor; whoever starts it waits for an installer.
Start ==
    /\ stage = "closed" /\ installers = <<>> /\ Spend("start")
    /\ settings' = Load(registry)
    /\ stage' = "starting"
    /\ used' = usedSaved /\ closed' = closedSaved
    /\ UNCHANGED <<notice, asks, install, hops, world, usedSaved,
                   closedSaved, overtaken, torn>>

\* What the end of the process takes along.
Ends ==
    /\ stage' = "closed" /\ notice' = 0 /\ asks' = <<>>
    /\ install' = NoInstall /\ hops' = 0

\* Root_Loaded, once StartAsync is done: a scripted start checks nothing.
Loaded ==
    /\ stage = "starting"
    /\ \/ stage' = "scripted" /\ UNCHANGED <<notice, asks>>
       \/ stage' = "interactive" /\ CheckForUpdates(settings, FALSE)
    /\ UNCHANGED <<settings, install, hops, world, budget, history>>

\* Save_Click on the settings page, and ApplySettings.
SavePage(page) ==
    LET s == FromPage(settings, page)
    IN  /\ Up /\ Spend("save")
        /\ settings' = s
        /\ IF ~s.check THEN notice' = 0 /\ UNCHANGED asks
           ELSE IF notice = 0 THEN CheckForUpdates(s, FALSE)
           ELSE UNCHANGED <<notice, asks>>
        /\ used' = Append(used, page.format)
        /\ UNCHANGED <<stage, install, hops, world, usedSaved, closed,
                       closedSaved, overtaken, torn>>

\* The user closes the window, or something that closes it calls for it.
CloseWindow ==
    /\ stage \in {"starting", "scripted", "interactive"}
    /\ stage' = "closing"
    /\ UNCHANGED <<settings, notice, asks, install, hops, world, budget,
                   history>>

\* Saving broke off after the first of the two, and the first is new.
Torn(n) == n = 1 /\ settings.format # Load(registry).format

\* The pipeline is down: the settings are saved, as far as that works.  Of the
\* formats, what is to be found again is what was used before when none is
\* written, and what was used now when the current one and the history are.
Shutdown(n) ==
    /\ stage = "closing"
    /\ registry' = Save(registry, settings, n)
    /\ usedSaved' = CASE n = 0 -> usedSaved
                      [] n = 1 -> IF Torn(n) THEN Append(usedSaved,
                                                         settings.format)
                                  ELSE usedSaved
                      [] OTHER -> used
    /\ torn' = (torn \/ Torn(n))
    /\ closedSaved' = IF n = Len(SaveOrder) THEN closed ELSE closedSaved
    /\ Ends
    /\ UNCHANGED <<settings, current, installers, published, day, budget, used,
                   closed, overtaken>>

\* A usage error, a crash or the end of the session: nothing is saved.
EndUnsaved ==
    /\ Up /\ Spend("crash")
    /\ Ends
    /\ UNCHANGED <<settings, world, history>>

-----------------------------------------------------------------------------
(* Installing an update                                                    *)

\* Another copy's installation does not count.
RunsFromInstallLocation(hive) == hive = "here"
IsInstalledCopy ==
    \E hive \in {CurrentUser, LocalMachine} : RunsFromInstallLocation(hive)

CanInstallUpdate == notice # 0 /\ IsInstalledCopy /\ install = NoInstall

InstallUpdate ==
    /\ Up /\ CanInstallUpdate /\ Spend("install")
    /\ install' = [at |-> "asks", tag |-> 0]
    /\ UNCHANGED <<settings, stage, notice, asks, hops, world, history>>

\* No answer, no installer in it, a failure on the way, or the token of five
\* minutes, which covers the headers and the body; nothing stays.
InstallFails ==
    /\ install.at # "none"
    /\ install' = NoInstall /\ hops' = 0
    /\ UNCHANGED <<settings, stage, notice, asks, world, budget, history>>

\* GitHub's answer has a newer release with an installer.
Download ==
    /\ install.at = "asks" /\ NewerThanCurrent(published)
    /\ install' = [at |-> "headers", tag |-> published]
    /\ UNCHANGED <<settings, stage, notice, asks, hops, world, budget,
                   history>>

Hosts == {"github.com", "githubusercontent.com", "elsewhere"}
IsValidAssetUrl(host) == host # "elsewhere"

\* A redirect, which is followed a few times to places that are trusted.
Redirect(host) ==
    /\ install.at = "headers"
    /\ IF IsValidAssetUrl(host) /\ hops < MaxRedirects
         THEN hops' = hops + 1 /\ UNCHANGED install
         ELSE hops' = 0 /\ install' = NoInstall
    /\ UNCHANGED <<settings, stage, notice, asks, world, budget, history>>

\* The headers are there: the file is created.
Headers ==
    /\ install.at = "headers"
    /\ install' = [install EXCEPT !.at = "body"]
    /\ UNCHANGED <<settings, stage, notice, asks, hops, world, budget,
                   history>>

Downloaded ==
    /\ install.at = "body"
    /\ install' = [install EXCEPT !.at = "launches"]
    /\ UNCHANGED <<settings, stage, notice, asks, hops, world, budget,
                   history>>

\* LaunchInstaller worked: the window closes as if the user closed it.
Launch ==
    /\ install.at = "launches"
    /\ installers' = Append(installers, install.tag)
    /\ install' = NoInstall /\ hops' = 0
    /\ stage' = "closing"
    /\ UNCHANGED <<settings, notice, asks, registry, current, published, day,
                   budget, history>>

\* The installer is done, or gave up.
InstallerEnds(i) ==
    /\ stage = "closed"
    /\ installers' = RemoveAt(installers, i)
    /\ current' \in {current, installers[i]}
    /\ UNCHANGED <<process, registry, published, day, budget, history>>

-----------------------------------------------------------------------------
(* The world                                                               *)

Publish ==
    /\ published < MaxRelease /\ Spend("publish")
    /\ published' = published + 1
    /\ UNCHANGED <<process, registry, current, installers, day,
                   history>>

\* Time passes, or the clock is set.
SetClock ==
    /\ Spend("clock")
    /\ day' \in Days \ {day}
    /\ UNCHANGED <<process, registry, current, installers, published,
                   history>>

Next ==
    \/ Start \/ Loaded \/ CloseWindow \/ EndUnsaved
    \/ \E n \in 0..Len(SaveOrder) : Shutdown(n)
    \/ \E page \in Pages : SavePage(page)
    \/ CheckNow \/ DismissUpdate
    \/ \E i \in DOMAIN asks : Serve(i) \/ Answer(i) \/ CheckFailed(i)
    \/ InstallUpdate \/ InstallFails \/ Download
    \/ \E host \in Hosts : Redirect(host)
    \/ Headers \/ Downloaded \/ Launch
    \/ \E i \in DOMAIN installers : InstallerEnds(i)
    \/ Publish \/ SetClock

Spec == Init /\ [][Next]_vars

-----------------------------------------------------------------------------
(* Properties                                                              *)

\* Every variable keeps to its values, and a running WinDV has no number that
\* is out of its range and no empty format in its list, whatever was stored.
TypeOK ==
    /\ settings.format \in Formats
    /\ settings.history \in Seq(Formats \ {NoFormat})
    /\ settings.loss \in 0..MaxSignalLossSeconds
    /\ settings.check \in BOOLEAN /\ settings.last \in 0..MaxDay
    /\ {settings.latest, settings.dismissed, notice, install.tag}
            \subseteq {0} \union Releases
    /\ ToSet(installers) \subseteq Releases
    /\ DOMAIN registry = DOMAIN Defaults
    /\ stage \in {"closed", "starting", "scripted", "interactive", "closing"}
    /\ asks \in BoundedSeq([force : BOOLEAN, now : Days,
                            tag : {0} \union Releases], MaxAsks)
    /\ install.at \in {"none", "asks", "headers", "body", "launches"}
    /\ hops \in 0..MaxRedirects
    /\ current \in Releases /\ published \in Releases /\ day \in Days

\* The notice is there exactly for the latest known release, when that is
\* newer than this WinDV, checking is on and the user has not closed it: "A
\* release whose notice the user closed; it isn't shown again"
\* (SettingsStore.cs:60), over restarts and with several requests under way,
\* as long as no answer comes after a later one and what was closed was saved.
NoticeIsNews ==
    stage = "interactive" /\ ~overtaken =>
        notice = IF /\ settings.check
                    /\ NewerThanCurrent(settings.latest)
                    /\ settings.latest \notin closed
                 THEN settings.latest ELSE 0

\* The formats that were used, the latest first, each once.
Remembered ==
    Distinct(Without(Reverse(used), {NoFormat, settings.format}))

\* The settings page offers the formats used last, and lacks none but the
\* oldest: a move from no format to one of the list leaves one place of it
\* empty.  A list that was stored with repeats is offered with them.
OffersRemembered ==
    LET offered == Distinct(Offered(settings))
    IN  /\ IsPrefix(offered, Remembered)
        /\ Len(offered) >= Min({MaxFormatHistory - 1, Len(Remembered)})

\* "the old one moves into the history, most recent first"
\* (SettingsStore.cs:158), over restarts, ends without saving, and saving that
\* breaks off anywhere but between a new format and its history.
FormatsRemembered == Up /\ ~torn => OffersRemembered
=============================================================================
