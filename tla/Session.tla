------------------------------- MODULE Session ------------------------------
(***************************************************************************)
(* From power-on to the desktop: kmain64 (kernel/kernel64.c), the first-use *)
(* screens (ui/session/onboarding.c), the graphical login (ui/login/       *)
(* login.c) and the text session (ui/session/session.c), over the accounts *)
(* of Accounts.  One loop reads keys and clicks; while userdb_add writes,  *)
(* nothing else happens.  Typing and erasing change a field to any text of *)
(* the sets below; what is drawn, the shell (F1) and animations are left   *)
(* out.                                                                    *)
(***************************************************************************)
EXTENDS Accounts

CONSTANTS Typeable,           \* what may be typed as a user name at the text login
          DevUser, DevPass    \* DEV_USER, DEV_PASS

\* A hash cut short is nothing anybody types.
ASSUME SessionAssumption == DevPass # Cut

VARIABLES
  screen,      \* where the session is: see Screens
  fb,          \* fb_available(), settled at power-on
  askLang,     \* s_ask_lang: no lang= on the command line
  fName, fPass,    \* s_name, s_pass of onboarding
  tName,       \* user name of the text login
  typed        \* password of the login on screen

ui == <<screen, fb, askLang, fName, fPass, tName, typed>>
fields == <<fName, fPass>>
sessionVars == <<vars, ui>>

\* "off" has no screen; "lang" .. "another" are the steps of onboarding, "login"
\* and "desktop" the graphical session; "textlang", "textlogin" and "home" the
\* same in text mode.
Onboarding == {"lang", "welcome", "name", "pass", "wifi", "check", "another"}
Screens == Onboarding \cup {"off", "login", "desktop", "textlang", "textlogin", "home"}

-----------------------------------------------------------------------------
SessionInit ==
  /\ Init
  /\ screen = "off" /\ fb = FALSE /\ askLang = FALSE
  /\ fName = NoText /\ fPass = NoText
  /\ tName = <<>> /\ typed = NoText

Waiting == job = "idle" /\ screen # "off"     \* the loop is at a screen
Go(next) == Waiting /\ screen' = next
AtStep(step) == Waiting /\ screen = step

\* Where kmain64 goes after userdb_load.
FirstScreen ==
  IF users # <<>> THEN IF fb THEN "login" ELSE "textlogin"
  ELSE IF fb THEN (IF askLang THEN "lang" ELSE "welcome")
  ELSE IF askLang THEN "textlang" ELSE "textlogin"

SwitchOn ==
  /\ PowerOn
  /\ fb' \in BOOLEAN /\ askLang' \in BOOLEAN
  /\ UNCHANGED <<screen, fields, tName, typed>>

\* userdb_load is over, the migration's put included.
FirstUse ==
  /\ screen = "off" /\ job = "idle"
  /\ screen' = FirstScreen
  /\ UNCHANGED <<vars, fb, askLang, fields, tName, typed>>

SwitchOff ==
  /\ PowerOff
  /\ screen' = "off" /\ fb' = FALSE /\ askLang' = FALSE
  /\ fName' = NoText /\ fPass' = NoText
  /\ tName' = <<>> /\ typed' = NoText

Write == Storing /\ UNCHANGED ui

-----------------------------------------------------------------------------
(* Onboarding *)

StepBack(step) ==
  CASE step = "welcome" -> IF askLang THEN "lang" ELSE "welcome"
    [] step = "name"    -> "welcome"
    [] step = "pass"    -> "name"
    [] step = "wifi"    -> "pass"
    [] step = "check"   -> "wifi"
    [] OTHER            -> step

\* Escape, or the Back button.
Back ==
  /\ Waiting /\ screen \in Onboarding \ {"lang", "welcome"}
  /\ screen' = StepBack(screen)
  /\ UNCHANGED <<vars, fb, askLang, fields, tName, typed>>

TypeField ==
  /\ \/ AtStep("name") /\ fName' \in Names \cup {NoText} /\ UNCHANGED fPass
     \/ AtStep("pass") /\ fPass' \in Passes \cup {NoText} /\ UNCHANGED fName
  /\ UNCHANGED <<vars, screen, fb, askLang, tName, typed>>

Forward_EmptyPass ==                             \* mutant: any password will do
  /\ \/ AtStep("lang") /\ screen' = "welcome"
     \/ AtStep("welcome") /\ screen' = "name"
     \/ AtStep("name") /\ fName # NoText /\ screen' = "pass"
     \/ AtStep("pass") /\ screen' = "wifi"
  /\ UNCHANGED <<vars, fb, askLang, fields, tName, typed>>

\* Enter or Next, on the steps that only move on.
Forward ==
  /\ \/ AtStep("lang") /\ screen' = "welcome"
     \/ AtStep("welcome") /\ screen' = "name"
     \/ AtStep("name") /\ fName # NoText /\ screen' = "pass"
     \/ AtStep("pass") /\ fPass # NoText /\ screen' = "wifi"
  /\ UNCHANGED <<vars, fb, askLang, fields, tName, typed>>

\* The wired network, an open one, or one with its password typed.  Which of
\* them is selected, the probe and its progress bar make no difference here:
\* Skip commits from either step at any time.
Connect ==
  /\ AtStep("wifi")
  /\ screen' = "check"
  /\ UNCHANGED <<vars, fb, askLang, fields, tName, typed>>

\* commit_user: by Enter on Wi-Fi without a network or on a finished check, or
\* by Skip on either.  userdb_add's result is ignored.
CommitUser ==
  /\ AtStep("wifi") \/ AtStep("check")
  /\ Add(fName, fPass) \/ AddRefused(fName, fPass)
  /\ screen' = "another"
  /\ UNCHANGED <<fb, askLang, fields, tName, typed>>

AddAnother ==
  /\ AtStep("another")
  /\ fName' = NoText /\ fPass' = NoText
  /\ screen' = "name"
  /\ UNCHANGED <<vars, fb, askLang, tName, typed>>

LeaveOnboarding ==
  /\ AtStep("another")
  /\ screen' = "login"
  /\ UNCHANGED <<vars, fb, askLang, fields, tName, typed>>

-----------------------------------------------------------------------------
(* Graphical login and desktop *)

TypePass ==
  /\ AtStep("login")
  /\ typed' \in Passes \cup {NoText, DevPass}
  /\ UNCHANGED <<vars, screen, fb, askLang, fields, tName>>

\* Left, Right, or a click on the name; what was typed stays.
OtherUser ==
  /\ AtStep("login") /\ Len(users) > 1
  /\ SelectNext
  /\ UNCHANGED <<store, ramSize, ready, users, given, blind, job, bounds, reported, ui>>

TryAuth_Anyone(text) ==                          \* mutant: any account's password
  IF users # <<>> THEN \E i \in 1 .. Len(users) : Opens(i, text) ELSE text = DevPass
TryAuth(text) == IF users # <<>> THEN AuthCurrent(text) ELSE text = DevPass

\* Both logins empty their field when they start, so a log-out does here.
LogIn ==
  /\ AtStep("login")
  /\ screen' = IF TryAuth(typed) THEN "desktop" ELSE screen
  /\ typed' = IF TryAuth(typed) THEN typed ELSE NoText
  /\ UNCHANGED <<vars, fb, askLang, fields, tName>>

LogOut ==
  /\ \/ AtStep("desktop") /\ screen' = "login"
     \/ AtStep("home") /\ screen' = "textlogin"
  /\ typed' = NoText /\ tName' = <<>>
  /\ UNCHANGED <<vars, fb, askLang, fields>>

-----------------------------------------------------------------------------
(* Text session *)

ChooseLanguage ==
  /\ AtStep("textlang") /\ screen' = "textlogin"
  /\ UNCHANGED <<vars, fb, askLang, fields, tName, typed>>

TypeText ==
  /\ AtStep("textlogin")
  /\ \/ tName' \in Typeable \cup {<<>>} /\ UNCHANGED typed
     \/ typed' \in Passes \cup {NoText, DevPass} /\ UNCHANGED tName
  /\ UNCHANGED <<vars, screen, fb, askLang, fields>>

TextLogIn ==
  /\ AtStep("textlogin")
  /\ LET found == Matches(tName, typed)
         dev == users = <<>> /\ tName = DevUser /\ typed = DevPass
     IN  /\ cur' = IF found # {} THEN Smallest(found) - 1 ELSE cur
         /\ screen' = IF found # {} \/ dev THEN "home" ELSE screen
         /\ typed' = IF found # {} \/ dev THEN typed ELSE NoText
  /\ UNCHANGED <<store, ramSize, ready, users, given, blind, job, bounds, reported>>
  /\ UNCHANGED <<fb, askLang, fields, tName>>

-----------------------------------------------------------------------------
FirstSteps ==
  Back \/ TypeField \/ Forward \/ Connect \/ CommitUser
    \/ AddAnother \/ LeaveOnboarding

SessionNext ==
  \/ SwitchOn \/ FirstUse \/ SwitchOff \/ Write
  \/ FirstSteps
  \/ TypePass \/ OtherUser \/ LogIn \/ LogOut
  \/ ChooseLanguage \/ TypeText \/ TextLogIn

SessionSpec == SessionInit /\ [][SessionNext]_sessionVars

-----------------------------------------------------------------------------
(* Properties *)

\* Every variable has its type, and the selected account is one of the table.
TypeOK ==
  /\ job \in Jobs /\ screen \in Screens
  /\ Len(users) = Len(given) /\ Len(users) <= MaxUsers
  /\ cur \in 0 .. MaxUsers - 1 /\ (users # <<>> => cur < Len(users))
  /\ \A i \in 1 .. Len(users) :
       users[i].name \in Names /\ users[i].pass.text \in Passes \cup {Cut}
  /\ fName \in Names \cup {NoText} /\ fPass \in Passes \cup {NoText}
  /\ typed \in Passes \cup {NoText, DevPass} /\ tName \in Typeable \cup {<<>>}

\* The account's slug is the one its name gives, not one uniquify_slug made.
KeptSlug(i) == users[i].pass.salt = SlugOf[users[i].name]

\* userdb_add and userdb_load: an account whose save was reported is there
\* after every power-on that reads users.db, under its name, and opens with the
\* password it was given, whatever write failed or lost power since.  Three
\* things do take it away, and those after it, for good: a volume that cannot
\* be read is formatted; a save replaces a users.db that could not be read;
\* the save that replaces plain passwords by hashes is cut short, and the old
\* size ends in the middle of the accounts (see SavedAccountsStay).  And an
\* account whose slug got a digit is there, but does not open (see
\* SavedAccountsOpen).
SavedOpen ==
  (ready /\ ~blind) =>
     /\ acked <= Len(users)
     /\ \A i \in 1 .. acked :
          /\ users[i].name = given[i].name
          /\ KeptSlug(i) => Opens(i, given[i].text)

\* It is the machine with "no writable disk" whose "accounts will not survive
\* reboot" (fs/userdb.c:262): with one, no account reported saved is ever lost.
SavedAccountsStay == ~forgotten

\* Every account opens, as userdb.h:28 has it: a name that is in the
\* table and its password are accepted.
SavedAccountsOpen ==
  (ready /\ job = "idle") => \A i \in 1 .. acked : Opens(i, given[i].text)

\* Nobody reaches the desktop or the text home but with the password given for
\* the account that is then the current one, under its name or slug; the
\* built-in password serves only where there are no accounts.
OwnerOnly ==
  [][/\ screen = "login" /\ screen' = "desktop" =>
          IF users = <<>> THEN typed = DevPass ELSE typed = given[cur + 1].text
     /\ screen = "textlogin" /\ screen' = "home" =>
          IF users = <<>> THEN tName = DevUser /\ typed = DevPass
          ELSE typed = given[cur' + 1].text /\ Called(cur' + 1, tName)]_sessionVars

\* The graphical login never runs without an account, so its built-in password
\* is never accepted: kmain64 sends an empty table through onboarding, which is
\* left only after userdb_add had a name and a password.
NoDevLogin == screen \in {"login", "desktop"} => users # <<>>

\* An account that was made stays as it was made, in memory and on disk
\* (userdb_add, userdb_load).
AccountsKept == TypeOK /\ SavedOpen
=============================================================================
