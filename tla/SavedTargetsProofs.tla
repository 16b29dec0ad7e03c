------------------------- MODULE SavedTargetsProofs -------------------------
(***************************************************************************)
(* What is true of the file of saved targets whatever the names, the       *)
(* programs and the size of a block, however programs load, truncate and   *)
(* write across each other, and wherever they crash.                       *)
(*                                                                         *)
(* 1. A file that cannot be read is left alone.  A program gets past       *)
(*    loading only with a file it could read, or none; from then on either *)
(*    the file is still that one, or somebody has written to it and        *)
(*    `fresh` is lost for all.  What can be read is not expanded here: the *)
(*    argument holds for every file format.                                *)
(* 2. A form nobody edited gives the target it was filled from.            *)
(* 3. What is written is read back: names with their escapes, lists with   *)
(*    their order, by induction over their length.                         *)
(* 4. What can be read is all of the list written last.  Until two saves   *)
(*    of several blocks overlap, the file begins with that list's document *)
(*    or with no opening at all; who is between two blocks lies behind     *)
(*    what matters, or is where it left off (FileInv).                     *)
(* 5. The file implements a store in which saves and deletes take effect   *)
(*    at once: until one is cut short or made from an old list, the file   *)
(*    is the store's table or the beginning of the one table that is being *)
(*    written (StoreInv).                                                  *)
(***************************************************************************)
EXTENDS SavedTargets, WellFoundedInduction, SequenceTheorems, TLAPS


\* Where the programs are, whether their list is the file's, and that who loads
\* knows what for: only a dialog that starts has no operation under way.
ControlInv ==
    /\ DOMAIN pc = Programs
    /\ DOMAIN job = Programs
    /\ fresh \in [Programs -> BOOLEAN]
    /\ \A c \in Programs : pc[c] = "load" => job[c].op \in {"save", "delete", "use"}

IInv == ControlInv /\ UnreadableIsKept

\* c may go on to overwrite what it loaded.
Ahead(c) == pc[c] \in {"confirm", "open"}

LEMMA InitIInv == Init => IInv
  BY DEF Init, IInv, ControlInv, UnreadableIsKept

\* What the steps of c leave of ControlInv: they move c alone, and not to a load.
Moves(c) ==
    /\ DOMAIN pc' = Programs
    /\ DOMAIN job' = Programs
    /\ pc'[c] # "load"
    /\ \A p \in Programs \ {c} : pc'[p] = pc[p] /\ job'[p] = job[p]

LEMMA FinishMoves ==
    ASSUME IInv, NEW c \in Programs, Finish(c)
    PROVE  Moves(c) /\ pc'[c] = "idle"
  BY DEF IInv, ControlInv, Finish, Moves

LEMMA GotoMoves ==
    ASSUME IInv, NEW c \in Programs, NEW where, where # "load", NEW entries,
           Goto(c, where, entries)
    PROVE  Moves(c) /\ pc'[c] = where
  BY DEF IInv, ControlInv, Goto, Moves

\* So does what is done with a list, whichever way it goes.
LEMMA ProceedMoves ==
    ASSUME IInv, NEW c \in Programs, pc[c] \in {"load", "reload"}, NEW entries,
           Proceed(c, entries)
    PROVE  Moves(c)
  <1> DEFINE found == Positions(entries, job[c].name) # {}
  <1>1. CASE pc[c] = "reload"
    BY <1>1, FinishMoves DEF Proceed
  <1>2. CASE pc[c] = "load" /\ job[c].op = "use"
    BY <1>2, FinishMoves DEF Proceed, Use
  <1>3. CASE pc[c] = "load" /\ job[c].op = "save"
    <2>1. \/ Goto(c, "confirm", entries)
          \/ Goto(c, "open", Upsert(entries, Entry(c)))
      BY <1>3 DEF Proceed
    <2> QED  BY <2>1, GotoMoves
  <1>4. CASE pc[c] = "load" /\ job[c].op = "delete"
    <2>1. Finish(c) \/ Goto(c, "open", Without(entries, job[c].name))
      BY <1>4 DEF Proceed, Programs
    <2> QED  BY <2>1, FinishMoves, GotoMoves
  <1> QED
    BY <1>1, <1>2, <1>3, <1>4 DEF IInv, ControlInv

\* A step of c that leaves the file alone and makes nobody fresh keeps the
\* invariant, unless it brings c past its load.
LEMMA QuietMove ==
    ASSUME IInv, NEW c \in Programs, Moves(c), UNCHANGED disk,
           fresh' \in [Programs -> BOOLEAN],
           \A p \in Programs \ {c} : fresh'[p] => fresh[p],
           Ahead(c)' /\ fresh'[c] => (exists => Readable(file))
    PROVE  IInv'
  BY DEF IInv, ControlInv, Moves, UnreadableIsKept, Ahead, disk

\* A step after which nobody is fresh keeps it too.
LEMMA WritingMove ==
    ASSUME IInv, NEW c \in Programs, Moves(c) \/ UNCHANGED <<pc, job>>,
           fresh' = [p \in Programs |-> FALSE]
    PROVE  IInv'
  BY DEF IInv, ControlInv, Moves, UnreadableIsKept

-----------------------------------------------------------------------------
(* The steps.                                                              *)

\* The steps of the user that begin nothing.
LEMMA IdleStep ==
    ASSUME IInv, UNCHANGED <<exists, file, pc, job, fresh>>
    PROVE  IInv'
  BY DEF IInv, ControlInv, UnreadableIsKept

LEMMA BeginStep ==
    ASSUME IInv, NEW c \in Programs, NEW op \in {"save", "delete", "use"},
           NEW name, NEW target, Begin(c, op, name, target)
    PROVE  IInv'
  BY DEF IInv, ControlInv, UnreadableIsKept, Begin, disk, history

\* Past a load only with a file that could be read, or with none.
LEMMA LoadStep ==
    ASSUME IInv, NEW c \in Programs, Load(c)
    PROVE  IInv'
  <1>1. /\ UNCHANGED disk
        /\ fresh' \in [Programs -> BOOLEAN]
        /\ \A p \in Programs \ {c} : fresh'[p] => fresh[p]
    BY DEF Load, IInv, ControlInv
  <1>2. CASE ~exists \/ Readable(file)
    <2>1. Moves(c)
      BY <1>2, ProceedMoves DEF Load
    <2> QED  BY <1>1, <1>2, <2>1, QuietMove
  <1>3. CASE exists /\ ~Readable(file)
    <2>1. Moves(c) /\ ~Ahead(c)'
      BY <1>3, FinishMoves DEF Load, GiveUp, Ahead
    <2> QED  BY <1>1, <2>1, QuietMove
  <1> QED
    BY <1>2, <1>3

LEMMA LoadNothingStep ==
    ASSUME IInv, NEW c \in Programs, LoadNothing(c)
    PROVE  IInv'
  <1>1. Moves(c)
    BY ProceedMoves DEF LoadNothing
  <1>2. /\ UNCHANGED disk
        /\ fresh' \in [Programs -> BOOLEAN]
        /\ ~fresh'[c]
        /\ \A p \in Programs \ {c} : fresh'[p] => fresh[p]
    BY DEF LoadNothing, IInv, ControlInv
  <1> QED
    BY <1>1, <1>2, QuietMove

\* A program that asked is as fresh as when it loaded.
LEMMA AnswerStep ==
    ASSUME IInv, NEW c \in Programs, Answer(c)
    PROVE  IInv'
  <1>1. Moves(c)
    BY FinishMoves, GotoMoves DEF Answer
  <1>2. UNCHANGED disk /\ UNCHANGED fresh /\ Ahead(c)
    BY DEF Answer, history, Ahead
  <1> QED
    BY <1>1, <1>2, QuietMove DEF IInv, ControlInv, UnreadableIsKept, Ahead

\* Whoever writes takes from all others what they know of the file.
LEMMA WriteStep ==
    ASSUME IInv, NEW c \in Programs, Truncate(c) \/ WriteBlock(c)
    PROVE  IInv'
  <1>1. CASE Truncate(c)
    <2>1. Moves(c)
      BY <1>1, GotoMoves DEF Truncate
    <2> QED  BY <1>1, <2>1, WritingMove DEF Truncate
  <1>2. CASE WriteBlock(c)
    <2>1. Moves(c) \/ UNCHANGED <<pc, job>>
      BY <1>2, FinishMoves, GotoMoves DEF WriteBlock
    <2> QED  BY <1>2, <2>1, WritingMove DEF WriteBlock
  <1> QED
    BY <1>1, <1>2

\* A save that fails or a program that dies goes no further.
LEMMA FailureStep ==
    ASSUME IInv, NEW c \in Programs, CannotOpen(c) \/ DiskFull(c) \/ Crash(c)
    PROVE  IInv'
  <1>1. UNCHANGED disk /\ UNCHANGED fresh
    BY DEF CannotOpen, DiskFull, Crash, history
  <1>2. Moves(c) /\ ~Ahead(c)'
    <2>1. CASE CannotOpen(c) \/ DiskFull(c)
      BY <2>1, FinishMoves DEF CannotOpen, DiskFull, Ahead
    <2>2. CASE Crash(c)
      BY <2>2 DEF Crash, Moves, Ahead, IInv, ControlInv
    <2> QED  BY <2>1, <2>2
  <1> QED
    BY <1>1, <1>2, QuietMove DEF IInv, ControlInv

LEMMA NextIInv == IInv /\ [Next]_vars => IInv'
  <1> SUFFICES ASSUME IInv, [Next]_vars PROVE IInv'
    OBVIOUS
  <1>1. ASSUME NEW d \in Dialogs, EditForm(d) \/ SelectNone(d)
        PROVE  IInv'
    BY <1>1, IdleStep DEF EditForm, SelectNone, disk, program, history
  <1>2. ASSUME NEW d \in Dialogs, SaveAs(d) \/ DeleteSelected(d) \/ Select(d)
        PROVE  IInv'
    BY <1>2, BeginStep DEF SaveAs, DeleteSelected, Select, Programs
  <1>3. ASSUME NEW c \in Runs, StartRun(c)
        PROVE  IInv'
    BY <1>3, BeginStep DEF StartRun, Programs
  <1>4. CASE UNCHANGED vars
    BY <1>4, IdleStep DEF vars, disk, program, history
  <1> QED
    BY <1>1, <1>2, <1>3, <1>4, LoadStep, LoadNothingStep, AnswerStep, WriteStep,
       FailureStep DEF Next

\* No program that found the file unreadable goes on to overwrite it, and none
\* that read it does once somebody has made it unreadable since, as far as it
\* is fresh (remote_dialog and config_parse return when targets_load fails).
THEOREM NoUnreadableFileIsOverwritten == Spec => []UnreadableIsKept
  <1>1. IInv => UnreadableIsKept
    BY DEF IInv
  <1> QED
    BY InitIInv, NextIInv, <1>1, PTL DEF Spec
-----------------------------------------------------------------------------
(* What a dialog saves.  The form agrees with the target it was filled     *)
(* from until the user edits it, and a save under way was begun with the   *)
(* form as it is: nobody edits it while the program loads and writes.      *)

Form(p, n, l, w) == [protocol |-> p, port |-> n, login |-> l, deploy |-> w]

IsForm(fields) == \E p, n, l, w : fields = Form(p, n, l, w)

\* What a form gives is the target it was filled from.
Agrees(given, target) ==
    /\ given.protocol = target.protocol
    /\ given.password = target.password
    /\ target.port > 0 => given.port = target.port

FormInv ==
    /\ DOMAIN form = Dialogs /\ DOMAIN pristine = Dialogs
    /\ \A c \in Programs : pc[c] = "idle" => job[c].op # "save"
    /\ \A d \in Dialogs :
          /\ IsForm(form[d])
          /\ pristine[d] # NoTarget => Agrees(TargetFromFields(form[d]), pristine[d])
          /\ job[d].op = "save" => job[d].target = TargetFromFields(form[d])

SInv == IInv /\ FormInv

LEMMA WithProtocolForm ==
    ASSUME NEW p, NEW n, NEW l, NEW w, NEW x
    PROVE  \E m : WithProtocol(Form(p, n, l, w), x) = Form(x, m, l, w)
  <1>1. CASE x = p
    BY <1>1 DEF WithProtocol, Form
  <1>2. CASE x # p
    <2>1. Form(p, n, l, w).protocol = p
      BY DEF Form
    <2>2. WithProtocol(Form(p, n, l, w), x)
            = [[Form(p, n, l, w) EXCEPT !.protocol = x] EXCEPT !.port = DefaultPort[x]]
      BY <1>2, <2>1, Zenon DEF WithProtocol
    <2>3. [Form(p, n, l, w) EXCEPT !.protocol = x] = Form(x, n, l, w)
      BY DEF Form
    <2>4. [Form(x, n, l, w) EXCEPT !.port = DefaultPort[x]] = Form(x, DefaultPort[x], l, w)
      BY DEF Form
    <2> QED  BY <2>2, <2>3, <2>4, Zenon
  <1> QED
    BY <1>1, <1>2

\* The protocol comes before the port, which setting it would reset.
LEMMA ApplyTargetAgrees ==
    ASSUME NEW fields, IsForm(fields), NEW target
    PROVE  /\ IsForm(ApplyTarget(fields, target))
           /\ Agrees(TargetFromFields(ApplyTarget(fields, target)), target)
  <1>1. PICK p, n, l, w : fields = Form(p, n, l, w)
    BY DEF IsForm
  <1> DEFINE to == target.protocol
             pw == target.password
  <1>2. PICK m : WithProtocol(fields, to) = Form(to, m, l, w)
    BY <1>1, WithProtocolForm
  <1>3. ASSUME NEW x, NEW y, WithPassword(Form(to, m, l, w), target) = Form(to, m, x, y)
        PROVE  \E q : /\ ApplyTarget(fields, target) = Form(to, q, x, y)
                      /\ target.port > 0 => q = target.port
    <2>1. ApplyTarget(fields, target) = WithPort(Form(to, m, x, y), target)
      BY <1>2, <1>3 DEF ApplyTarget
    <2>2. CASE target.port > 0
      <3>1. [Form(to, m, x, y) EXCEPT !.port = target.port] = Form(to, target.port, x, y)
        BY DEF Form
      <3> QED  BY <2>1, <2>2, <3>1, Zenon DEF WithPort
    <2>3. CASE ~(target.port > 0)
      BY <2>1, <2>3, Zenon DEF WithPort
    <2> QED  BY <2>2, <2>3
  <1>4. CASE LoginPage(to)
    <2>1. WithPassword(Form(to, m, l, w), target) = Form(to, m, pw, w)
      <3>1. [Form(to, m, l, w) EXCEPT !.login = pw] = Form(to, m, pw, w)
        BY DEF Form
      <3> QED  BY <1>4, <3>1, Zenon DEF WithPassword
    <2>2. PICK q : /\ ApplyTarget(fields, target) = Form(to, q, pw, w)
                   /\ target.port > 0 => q = target.port
      BY <1>3, <2>1
    <2>3. TargetFromFields(Form(to, q, pw, w))
             = [protocol |-> to, port |-> q, password |-> pw]
      BY <1>4 DEF Form, TargetFromFields
    <2> QED  BY <2>2, <2>3 DEF IsForm, Agrees
  <1>5. CASE ~LoginPage(to)
    <2>1. WithPassword(Form(to, m, l, w), target) = Form(to, m, l, pw)
      <3>1. [Form(to, m, l, w) EXCEPT !.deploy = pw] = Form(to, m, l, pw)
        BY DEF Form
      <3> QED  BY <1>5, <3>1, Zenon DEF WithPassword
    <2>2. PICK q : /\ ApplyTarget(fields, target) = Form(to, q, l, pw)
                   /\ target.port > 0 => q = target.port
      BY <1>3, <2>1
    <2>3. TargetFromFields(Form(to, q, l, pw))
             = [protocol |-> to, port |-> q, password |-> pw]
      BY <1>5 DEF Form, TargetFromFields
    <2> QED  BY <2>2, <2>3 DEF IsForm, Agrees
  <1> QED
    BY <1>4, <1>5

LEMMA EmptyFormIsForm == IsForm(EmptyForm)
  <1>1. \E p : EmptyForm = Form(p, DefaultPort[p], "", "")
    BY DEF EmptyForm, Form
  <1> QED
    BY <1>1 DEF IsForm

LEMMA InitFormInv == Init => FormInv
  <1> SUFFICES ASSUME Init PROVE FormInv
    OBVIOUS
  <1>1. \A d \in Dialogs : IsForm(form[d]) /\ pristine[d] = NoTarget
    BY EmptyFormIsForm DEF Init
  <1>2. \A c \in Programs : job[c].op # "save"
    BY DEF Init, Idle
  <1>3. DOMAIN form = Dialogs /\ DOMAIN pristine = Dialogs
    BY DEF Init
  <1> QED
    BY <1>1, <1>2, <1>3 DEF FormInv, Programs

\* c goes on with its operation or ends it, with the form as it is.
Carries(c) ==
    /\ UNCHANGED <<form, pristine>>
    /\ \A p \in Programs \ {c} : pc'[p] = pc[p] /\ job'[p] = job[p]
    /\ job'[c] = Idle \/ (job'[c] = job[c] /\ pc'[c] # "idle")

LEMMA CarriesKeepsForm ==
    ASSUME SInv, NEW c \in Programs, Carries(c)
    PROVE  FormInv'
  BY DEF SInv, FormInv, Carries, Idle, Programs

LEMMA FinishCarries ==
    ASSUME SInv, NEW c \in Programs, Finish(c), UNCHANGED <<form, pristine>>
    PROVE  Carries(c)
  BY DEF SInv, IInv, ControlInv, Finish, Carries

LEMMA GotoCarries ==
    ASSUME SInv, NEW c \in Programs, NEW where, where # "idle", NEW entries,
           Goto(c, where, entries), UNCHANGED <<form, pristine>>
    PROVE  Carries(c)
  BY DEF SInv, IInv, ControlInv, Goto, Carries

\* The form is filled from a target, and the operation is over.
LEMMA UseKeepsForm ==
    ASSUME SInv, NEW c \in Programs, NEW entries, Use(c, entries)
    PROVE  FormInv'
  <1>1. CASE UNCHANGED <<form, pristine>>
    BY <1>1, FinishCarries, CarriesKeepsForm DEF Use
  <1>2. CASE c \in Dialogs /\ Positions(entries, job[c].name) # {}
    <2> DEFINE target == Find(entries, job[c].name).target
    <2>1. /\ form' = [form EXCEPT ![c] = ApplyTarget(@, target)]
          /\ pristine' = [pristine EXCEPT ![c] = target]
          /\ job'[c] = Idle
          /\ \A p \in Programs \ {c} : pc'[p] = pc[p] /\ job'[p] = job[p]
      BY <1>2 DEF Use, Finish, SInv, IInv, ControlInv
    <2>2. /\ IsForm(ApplyTarget(form[c], target))
          /\ Agrees(TargetFromFields(ApplyTarget(form[c], target)), target)
      BY <1>2, ApplyTargetAgrees DEF SInv, FormInv
    <2> HIDE DEF target
    <2> QED  BY <1>2, <2>1, <2>2 DEF SInv, FormInv, Idle, Programs
  <1> QED
    BY <1>1, <1>2 DEF Use

LEMMA ProceedKeepsForm ==
    ASSUME SInv, NEW c \in Programs, pc[c] \in {"load", "reload"}, NEW entries,
           Proceed(c, entries)
    PROVE  FormInv'
  <1>1. CASE pc[c] = "reload"
    BY <1>1, FinishCarries, CarriesKeepsForm DEF Proceed
  <1>2. CASE pc[c] = "load" /\ job[c].op = "use"
    BY <1>2, UseKeepsForm DEF Proceed
  <1>3. CASE pc[c] = "load" /\ job[c].op = "save"
    <2>1. /\ \/ Goto(c, "confirm", entries)
             \/ Goto(c, "open", Upsert(entries, Entry(c)))
          /\ UNCHANGED <<form, pristine>>
      BY <1>3 DEF Proceed, dialog
    <2> QED  BY <2>1, GotoCarries, CarriesKeepsForm
  <1>4. CASE pc[c] = "load" /\ job[c].op = "delete"
    <2>1. /\ Finish(c) \/ Goto(c, "open", Without(entries, job[c].name))
          /\ UNCHANGED <<form, pristine>>
      BY <1>4 DEF Proceed, dialog, Programs
    <2> QED  BY <2>1, FinishCarries, GotoCarries, CarriesKeepsForm
  <1> QED
    BY <1>1, <1>2, <1>3, <1>4 DEF SInv, IInv, ControlInv

LEMMA LoadKeepsForm ==
    ASSUME SInv, NEW c \in Programs, Load(c) \/ LoadNothing(c)
    PROVE  FormInv'
  <1>1. CASE GiveUp(c)
    BY <1>1, FinishCarries, CarriesKeepsForm DEF GiveUp
  <1>2. CASE \E entries : Proceed(c, entries)
    BY <1>2, ProceedKeepsForm DEF Load, LoadNothing
  <1> QED
    BY <1>1, <1>2 DEF Load, LoadNothing

\* Asking, writing and failing leave the form alone.
LEMMA WritingKeepsForm ==
    ASSUME SInv, NEW c \in Programs,
           \/ Answer(c) \/ Truncate(c) \/ CannotOpen(c)
           \/ WriteBlock(c) \/ DiskFull(c)
    PROVE  FormInv'
  <1>1. UNCHANGED <<form, pristine>>
    BY DEF Answer, Truncate, CannotOpen, WriteBlock, DiskFull, dialog, history
  <1>2. CASE Finish(c)
    BY <1>1, <1>2, FinishCarries, CarriesKeepsForm
  <1>3. CASE \E where, entries : where # "idle" /\ Goto(c, where, entries)
    BY <1>1, <1>3, GotoCarries, CarriesKeepsForm
  <1>4. CASE UNCHANGED <<pc, job>>
    BY <1>1, <1>4 DEF SInv, FormInv
  <1>5. Answer(c) => <1>2!1 \/ <1>3!1
    BY DEF Answer
  <1>6. Truncate(c) => <1>3!1
    BY DEF Truncate
  <1>7. WriteBlock(c) => <1>2!1 \/ <1>3!1 \/ <1>4!1
    BY DEF WriteBlock
  <1> QED
    BY <1>2, <1>3, <1>4, <1>5, <1>6, <1>7 DEF CannotOpen, DiskFull

\* A dialog opened again has the form it comes up with.
LEMMA CrashKeepsForm ==
    ASSUME SInv, NEW c \in Programs, Crash(c)
    PROVE  FormInv'
  <1>1. /\ form' = [d \in Dialogs |-> IF d = c THEN EmptyForm ELSE form[d]]
        /\ pristine' = [d \in Dialogs |-> IF d = c THEN NoTarget ELSE pristine[d]]
        /\ job'[c] = Idle
        /\ \A p \in Programs \ {c} : pc'[p] = pc[p] /\ job'[p] = job[p]
    BY DEF Crash, SInv, IInv, ControlInv
  <1> QED
    BY <1>1, EmptyFormIsForm DEF SInv, FormInv, Idle, Programs

\* A dialog begins a save with its form; a run of the CLI has none.
LEMMA BeginKeepsForm ==
    ASSUME SInv, NEW c \in Programs, NEW op, NEW name, NEW target,
           Begin(c, op, name, target),
           c \in Dialogs /\ op = "save" => target = TargetFromFields(form[c])
    PROVE  FormInv'
  <1>1. /\ UNCHANGED <<form, pristine>>
        /\ pc'[c] = "load"
        /\ job'[c] = [op |-> op, name |-> name, target |-> target]
        /\ \A p \in Programs \ {c} : pc'[p] = pc[p] /\ job'[p] = job[p]
    BY DEF Begin, history, SInv, IInv, ControlInv
  <1> QED
    BY <1>1 DEF SInv, FormInv, Programs

\* The user edits the form only while the dialog is idle.
LEMMA EditKeepsForm ==
    ASSUME SInv, NEW d \in Dialogs, EditForm(d)
    PROVE  FormInv'
  <1>1. /\ pc[d] = "idle"
        /\ UNCHANGED <<pc, job>>
        /\ pristine' = [pristine EXCEPT ![d] = NoTarget]
    BY DEF EditForm, program
  <1>2. PICK p, n, l, w : form[d] = Form(p, n, l, w)
    BY DEF SInv, FormInv, IsForm
  <1> DEFINE fields == Form(p, n, l, w)
  <1>3. \A x : /\ IsForm(WithProtocol(fields, x))
               /\ IsForm([fields EXCEPT !.port = x])
               /\ IsForm([fields EXCEPT !.login = x])
               /\ IsForm([fields EXCEPT !.deploy = x])
    <2> TAKE x
    <2>1. IsForm(WithProtocol(fields, x))
      BY WithProtocolForm DEF IsForm
    <2>2. [fields EXCEPT !.port = x] = Form(p, x, l, w)
      BY DEF Form
    <2>3. [fields EXCEPT !.login = x] = Form(p, n, x, w)
      BY DEF Form
    <2>4. [fields EXCEPT !.deploy = x] = Form(p, n, l, x)
      BY DEF Form
    <2>5. IsForm(Form(p, x, l, w)) /\ IsForm(Form(p, n, x, w)) /\ IsForm(Form(p, n, l, x))
      BY DEF IsForm
    <2> QED  BY <2>1, <2>2, <2>3, <2>4, <2>5, Zenon
  <1>4. \E new : IsForm(new) /\ form' = [form EXCEPT ![d] = new]
    <2>1. form[d] = fields
      BY <1>2
    <2> HIDE DEF fields
    <2>2. \/ \E x : form' = [form EXCEPT ![d] = WithProtocol(form[d], x)]
          \/ \E x : form' = [form EXCEPT ![d] = [form[d] EXCEPT !.port = x]]
          \/ \E x : form' = [form EXCEPT ![d] = [form[d] EXCEPT !.login = x]]
          \/ \E x : form' = [form EXCEPT ![d] = [form[d] EXCEPT !.deploy = x]]
      BY Zenon DEF EditForm
    <2> QED  BY <1>3, <2>1, <2>2, Zenon
  <1> QED
    BY <1>1, <1>4 DEF SInv, FormInv, Programs

LEMMA NextSInv == SInv /\ [Next]_vars => SInv'
  <1> SUFFICES ASSUME SInv, [Next]_vars PROVE FormInv'
    BY NextIInv DEF SInv
  <1>1. ASSUME NEW d \in Dialogs, SaveAs(d) \/ DeleteSelected(d) \/ Select(d)
        PROVE  FormInv'
    BY <1>1, BeginKeepsForm DEF SaveAs, DeleteSelected, Select, Programs
  <1>2. ASSUME NEW c \in Runs, StartRun(c)
        PROVE  FormInv'
    <2>1. c \in Programs /\ c \notin Dialogs
      BY SavedTargetsAssumption DEF Programs
    <2> QED  BY <1>2, <2>1, BeginKeepsForm DEF StartRun
  <1>3. ASSUME NEW d \in Dialogs, SelectNone(d)
        PROVE  FormInv'
    BY <1>3 DEF SelectNone, program, history, SInv, FormInv
  <1>4. CASE UNCHANGED vars
    BY <1>4 DEF vars, program, dialog, history, SInv, FormInv
  <1> QED
    BY <1>1, <1>2, <1>3, <1>4, EditKeepsForm, LoadKeepsForm, WritingKeepsForm,
       CrashKeepsForm DEF Next

\* What a dialog saves from a form nobody edited since it was filled is the
\* target it was filled from, whatever that target is and whatever fails
\* meanwhile (applyTarget sets the protocol before the port, and both pages
\* write the field targetFromCurrentFields reads).
THEOREM WhatWasAppliedIsSaved == Spec => []SavingAgainChangesNothing
  <1>1. Init => SInv
    BY InitIInv, InitFormInv DEF SInv
  <1>2. SInv => SavingAgainChangesNothing
    BY DEF SInv, FormInv, Agrees, SavingAgainChangesNothing
  <1> QED
    BY <1>1, <1>2, NextSInv, PTL DEF Spec

-----------------------------------------------------------------------------
(* Induction, and how names are written and read.                          *)

\* Induction over the numbers.
LEMMA Induction ==
    ASSUME NEW T, 0 \in T, \A n \in T : n + 1 \in T
    PROVE  Nat \subseteq T
  <1> DEFINE R == {p \in Nat \X Nat : p[1] < p[2]}
             Rest == Nat \ T
  <1>1. IsWellFoundedOn(R, Nat)
    BY NatLessThanWellFounded DEF OpToRel
  <1>2. SUFFICES ASSUME Rest # {} PROVE FALSE
    OBVIOUS
  <1>3. PICK x \in Rest : \A y \in Rest : ~ (<<y, x>> \in R)
    <2> HIDE DEF R
    <2> QED
      BY <1>1, <1>2, WFMin
  <1>4. x \in Nat /\ x \notin T /\ x # 0
    BY <1>3
  <1>5. x - 1 \in Nat /\ <<x - 1, x>> \in R
    BY <1>4
  <1>6. x - 1 \notin Rest
    BY <1>3, <1>5
  <1>7. x - 1 \in T /\ (x - 1) + 1 = x
    BY <1>4, <1>5, <1>6
  <1> QED
    BY <1>4, <1>7

\* What is computed from n - 1 for n is a function on the numbers up to any N.
Iterates(f, N, a, G) ==
    f = [n \in 0 .. N |-> IF n = 0 THEN a ELSE G[<<f[n - 1], n>>]]

\* A recursive function on 0 .. N satisfies its equation.
LEMMA Iteration ==
    ASSUME NEW S, NEW a \in S, NEW G \in [S \X Nat -> S], NEW N \in Nat
    PROVE  \E f \in [0 .. N -> S] : Iterates(f, N, a, G)
  <1> DEFINE T == {n \in Nat : \E f \in [0 .. n -> S] : Iterates(f, n, a, G)}
  <1>1. 0 \in T
    <2> DEFINE f == [n \in 0 .. 0 |-> a]
    <2>1. f = [n \in 0 .. 0 |-> IF n = 0 THEN a ELSE G[<<f[n - 1], n>>]]
      OBVIOUS
    <2>2. f \in [0 .. 0 -> S]
      OBVIOUS
    <2> HIDE DEF f
    <2> QED  BY <2>1, <2>2 DEF Iterates
  <1>2. ASSUME NEW m \in T
        PROVE  m + 1 \in T
    <2>1. PICK f \in [0 .. m -> S] : Iterates(f, m, a, G)
      OBVIOUS
    <2> DEFINE g == [n \in 0 .. m + 1 |-> IF n <= m THEN f[n] ELSE G[<<f[m], m + 1>>]]
    <2>2. G[<<f[m], m + 1>>] \in S
      OBVIOUS
    <2>3. g \in [0 .. m + 1 -> S]
      BY <2>2
    <2>4. \A n \in 0 .. m : g[n] = f[n] /\ f[n] = IF n = 0 THEN a ELSE G[<<f[n - 1], n>>]
      BY <2>1 DEF Iterates
    <2>5. g[m + 1] = G[<<g[m], m + 1>>]
      <3>1. m \in 0 .. m /\ m + 1 \in 0 .. m + 1 /\ ~(m + 1 <= m)
        OBVIOUS
      <3> QED  BY <2>4, <3>1
    <2>6. ASSUME NEW n \in 0 .. m + 1
          PROVE  g[n] = IF n = 0 THEN a ELSE G[<<g[n - 1], n>>]
      <3>1. CASE n = m + 1
        BY <2>5, <3>1
      <3>2. CASE n # m + 1
        <4>1. n \in 0 .. m /\ (n # 0 => n - 1 \in 0 .. m)
          BY <3>2
        <4> HIDE DEF g
        <4> QED  BY <2>4, <4>1
      <3> QED  BY <3>1, <3>2
    <2>7. g = [n \in 0 .. m + 1 |-> g[n]]
      OBVIOUS
    <2> HIDE DEF g
    <2>8. Iterates(g, m + 1, a, G)
      BY <2>6, <2>7 DEF Iterates
    <2> QED  BY <2>3, <2>8
  <1> HIDE DEF T
  <1>3. Nat \subseteq T
    BY <1>1, <1>2, Induction
  <1> QED
    BY <1>3 DEF T

-----------------------------------------------------------------------------
(* Strings: what json_write_string writes, json_read_string reads.         *)

\* What a name is made of, and what it is written with.
Chars == STRING \ {"ESC"}
\* What a string is written with.
Bytes == Chars \cup {DQ, BS, "n", "r", "t"}

\* A character is written as itself, or as a backslash and a letter.
LEMMA EscapeIs ==
    ASSUME NEW c \in Chars
    PROVE  \/ /\ Escape(c) = <<c>>
              /\ c # DQ /\ c # BS
           \/ \E x \in Bytes : Escape(c) = <<BS, x>> /\ Unescape(x) = c
  <1>1. /\ DOMAIN Letters = {"LF", "CR", "TAB"}
        /\ Letters["LF"] = "n" /\ Letters["CR"] = "r" /\ Letters["TAB"] = "t"
    BY DEF Letters
  <1>2. CASE c \in {DQ, BS}
    <2>1. c \notin DOMAIN Letters /\ c # "ESC"
      BY <1>1, <1>2 DEF DQ, BS
    <2>2. Escape(c) = <<BS, c>>
      BY <1>2, <2>1, Zenon DEF Escape
    <2>3. ~ \E d \in DOMAIN Letters : Letters[d] = c
      BY <1>1, <1>2 DEF DQ, BS
    <2>4. Unescape(c) = c
      BY <2>3, Zenon DEF Unescape
    <2> QED  BY <2>2, <2>4 DEF Bytes
  <1>3. CASE c \in DOMAIN Letters
    <2>1. c \notin {DQ, BS} /\ c # "ESC"
      BY <1>1, <1>3 DEF DQ, BS
    <2>2. Escape(c) = <<BS, Letters[c]>>
      BY <1>3, <2>1, Zenon DEF Escape
    <2>3. \A d \in DOMAIN Letters : Letters[d] = Letters[c] => d = c
      BY <1>1, <1>3
    <2>4. Unescape(Letters[c]) = c
      BY <1>3, <2>3 DEF Unescape
    <2>5. Letters[c] \in Bytes
      BY <1>1, <1>3 DEF Bytes
    <2> QED  BY <2>2, <2>4, <2>5
  <1>4. CASE c \notin {DQ, BS} /\ c \notin DOMAIN Letters
    <2>1. c # "ESC"
      BY DEF Chars
    <2>2. Escape(c) = <<c>>
      BY <1>4, <2>1, Zenon DEF Escape
    <2> QED  BY <1>4, <2>2
  <1> QED
    BY <1>2, <1>3, <1>4

LEMMA EscapeType ==
    ASSUME NEW c \in Chars
    PROVE  Escape(c) \in Seq(Bytes) /\ (Len(Escape(c)) = 1 \/ Len(Escape(c)) = 2)
  <1>1. BS \in Bytes /\ c \in Bytes
    BY DEF Bytes
  <1>2. \A x \in Bytes : /\ <<x>> \in Seq(Bytes) /\ <<BS, x>> \in Seq(Bytes)
                         /\ Len(<<x>>) = 1 /\ Len(<<BS, x>>) = 2
    BY <1>1
  <1> QED
    BY <1>1, <1>2, EscapeIs

\* W has what is written of the text, up to each of its characters.
Writes(W, text) ==
    W = [n \in 0 .. Len(text) |->
            IF n = 0 THEN <<DQ>> ELSE W[n - 1] \o Escape(text[n])]

\* What json_write_string writes: a quote, the escapes, a quote.
LEMMA WriteStringIs ==
    ASSUME NEW text \in Seq(Chars)
    PROVE  \E W : Writes(W, text) /\ WriteString(text) = W[Len(text)] \o <<DQ>>
  <1> DEFINE N == Len(text)
             S == Seq(Bytes)
             G == [p \in S \X Nat |->
                      IF p[2] \in DOMAIN text THEN p[1] \o Escape(text[p[2]]) ELSE p[1]]
  <1>1. \A n \in DOMAIN text : Escape(text[n]) \in S
    <2> TAKE n \in DOMAIN text
    <2>1. text[n] \in Chars
      OBVIOUS
    <2> QED  BY <2>1, EscapeType
  <1>2. \A p \in S \X Nat :
           (IF p[2] \in DOMAIN text THEN p[1] \o Escape(text[p[2]]) ELSE p[1]) \in S
    <2> TAKE p \in S \X Nat
    <2>1. p[1] \in Seq(Bytes)
      OBVIOUS
    <2>2. CASE p[2] \in DOMAIN text
      <3>1. Escape(text[p[2]]) \in Seq(Bytes)
        BY <1>1, <2>2
      <3> QED  BY <2>1, <2>2, <3>1
    <2> QED  BY <2>1, <2>2
  <1>3. G \in [S \X Nat -> S]
    BY <1>2
  <1>4. <<DQ>> \in S
    BY DEF Bytes
  <1>5. N \in Nat /\ DOMAIN text = 1 .. N
    OBVIOUS
  <1>6. PICK f \in [0 .. N -> S] : Iterates(f, N, <<DQ>>, G)
    <2> HIDE DEF G, S
    <2> QED  BY <1>3, <1>4, <1>5, Iteration
  <1>7. \A n \in 0 .. N : f[n] = IF n = 0 THEN <<DQ>> ELSE f[n - 1] \o Escape(text[n])
    <2> TAKE n \in 0 .. N
    <2>1. f[n] = IF n = 0 THEN <<DQ>> ELSE G[<<f[n - 1], n>>]
      <3> HIDE DEF G
      <3> QED  BY <1>6 DEF Iterates
    <2>2. CASE n # 0
      <3>1. n \in DOMAIN text /\ n - 1 \in 0 .. N /\ n \in Nat
        BY <2>2, <1>5
      <3>2. f[n - 1] \in S
        BY <3>1
      <3>3. G[<<f[n - 1], n>>] = f[n - 1] \o Escape(text[n])
        BY <3>1, <3>2
      <3> QED  BY <2>1, <2>2, <3>3
    <2> QED  BY <2>1, <2>2
  <1>8. Writes(f, text)
    <2>1. f = [n \in 0 .. N |-> f[n]]
      OBVIOUS
    <2> QED  BY <1>7, <2>1, Zenon DEF Writes
  <1>9. WriteString(text) = (CHOOSE W : Writes(W, text))[N] \o <<DQ>>
    BY DEF WriteString, Writes
  <1> HIDE DEF N
  <1> QED
    BY <1>8, <1>9 DEF N

\* One is the beginning of the other.
Prefix(s, t) == Len(s) <= Len(t) /\ \A i \in 1 .. Len(s) : s[i] = t[i]

\* What is written of a name grows with it, by the escape of a character.
LEMMA WritesPrefixes ==
    ASSUME NEW text \in Seq(Chars), NEW W, Writes(W, text)
    PROVE  /\ \A n \in 0 .. Len(text) : W[n] \in Seq(Bytes)
           /\ W[0] = <<DQ>>
           /\ \A n \in 1 .. Len(text) : W[n] = W[n - 1] \o Escape(text[n])
           /\ \A n \in 0 .. Len(text) : Prefix(W[n], W[Len(text)])
  <1> DEFINE N == Len(text)
  <1>1. N \in Nat /\ DOMAIN text = 1 .. N
    OBVIOUS
  <1>2. W[0] = <<DQ>> /\ \A n \in 1 .. N : W[n] = W[n - 1] \o Escape(text[n])
    BY <1>1 DEF Writes
  <1>3. \A n \in 1 .. N : Escape(text[n]) \in Seq(Bytes)
    <2> TAKE n \in 1 .. N
    <2>1. text[n] \in Chars
      OBVIOUS
    <2> QED  BY <2>1, EscapeType
  <1> DEFINE T == {m \in Nat : m <= N => /\ W[m] \in Seq(Bytes)
                                         /\ \A n \in 0 .. m : Prefix(W[n], W[m])}
  <1> HIDE DEF N
  <1>4. 0 \in T
    <2>1. <<DQ>> \in Seq(Bytes)
      BY DEF Bytes
    <2>2. \A n \in 0 .. 0 : n = 0
      OBVIOUS
    <2>3. Prefix(<<DQ>>, <<DQ>>)
      BY DEF Prefix
    <2> QED  BY <1>2, <2>1, <2>2, <2>3
  <1>5. ASSUME NEW m \in T
        PROVE  m + 1 \in T
    <2> SUFFICES ASSUME m + 1 <= N
                 PROVE  /\ W[m + 1] \in Seq(Bytes)
                        /\ \A n \in 0 .. m + 1 : Prefix(W[n], W[m + 1])
      OBVIOUS
    <2>1. m \in Nat /\ m <= N /\ m + 1 \in 1 .. N /\ (m + 1) - 1 = m
      BY <1>1
    <2>2. W[m + 1] = W[m] \o Escape(text[m + 1]) /\ Escape(text[m + 1]) \in Seq(Bytes)
      BY <1>2, <1>3, <2>1
    <2>3. W[m] \in Seq(Bytes) /\ \A n \in 0 .. m : Prefix(W[n], W[m])
      BY <2>1
    <2>4. W[m + 1] \in Seq(Bytes) /\ Prefix(W[m], W[m + 1]) /\ Prefix(W[m + 1], W[m + 1])
      <3> DEFINE w == W[m]
                 e == Escape(text[m + 1])
      <3>1. w \in Seq(Bytes) /\ e \in Seq(Bytes)
        BY <2>2, <2>3
      <3> HIDE DEF w, e
      <3>2. w \o e \in Seq(Bytes) /\ Prefix(w, w \o e) /\ Prefix(w \o e, w \o e)
        BY <3>1 DEF Prefix
      <3> QED  BY <2>2, <3>2 DEF w, e
    <2> DEFINE Fine(n) == W[n] \in Seq(Bytes)
    <2>5. ASSUME NEW n \in 0 .. m
          PROVE  Prefix(W[n], W[m + 1])
      <3>1. Prefix(W[n], W[m])
        BY <2>3
      <3>2. Len(W[m]) \in Nat /\ Len(W[m + 1]) \in Nat
        BY <2>3, <2>4
      <3> QED  BY <2>4, <3>1, <3>2 DEF Prefix
    <2> QED  BY <2>1, <2>4, <2>5
  <1>6. Nat \subseteq T
    <2> HIDE DEF T
    <2> QED  BY <1>4, <1>5, Induction
  <1>7. \A m \in 0 .. N : m \in T
    BY <1>1, <1>6
  <1> QED
    BY <1>1, <1>2, <1>7 DEF N

LEMMA TurnFields ==
    ASSUME NEW t, NEW s, NEW n
    PROVE  Turn(t, s, n).text = t /\ Turn(t, s, n).state = s /\ Turn(t, s, n).next = n
  BY DEF Turn

\* A turn, by the state it finds.
LEMMA ReadByteIs ==
    ASSUME NEW t, NEW b, NEW at, NEW size
    PROVE  /\ ReadByte(Turn(t, "escaped", 0), b, at, size) = Turn(Append(t, Unescape(b)), "open", 0)
           /\ ReadByte(Turn(t, "open", 0), DQ, at, size) = Turn(t, "closed", at + 1)
           /\ at < size => ReadByte(Turn(t, "open", 0), BS, at, size) = Turn(t, "escaped", 0)
           /\ b # DQ /\ b # BS =>
                 ReadByte(Turn(t, "open", 0), b, at, size) = Turn(Append(t, b), "open", 0)
  <1> DEFINE w == Turn(t, "open", 0)
             e == Turn(t, "escaped", 0)
  <1>1. w.text = t /\ w.state = "open" /\ e.text = t /\ e.state = "escaped"
    BY TurnFields
  <1>2. DQ # BS
    BY DEF DQ, BS
  <1> HIDE DEF w, e
  <1>3. ReadByte(e, b, at, size) = Turn(Append(t, Unescape(b)), "open", 0)
    BY <1>1, Zenon DEF ReadByte
  <1>4. ReadByte(w, DQ, at, size) = Turn(t, "closed", at + 1)
    BY <1>1, <1>2, Zenon DEF ReadByte
  <1>5. at < size => ReadByte(w, BS, at, size) = e
    BY <1>1, <1>2, Zenon DEF ReadByte, e
  <1>6. b # DQ /\ b # BS => ReadByte(w, b, at, size) = Turn(Append(t, b), "open", 0)
    BY <1>1, Zenon DEF ReadByte
  <1> QED
    BY <1>3, <1>4, <1>5, <1>6 DEF w, e

\* R has what is read of the bytes, up to each of them.
Reads(R, bytes) ==
    R = [n \in 0 .. Len(bytes) - 1 |->
            IF n = 0 THEN Turn(<<>>, "open", 0)
            ELSE ReadByte(R[n - 1], bytes[n + 1], n + 1, Len(bytes))]

\* What turns of json_read_string leave.
Turns == [text : Seq(Bytes \cup {Unescape(b) : b \in Bytes}), state : {"open", "escaped", "closed"}, next : Nat]

LEMMA ReadByteType ==
    ASSUME NEW was \in Turns, NEW b \in Bytes, NEW at \in Nat, NEW size
    PROVE  ReadByte(was, b, at, size) \in Turns
  <1> DEFINE C == Bytes \cup {Unescape(x) : x \in Bytes}
  <1>1. was.text \in Seq(C) /\ was.state \in {"open", "escaped", "closed"} /\ was.next \in Nat
    BY DEF Turns
  <1>2. b \in C /\ Unescape(b) \in C
    OBVIOUS
  <1>3. Append(was.text, b) \in Seq(C) /\ Append(was.text, Unescape(b)) \in Seq(C)
    <2> HIDE DEF C
    <2> QED  BY <1>1, <1>2
  <1>4. \A t \in Seq(C), s \in {"open", "escaped", "closed"}, n \in Nat : Turn(t, s, n) \in Turns
    BY DEF Turns, Turn
  <1>5. at + 1 \in Nat
    OBVIOUS
  <1> HIDE DEF C
  <1> QED
    BY <1>1, <1>3, <1>4, <1>5, Zenon DEF ReadByte

\* json_read_string goes from turn to turn.
LEMMA ReadStringIs ==
    ASSUME NEW bytes \in Seq(Bytes), bytes # <<>>, NEW size \in Nat
    PROVE  \E R : /\ Reads(R, bytes)
                  /\ LET read == R[Len(bytes) - 1]
                         kept  == IF Len(read.text) < size - 1 THEN Len(read.text) ELSE size - 1
                     IN  ReadString(bytes, size)
                            = [text |-> SubSeq(read.text, 1, kept), next |-> read.next]
  <1> DEFINE N == Len(bytes) - 1
             a == Turn(<<>>, "open", 0)
             G == [p \in Turns \X Nat |->
                      IF p[2] + 1 \in DOMAIN bytes
                      THEN ReadByte(p[1], bytes[p[2] + 1], p[2] + 1, Len(bytes)) ELSE p[1]]
  <1>1. Len(bytes) \in Nat /\ N \in Nat /\ DOMAIN bytes = 1 .. Len(bytes)
    OBVIOUS
  <1>2. \A p \in Turns \X Nat :
           (IF p[2] + 1 \in DOMAIN bytes
            THEN ReadByte(p[1], bytes[p[2] + 1], p[2] + 1, Len(bytes)) ELSE p[1]) \in Turns
    <2> TAKE p \in Turns \X Nat
    <2>1. p[1] \in Turns /\ p[2] + 1 \in Nat
      OBVIOUS
    <2>2. CASE p[2] + 1 \in DOMAIN bytes
      <3>1. bytes[p[2] + 1] \in Bytes
        BY <2>2
      <3> QED  BY <2>1, <2>2, <3>1, ReadByteType
    <2> QED  BY <2>1, <2>2
  <1>3. G \in [Turns \X Nat -> Turns]
    BY <1>2
  <1>4. a \in Turns
    BY DEF Turns, Turn
  <1>6. PICK f \in [0 .. N -> Turns] : Iterates(f, N, a, G)
    <2> HIDE DEF G, a, N
    <2> QED  BY <1>1, <1>3, <1>4, Iteration
  <1>7. \A n \in 0 .. N : f[n] = IF n = 0 THEN a
                                 ELSE ReadByte(f[n - 1], bytes[n + 1], n + 1, Len(bytes))
    <2> TAKE n \in 0 .. N
    <2>1. f[n] = IF n = 0 THEN a ELSE G[<<f[n - 1], n>>]
      <3> HIDE DEF G, a
      <3> QED  BY <1>6 DEF Iterates
    <2>2. CASE n # 0
      <3>1. n + 1 \in DOMAIN bytes /\ n - 1 \in 0 .. N /\ n \in Nat
        BY <2>2, <1>1
      <3>2. f[n - 1] \in Turns
        BY <3>1
      <3>3. G[<<f[n - 1], n>>] = ReadByte(f[n - 1], bytes[n + 1], n + 1, Len(bytes))
        BY <3>1, <3>2
      <3> QED  BY <2>1, <2>2, <3>3
    <2> QED  BY <2>1, <2>2
  <1>8. Reads(f, bytes)
    <2>1. f = [n \in 0 .. N |-> f[n]]
      OBVIOUS
    <2> QED  BY <1>7, <2>1, Zenon DEF Reads
  <1>9. LET read == (CHOOSE R : Reads(R, bytes))[Len(bytes) - 1]
            kept  == IF Len(read.text) < size - 1 THEN Len(read.text) ELSE size - 1
        IN  ReadString(bytes, size) = [text |-> SubSeq(read.text, 1, kept), next |-> read.next]
    BY DEF ReadString, Reads, Turn
  <1> HIDE DEF N
  <1> QED
    BY <1>8, <1>9

\* The bytes after some part of the text and before the rest of it.
LEMMA StringRoundTrip ==
    ASSUME NEW text \in Seq(Chars), NEW size \in Nat, Len(text) < size
    PROVE  /\ WriteString(text) \in Seq(Bytes)
           /\ ReadString(WriteString(text), size)
                 = [text |-> text, next |-> Len(WriteString(text)) + 1]
  <1> DEFINE N == Len(text)
             bytes == WriteString(text)
  <1>1. PICK W : Writes(W, text) /\ bytes = W[N] \o <<DQ>>
    BY WriteStringIs
  <1>2. /\ N \in Nat /\ DOMAIN text = 1 .. N
        /\ \A n \in 0 .. N : W[n] \in Seq(Bytes) /\ Prefix(W[n], W[N])
        /\ W[0] = <<DQ>>
        /\ \A n \in 1 .. N : W[n] = W[n - 1] \o Escape(text[n])
    <2>1. N \in Nat /\ DOMAIN text = 1 .. N
      OBVIOUS
    <2> QED  BY <1>1, <2>1, WritesPrefixes
  <1> DEFINE w == W[N]
             M == Len(w)
  <1>3. w \in Seq(Bytes) /\ M \in Nat
    BY <1>2
  <1> HIDE DEF N, w, bytes
  <1>4. /\ bytes \in Seq(Bytes) /\ Len(bytes) = M + 1 /\ bytes[M + 1] = DQ
        /\ \A i \in 1 .. M : bytes[i] = w[i]
    <2>1. DQ \in Bytes
      BY DEF Bytes
    <2> QED  BY <1>1, <1>3, <2>1 DEF w
  <1>5. \A n \in 0 .. N : /\ Len(W[n]) \in 1 .. M
                          /\ \A i \in 1 .. Len(W[n]) : bytes[i] = W[n][i]
    <2>1. \A n \in 0 .. N : Len(W[n]) \in Nat /\ Len(W[n]) <= M
      BY <1>2 DEF Prefix, w
    <2>2. \A n \in 0 .. N : Len(W[n]) >= 1
      <3> TAKE n \in 0 .. N
      <3>1. CASE n = 0
        <4>1. Len(<<DQ>>) = 1
          OBVIOUS
        <4>2. W[n] = <<DQ>>
          BY <1>2, <3>1
        <4>3. Len(W[n]) = 1
          BY <4>1, <4>2, Zenon
        <4> QED  BY <4>3
      <3>2. CASE n # 0
        <4>1. n \in 1 .. N /\ n - 1 \in 0 .. N
          BY <1>2, <3>2
        <4>2. W[n] = W[n - 1] \o Escape(text[n]) /\ W[n - 1] \in Seq(Bytes)
          BY <1>2, <4>1
        <4>3. text[n] \in Chars
          BY <1>2, <4>1
        <4>4. Escape(text[n]) \in Seq(Bytes) /\ Len(Escape(text[n])) >= 1
          <5> DEFINE c == text[n]
          <5>1. c \in Chars
            BY <4>3
          <5> HIDE DEF c
          <5>2. Escape(c) \in Seq(Bytes) /\ (Len(Escape(c)) = 1 \/ Len(Escape(c)) = 2)
            BY <5>1, EscapeType
          <5> DEFINE l == Len(Escape(c))
          <5>3. l = 1 \/ l = 2
            BY <5>2
          <5> HIDE DEF l
          <5>4. l >= 1
            BY <5>3
          <5> QED  BY <5>2, <5>4 DEF c, l
        <4>5. \A u, v \in Seq(Bytes) : Len(v) >= 1 => Len(u \o v) >= 1
          OBVIOUS
        <4> QED  BY <4>2, <4>4, <4>5
      <3> QED  BY <3>1, <3>2
    <2> QED  BY <1>2, <1>4, <2>1, <2>2 DEF Prefix, w
  <1>6. PICK R : /\ Reads(R, bytes)
                 /\ LET read == R[Len(bytes) - 1]
                        kept == IF Len(read.text) < size - 1 THEN Len(read.text) ELSE size - 1
                    IN  ReadString(bytes, size)
                           = [text |-> SubSeq(read.text, 1, kept), next |-> read.next]
    <2>1. bytes # <<>>
      BY <1>3, <1>4
    <2> QED  BY <1>4, <2>1, ReadStringIs
  <1>7. /\ R[0] = Turn(<<>>, "open", 0)
        /\ \A n \in 1 .. M : R[n] = ReadByte(R[n - 1], bytes[n + 1], n + 1, M + 1)
    <2>1. Len(bytes) - 1 = M /\ 0 \in 0 .. M /\ \A n \in 1 .. M : n # 0 /\ n \in 0 .. M
      BY <1>3, <1>4
    <2>2. R = [n \in 0 .. M |-> IF n = 0 THEN Turn(<<>>, "open", 0)
                                ELSE ReadByte(R[n - 1], bytes[n + 1], n + 1, M + 1)]
      BY <1>4, <1>6, <2>1 DEF Reads
    <2> HIDE DEF M
    <2> QED  BY <2>1, <2>2, Zenon
  <1> DEFINE at(n) == Len(W[n]) - 1
             T == {n \in Nat : n <= N => R[at(n)] = Turn(SubSeq(text, 1, n), "open", 0)}
  <1>8. 0 \in T
    <2>1. Len(<<DQ>>) = 1 /\ SubSeq(text, 1, 0) = <<>>
      OBVIOUS
    <2>2. at(0) = 0
      BY <1>2, <2>1
    <2> HIDE DEF at
    <2> QED  BY <1>7, <2>1, <2>2
  <1>9. ASSUME NEW n \in T
        PROVE  n + 1 \in T
    <2> SUFFICES ASSUME n + 1 <= N
                 PROVE  R[at(n + 1)] = Turn(SubSeq(text, 1, n + 1), "open", 0)
      OBVIOUS
    <2> DEFINE c == text[n + 1]
               t == SubSeq(text, 1, n)
               l == Len(W[n])
               e == Escape(c)
    <2>1. n \in Nat /\ n \in 0 .. N /\ n + 1 \in 1 .. N /\ n + 1 \in 0 .. N
      BY <1>2
    <2>2. c \in Chars /\ SubSeq(text, 1, n + 1) = Append(t, c)
      BY <1>2, <2>1 DEF N
    <2>3. /\ W[n + 1] = W[n] \o e /\ W[n] \in Seq(Bytes)
          /\ e \in Seq(Bytes) /\ (Len(e) = 1 \/ Len(e) = 2)
      <3>1. /\ Escape(c) \in Seq(Bytes)
            /\ (Len(Escape(c)) = 1 \/ Len(Escape(c)) = 2)
        <4> HIDE DEF c
        <4> QED  BY <2>2, EscapeType
      <3>2. (n + 1) - 1 = n
        BY <2>1
      <3> QED  BY <1>2, <2>1, <3>1, <3>2
    <2>0. \A u, v \in Seq(Bytes) :
             /\ Len(u \o v) = Len(u) + Len(v)
             /\ \A k \in 1 .. Len(v) : (u \o v)[Len(u) + k] = v[k]
      OBVIOUS
    <2> HIDE DEF e
    <2>4. l \in 1 .. M /\ Len(W[n + 1]) = l + Len(e) /\ l + Len(e) \in 1 .. M
      <3>1. Len(W[n + 1]) = l + Len(e)
        BY <2>0, <2>3
      <3> QED  BY <1>5, <2>1, <3>1
    <2>5. \A k \in 1 .. Len(e) : bytes[l + k] = e[k]
      <3> TAKE k \in 1 .. Len(e)
      <3>1. W[n + 1][l + k] = e[k]
        BY <2>0, <2>3
      <3>2. l + k \in 1 .. Len(W[n + 1])
        BY <2>3, <2>4
      <3> QED  BY <1>5, <2>1, <3>1, <3>2
    <2>6. R[l - 1] = Turn(t, "open", 0)
      BY <2>1
    <2>7. R[l] = ReadByte(Turn(t, "open", 0), bytes[l + 1], l + 1, M + 1)
      BY <1>7, <2>4, <2>6
    <2> HIDE DEF l, c, t
    <2>8. CASE e = <<c>> /\ c # DQ /\ c # BS
      <3>1. Len(e) = 1 /\ e[1] = c
        BY <2>8
      <3>2. bytes[l + 1] = c /\ at(n + 1) = l
        BY <2>4, <2>5, <3>1
      <3>3. R[l] = Turn(Append(t, c), "open", 0)
        BY <2>7, <2>8, <3>2, ReadByteIs
      <3> QED  BY <2>2, <3>2, <3>3
    <2>9. CASE \E x \in Bytes : e = <<BS, x>> /\ Unescape(x) = c
      <3>1. PICK x \in Bytes : e = <<BS, x>> /\ Unescape(x) = c
        BY <2>9
      <3>2. Len(e) = 2 /\ e[1] = BS /\ e[2] = x
        BY <3>1
      <3>3. /\ bytes[l + 1] = BS /\ bytes[l + 2] = x /\ at(n + 1) = l + 1
            /\ l + 1 \in 1 .. M /\ (l + 1) - 1 = l /\ (l + 1) + 1 = l + 2 /\ l + 1 < M + 1
        BY <1>3, <2>4, <2>5, <3>2
      <3>4. R[l] = Turn(t, "escaped", 0)
        BY <2>7, <3>3, ReadByteIs
      <3>5. R[l + 1] = ReadByte(Turn(t, "escaped", 0), x, l + 2, M + 1)
        BY <1>7, <3>3, <3>4
      <3>6. R[l + 1] = Turn(Append(t, c), "open", 0)
        BY <3>1, <3>5, ReadByteIs
      <3> QED  BY <2>2, <3>3, <3>6
    <2>10. \/ e = <<c>> /\ c # DQ /\ c # BS
           \/ \E x \in Bytes : e = <<BS, x>> /\ Unescape(x) = c
      BY <2>2, EscapeIs DEF e
    <2> QED  BY <2>8, <2>9, <2>10
  <1>10. Nat \subseteq T
    <2> HIDE DEF T
    <2> QED  BY <1>8, <1>9, Induction
  <1>11. R[M - 1] = Turn(text, "open", 0)
    <2>1. N \in T /\ N <= N
      BY <1>2, <1>10
    <2>4. SubSeq(text, 1, N) = text
      BY DEF N
    <2>2. R[at(N)] = Turn(SubSeq(text, 1, N), "open", 0)
      BY <2>1
    <2>3. at(N) = M - 1
      BY DEF w
    <2> HIDE DEF at, M
    <2> QED  BY <2>2, <2>3, <2>4
  <1>12. R[M] = Turn(text, "closed", M + 2)
    <2>1. M \in 1 .. M
      BY <1>2, <1>5 DEF w
    <2>2. (M + 1) + 1 = M + 2 /\ DQ = bytes[M + 1]
      BY <1>3, <1>4
    <2>3. R[M] = ReadByte(Turn(text, "open", 0), DQ, M + 1, M + 1)
      BY <1>7, <1>11, <2>1, <2>2
    <2> QED  BY <2>2, <2>3, ReadByteIs
  <1>13. /\ R[Len(bytes) - 1].text = text /\ R[Len(bytes) - 1].next = Len(bytes) + 1
    <2>1. Len(bytes) - 1 = M /\ Len(bytes) + 1 = M + 2
      BY <1>3, <1>4
    <2> QED  BY <1>12, <2>1, TurnFields
  <1>14. SubSeq(text, 1, IF Len(text) < size - 1 THEN Len(text) ELSE size - 1) = text
    <2>1. (IF Len(text) < size - 1 THEN Len(text) ELSE size - 1) = Len(text)
      OBVIOUS
    <2> QED  BY <2>1
  <1> QED
    BY <1>4, <1>6, <1>13, <1>14 DEF bytes

-----------------------------------------------------------------------------
(* Documents and lists.                                                    *)

\* What a file holds: the tokens of the documents of lists, and holes.
Afters == {"comma", "end"}
EntryTokens == {EntryToken(e, a) : e \in EntryType, a \in Afters}
Tokens == {Opening, Closing, Hole} \cup EntryTokens

\* The lists a program may have.
Lists == {l \in Seq(EntryType) : Distinct(l)}

LEMMA NamesAreChars ==
    ASSUME NEW name \in Names
    PROVE  name \in Seq(Chars) /\ Len(name) < NameSize /\ NameSize \in Nat
  BY SavedTargetsAssumption DEF Chars

\* A name comes back from the file as it was saved.
LEMMA NameRoundTrip ==
    ASSUME NEW e \in EntryType
    PROVE  /\ ReadString(WriteString(e.name), NameSize).text = e.name
           /\ ReadString(WriteString(e.name), NameSize).next = Len(WriteString(e.name)) + 1
  <1>1. e.name \in Names
    BY DEF EntryType
  <1> DEFINE text == e.name
  <1> HIDE DEF text
  <1>2. text \in Seq(Chars) /\ Len(text) < NameSize /\ NameSize \in Nat
    BY <1>1, NamesAreChars DEF text
  <1>3. ReadString(WriteString(text), NameSize)
          = [text |-> text, next |-> Len(WriteString(text)) + 1]
    BY <1>2, StringRoundTrip
  <1> QED
    BY <1>3 DEF text

LEMMA TokenFields ==
    /\ Opening.kind = "opening" /\ Closing.kind = "closing" /\ Hole.kind = "hole"
    /\ \A e, a : /\ EntryToken(e, a).kind = "entry"
                 /\ EntryToken(e, a).name = WriteString(e.name)
                 /\ EntryToken(e, a).target = e.target
                 /\ EntryToken(e, a).after = a
  BY DEF Opening, Closing, Hole, EntryToken

\* A document opens, has a token for each entry, and closes.
LEMMA DocumentIs ==
    ASSUME NEW l \in Seq(EntryType)
    PROVE  /\ Document(l) \in Seq(Tokens)
           /\ Len(l) \in Nat
           /\ Len(Document(l)) = Len(l) + 2
           /\ Document(l)[1] = Opening
           /\ Document(l)[Len(l) + 2] = Closing
           /\ \A i \in 1 .. Len(l) :
                 /\ l[i] \in EntryType
                 /\ Document(l)[i + 1] = EntryToken(l[i], IF i < Len(l) THEN "comma" ELSE "end")
  <1> DEFINE N == Len(l)
             T(i) == EntryToken(l[i], IF i < N THEN "comma" ELSE "end")
             D == [i \in DOMAIN l |-> T(i)]
  <1>1. N \in Nat /\ DOMAIN l = 1 .. N /\ \A i \in 1 .. N : l[i] \in EntryType
    OBVIOUS
  <1>2. \A i \in 1 .. N : T(i) \in Tokens
    <2> TAKE i \in 1 .. N
    <2> DEFINE a == IF i < N THEN "comma" ELSE "end"
    <2>1. a \in Afters /\ l[i] \in EntryType
      BY <1>1 DEF Afters
    <2> HIDE DEF a
    <2>2. EntryToken(l[i], a) \in Tokens
      BY <2>1 DEF Tokens, EntryTokens
    <2> QED  BY <2>2 DEF a
  <1> HIDE DEF N, T
  <1>3. D \in Seq(Tokens) /\ Len(D) = N /\ \A i \in 1 .. N : D[i] = T(i)
    <2>1. D = [i \in 1 .. N |-> T(i)]
      BY <1>1
    <2> HIDE DEF D
    <2>2. D \in Seq(Tokens)
      BY <1>1, <1>2, <2>1
    <2> QED  BY <1>1, <2>1, <2>2
  <1>4. Document(l) = <<Opening>> \o D \o <<Closing>>
    BY DEF Document, D, T, N
  <1> HIDE DEF D
  <1>5. Opening \in Tokens /\ Closing \in Tokens
    BY DEF Tokens
  <1> DEFINE o == Opening
             c == Closing
  <1> HIDE DEF o, c
  <1>6. /\ <<o>> \o D \o <<c>> \in Seq(Tokens)
        /\ Len(<<o>> \o D \o <<c>>) = N + 2
        /\ (<<o>> \o D \o <<c>>)[1] = o
        /\ (<<o>> \o D \o <<c>>)[N + 2] = c
        /\ \A i \in 1 .. N : (<<o>> \o D \o <<c>>)[i + 1] = D[i]
    BY <1>1, <1>3, <1>5 DEF o, c
  <1> QED
    BY <1>1, <1>3, <1>4, <1>6 DEF o, c, T, N

\* The file and the document agree as far as both go.
Begins(tokens, doc) == \A i \in DOMAIN tokens \cap DOMAIN doc : tokens[i] = doc[i]

\* An unfinished document has no end, a whole one ends where it ends,
\* whatever follows it.
LEMMA EndsOfDocument ==
    ASSUME NEW tokens \in Seq(Tokens), NEW l \in Seq(EntryType),
           Begins(tokens, Document(l))
    PROVE  Ends(tokens) = IF Len(tokens) < Len(l) + 2 THEN {} ELSE {Len(l) + 2}
  <1> DEFINE N == Len(l)
             M == Len(tokens)
             A(i) == IF i < N THEN "comma" ELSE "end"
  <1>1. N \in Nat /\ M \in Nat
    OBVIOUS
  <1>2. \A i \in 1 .. N : l[i] \in EntryType
    OBVIOUS
  <1> HIDE DEF N, M
  <1>3. /\ 1 <= M => tokens[1] = Opening
        /\ N + 2 <= M => tokens[N + 2] = Closing
        /\ \A i \in 1 .. N : i + 1 <= M => tokens[i + 1] = EntryToken(l[i], A(i))
    <2>1. \A i \in 1 .. N + 2 : i <= M => tokens[i] = Document(l)[i]
      <3>1. DOMAIN tokens = 1 .. M /\ DOMAIN Document(l) = 1 .. N + 2
        <4> DEFINE D == Document(l)
        <4>1. D \in Seq(Tokens) /\ Len(D) = N + 2
          BY DocumentIs DEF N
        <4> HIDE DEF D
        <4>2. DOMAIN D = 1 .. N + 2
          BY <4>1
        <4>3. DOMAIN tokens = 1 .. M
          BY DEF M
        <4> QED  BY <4>2, <4>3 DEF D
      <3> QED  BY <1>1, <3>1 DEF Begins
    <2>2. 1 \in 1 .. N + 2 /\ N + 2 \in 1 .. N + 2 /\ \A i \in 1 .. N : i + 1 \in 1 .. N + 2
      BY <1>1
    <2>3. /\ Document(l)[1] = Opening /\ Document(l)[N + 2] = Closing
          /\ \A i \in 1 .. N : Document(l)[i + 1] = EntryToken(l[i], A(i))
      BY DocumentIs DEF N
    <2> HIDE DEF A
    <2> QED  BY <2>1, <2>2, <2>3, Zenon
  <1> HIDE DEF A
  <1> DEFINE FitsEntry(j) == /\ tokens[j].kind = "entry"
                             /\ ReadString(tokens[j].name, NameSize).next = Len(tokens[j].name) + 1
  <1>8. ASSUME NEW e \in EntryType, NEW a, NEW j, tokens[j] = EntryToken(e, a)
        PROVE  FitsEntry(j)
    <2>1. tokens[j].kind = "entry" /\ tokens[j].name = WriteString(e.name)
      BY <1>8, TokenFields
    <2> QED  BY <2>1, NameRoundTrip, Zenon
  <1>9. ASSUME NEW t, NEW e, NEW a, t = EntryToken(e, a)
        PROVE  t.kind = "entry" /\ t.after = a
    BY <1>9, TokenFields
  <1>4. ASSUME NEW j \in 2 .. N + 2, j <= M
        PROVE  Fits(tokens, j)
    <2>1. CASE j = 2 /\ N > 0
      <3>1. tokens[j - 1] = Opening /\ tokens[j] = EntryToken(l[1], A(1)) /\ l[1] \in EntryType
        BY <1>1, <1>2, <1>3, <1>4, <2>1
      <3>2. FitsEntry(j)
        BY <1>8, <3>1, Zenon
      <3> QED  BY <3>1, <3>2, Zenon DEF Fits
    <2>2. CASE j = 2 /\ N = 0
      <3>1. tokens[j - 1] = Opening /\ tokens[j] = Closing
        BY <1>1, <1>3, <1>4, <2>2
      <3> QED  BY <3>1, Zenon DEF Fits
    <2>3. CASE j > 2 /\ j < N + 2
      <3>1. PICK k \in 1 .. N : k < N /\ k + 1 \in 1 .. N /\ k + 1 = j - 1 /\ (k + 1) + 1 = j
        <4>1. j - 2 \in 1 .. N
          BY <1>1, <2>3
        <4> QED  BY <1>1, <2>3, <4>1
      <3>2. /\ tokens[j - 1] = EntryToken(l[k], A(k)) /\ A(k) = "comma"
            /\ tokens[j] = EntryToken(l[k + 1], A(k + 1)) /\ l[k + 1] \in EntryType
        <4>1. A(k) = "comma"
          BY <3>1 DEF A
        <4>2. k + 1 <= M /\ (k + 1) + 1 <= M
          BY <1>1, <1>4, <3>1
        <4> QED  BY <1>2, <1>3, <3>1, <4>1, <4>2
      <3>3. FitsEntry(j)
        BY <1>8, <3>2, Zenon
      <3>4. tokens[j - 1].kind = "entry" /\ tokens[j - 1].after = "comma"
        BY <1>9, <3>2
      <3> QED  BY <3>3, <3>4, Zenon DEF Fits
    <2>4. CASE j > 2 /\ j = N + 2
      <3>1. N \in 1 .. N /\ N + 1 = j - 1 /\ N + 1 <= M /\ A(N) = "end"
        BY <1>1, <1>4, <2>4 DEF A
      <3>2. tokens[j - 1] = EntryToken(l[N], A(N)) /\ tokens[j] = Closing
        BY <1>3, <1>4, <2>4, <3>1
      <3>3. tokens[j - 1].kind = "entry" /\ tokens[j - 1].after = "end"
        BY <1>9, <3>1, <3>2
      <3> QED  BY <3>2, <3>3, Zenon DEF Fits
    <2> QED  BY <1>1, <1>4, <2>1, <2>2, <2>3, <2>4
  <1>5. ASSUME NEW i \in Ends(tokens)
        PROVE  i = N + 2
    <2>1. i \in 2 .. M /\ tokens[i] = Closing /\ \A j \in 2 .. i : Fits(tokens, j)
      BY DEF Ends, M
    <2>2. CASE i < N + 2
      <3> DEFINE k == i - 1
      <3>1. k \in 1 .. N /\ k + 1 = i /\ k + 1 <= M
        BY <1>1, <2>1, <2>2
      <3>2. tokens[i] = EntryToken(l[k], A(k))
        BY <1>3, <3>1
      <3> QED  BY <2>1, <3>2, TokenFields
    <2>3. CASE i > N + 2
      <3>1. N + 3 \in 2 .. i /\ (N + 3) - 1 = N + 2 /\ N + 2 <= M
        BY <1>1, <2>1, <2>3
      <3>2. Fits(tokens, N + 3) /\ tokens[(N + 3) - 1] = Closing
        BY <1>3, <2>1, <3>1
      <3>3. Closing # Opening /\ Closing.kind # "entry"
        BY TokenFields
      <3> QED  BY <3>2, <3>3, Zenon DEF Fits
    <2> QED  BY <1>1, <2>1, <2>2, <2>3
  <1>6. CASE M < N + 2
    <2>1. \A i \in Ends(tokens) : i \in 2 .. M
      BY DEF Ends, M
    <2>2. Ends(tokens) = {}
      BY <1>1, <1>5, <1>6, <2>1
    <2> QED  BY <1>6, <2>2 DEF M, N
  <1>7. CASE ~(M < N + 2)
    <2>1. N + 2 \in 2 .. M /\ N + 2 <= M /\ 1 <= M /\ \A j \in 2 .. N + 2 : j <= M
      BY <1>1, <1>7
    <2>2. N + 2 \in Ends(tokens)
      BY <1>3, <1>4, <2>1 DEF Ends, M
    <2>3. Ends(tokens) = {N + 2}
      BY <1>5, <2>2
    <2> QED  BY <1>7, <2>3 DEF M, N
  <1> QED
    BY <1>6, <1>7

\* What does not begin with the opening is no document.
LEMMA EndsOfNothing ==
    ASSUME NEW tokens \in Seq(Tokens), tokens = <<>> \/ tokens[1] # Opening
    PROVE  Ends(tokens) = {}
  BY DEF Ends

-----------------------------------------------------------------------------
(* The lists.                                                              *)

\* A list has an entry of a name once, or not at all.
LEMMA PositionsIn ==
    ASSUME NEW l \in Seq(EntryType), NEW name
    PROVE  /\ Positions(l, name) \subseteq 1 .. Len(l)
           /\ \A i \in Positions(l, name) : l[i].name = name
           /\ \A i \in 1 .. Len(l) : l[i].name = name => i \in Positions(l, name)
  BY DEF Positions

\* Found entries have the position that was chosen.
LEMMA FindIs ==
    ASSUME NEW l \in Lists, NEW i \in 1 .. Len(l)
    PROVE  /\ Positions(l, l[i].name) = {i}
           /\ Find(l, l[i].name) = l[i]
  <1>1. Positions(l, l[i].name) = {i}
    BY DEF Positions, Lists, Distinct
  <1>2. (CHOOSE j \in Positions(l, l[i].name) : TRUE) = i
    BY <1>1
  <1> QED
    BY <1>1, <1>2 DEF Find

\* What target_list_upsert does to the names and the targets of a list.
LEMMA UpsertInLists ==
    ASSUME NEW l \in Lists, NEW e \in EntryType
    PROVE  /\ Upsert(l, e) \in Lists
           /\ Positions(l, e.name) = {} => Upsert(l, e) = Append(l, e)
           /\ \A n : Positions(Upsert(l, e), n) # {} <=> n = e.name \/ Positions(l, n) # {}
           /\ Find(Upsert(l, e), e.name) = e
           /\ \A n : n # e.name /\ Positions(l, n) # {} => Find(Upsert(l, e), n) = Find(l, n)
  <1> DEFINE u == Upsert(l, e)
             N == Len(l)
  <1>1. l \in Seq(EntryType) /\ Distinct(l) /\ N \in Nat /\ DOMAIN l = 1 .. N
    BY DEF Lists
  <1>2. \A i \in 1 .. N : l[i] \in EntryType
    BY <1>1
  <1>3. CASE Positions(l, e.name) = {}
    <2>1. u = Append(l, e)
      BY <1>3 DEF Upsert
    <2>2. /\ u \in Seq(EntryType) /\ Len(u) = N + 1 /\ u[N + 1] = e
          /\ \A i \in 1 .. N : u[i] = l[i]
      BY <1>1, <2>1
    <2>3. \A i \in 1 .. N : l[i].name # e.name
      BY <1>1, <1>3 DEF Positions
    <2> HIDE DEF u, N
    <2>4. DOMAIN u = 1 .. N + 1
      BY <1>1, <2>2
    <2>5. Distinct(u)
      BY <1>1, <2>2, <2>3, <2>4 DEF Distinct
    <2>6. u \in Lists
      BY <2>2, <2>5 DEF Lists
    <2>7. \A n : Positions(u, n) # {} <=> n = e.name \/ Positions(l, n) # {}
      <3> TAKE n
      <3>1. \A i \in 1 .. N : i \in 1 .. N + 1
        BY <1>1
      <3>2. \A i \in 1 .. N + 1 : i = N + 1 \/ i \in 1 .. N
        BY <1>1
      <3>3. N + 1 \in 1 .. N + 1
        BY <1>1
      <3> QED  BY <1>1, <2>2, <2>4, <3>1, <3>2, <3>3 DEF Positions
    <2>8. Find(u, e.name) = e
      <3>1. N + 1 \in 1 .. Len(u)
        BY <1>1, <2>2
      <3> QED  BY <2>2, <2>6, <3>1, FindIs
    <2>9. ASSUME NEW n, n # e.name, Positions(l, n) # {}
          PROVE  Find(u, n) = Find(l, n)
      <3>1. PICK i \in 1 .. N : l[i].name = n
        BY <1>1, <2>9 DEF Positions
      <3>2. Find(l, n) = l[i]
        BY <3>1, FindIs DEF N
      <3>3. i \in 1 .. Len(u) /\ u[i] = l[i]
        BY <1>1, <2>2
      <3>4. Find(u, n) = u[i]
        BY <2>6, <3>1, <3>3, FindIs
      <3> QED  BY <3>2, <3>3, <3>4
    <2> QED  BY <2>1, <2>6, <2>7, <2>8, <2>9 DEF u
  <1>4. CASE Positions(l, e.name) # {}
    <2>1. u = [i \in 1 .. N |-> IF l[i].name = e.name THEN e ELSE l[i]]
      BY <1>1, <1>4 DEF Upsert
    <2>2. PICK p \in 1 .. N : l[p].name = e.name
      BY <1>1, <1>4 DEF Positions
    <2>3. \A i \in 1 .. N : i # p => l[i].name # e.name
      BY <1>1, <2>2 DEF Distinct
    <2> HIDE DEF u, N
    <2>4. /\ u \in Seq(EntryType) /\ Len(u) = N /\ DOMAIN u = 1 .. N /\ u[p] = e
          /\ \A i \in 1 .. N : u[i].name = l[i].name
          /\ \A i \in 1 .. N : i # p => u[i] = l[i]
      BY <1>1, <1>2, <2>1, <2>2, <2>3
    <2>5. u \in Lists
      BY <1>1, <2>4 DEF Lists, Distinct
    <2>6. \A n : Positions(u, n) # {} <=> n = e.name \/ Positions(l, n) # {}
      BY <1>1, <1>4, <2>4 DEF Positions
    <2>7. Find(u, e.name) = e
      BY <2>2, <2>4, <2>5, FindIs
    <2>8. ASSUME NEW n, n # e.name, Positions(l, n) # {}
          PROVE  Find(u, n) = Find(l, n)
      <3>1. PICK i \in 1 .. N : l[i].name = n
        BY <1>1, <2>8 DEF Positions
      <3>2. Find(l, n) = l[i] /\ i # p
        BY <2>2, <2>8, <3>1, FindIs DEF N
      <3>3. i \in 1 .. Len(u) /\ u[i] = l[i]
        BY <2>4, <3>2
      <3>4. Find(u, n) = u[i]
        BY <2>5, <3>1, <3>3, FindIs
      <3> QED  BY <3>2, <3>3, <3>4
    <2> QED  BY <1>4, <2>5, <2>6, <2>7, <2>8 DEF u
  <1> QED
    BY <1>3, <1>4

\* What target_list_remove does to them.
LEMMA WithoutInLists ==
    ASSUME NEW l \in Lists, NEW name
    PROVE  /\ Without(l, name) \in Lists
           /\ \A n : Positions(Without(l, name), n) # {} <=> n # name /\ Positions(l, n) # {}
           /\ \A n : n # name /\ Positions(l, n) # {} => Find(Without(l, name), n) = Find(l, n)
  <1> DEFINE u == Without(l, name)
             N == Len(l)
  <1>1. l \in Seq(EntryType) /\ Distinct(l) /\ N \in Nat /\ DOMAIN l = 1 .. N
    BY DEF Lists
  <1>2. CASE Positions(l, name) = {}
    <2>1. u = l
      BY <1>2 DEF Without
    <2> QED  BY <1>2, <2>1
  <1>3. CASE Positions(l, name) # {}
    <2>1. PICK p \in 1 .. N : l[p].name = name
      BY <1>1, <1>3 DEF Positions
    <2>2. (CHOOSE i \in Positions(l, name) : TRUE) = p
      BY <2>1, FindIs
    <2>3. u = SubSeq(l, 1, p - 1) \o SubSeq(l, p + 1, N)
      BY <1>3, <2>2, Zenon DEF Without, RemoveAt
    <2> HIDE DEF u, N
    <2>4. /\ u \in Seq(EntryType) /\ Len(u) = N - 1
          /\ \A i \in 1 .. N - 1 : u[i] = IF i < p THEN l[i] ELSE l[i + 1]
      <3> DEFINE a == SubSeq(l, 1, p - 1)
                 b == SubSeq(l, p + 1, N)
      <3>1. /\ a \in Seq(EntryType) /\ Len(a) = p - 1
            /\ \A i \in 1 .. p - 1 : a[i] = l[i]
        BY <1>1, <2>1 DEF N
      <3>2. /\ b \in Seq(EntryType) /\ Len(b) = N - p
            /\ \A i \in 1 .. N - p : b[i] = l[p + i]
        <4>1. p + 1 \in Int /\ N \in Int /\ \A i \in p + 1 .. N : l[i] \in EntryType
          BY <1>1, <2>1
        <4>2. /\ b \in Seq(EntryType) /\ Len(b) = IF p + 1 <= N THEN N - (p + 1) + 1 ELSE 0
              /\ \A i \in 1 .. N - (p + 1) + 1 : b[i] = l[p + 1 + i - 1]
          BY <4>1, SubSeqProperties
        <4> HIDE DEF b
        <4> QED  BY <1>1, <2>1, <4>2
      <3> HIDE DEF a, b
      <3>3. /\ a \o b \in Seq(EntryType) /\ Len(a \o b) = N - 1
            /\ \A i \in 1 .. N - 1 : (a \o b)[i] = IF i < p THEN a[i] ELSE b[i - (p - 1)]
        <4>1. /\ a \o b \in Seq(EntryType) /\ Len(a \o b) = Len(a) + Len(b)
              /\ \A i \in 1 .. Len(a) + Len(b) :
                    (a \o b)[i] = IF i <= Len(a) THEN a[i] ELSE b[i - Len(a)]
          BY <3>1, <3>2, ConcatProperties
        <4>2. Len(a) + Len(b) = N - 1 /\ \A i \in 1 .. N - 1 : i <= p - 1 <=> i < p
          BY <1>1, <2>1, <3>1, <3>2
        <4> QED  BY <3>1, <4>1, <4>2
      <3>4. u = a \o b
        BY <2>3 DEF a, b
      <3>5. ASSUME NEW i \in 1 .. N - 1
            PROVE  u[i] = IF i < p THEN l[i] ELSE l[i + 1]
        <4>1. CASE i < p
          <5>1. i \in 1 .. p - 1
            BY <1>1, <2>1, <4>1
          <5> QED  BY <3>1, <3>3, <3>4, <4>1, <5>1
        <4>2. CASE ~(i < p)
          <5>1. i - (p - 1) \in 1 .. N - p /\ p + (i - (p - 1)) = i + 1
            BY <1>1, <2>1, <4>2
          <5>2. u[i] = b[i - (p - 1)]
            BY <3>3, <3>4, <4>2
          <5>3. b[i - (p - 1)] = l[p + (i - (p - 1))]
            BY <3>2, <5>1
          <5> QED  BY <4>2, <5>1, <5>2, <5>3
        <4> QED  BY <4>1, <4>2
      <3> QED  BY <3>3, <3>4, <3>5
    <2>5. DOMAIN u = 1 .. N - 1
      BY <1>1, <2>1, <2>4
    <2> DEFINE from(i) == IF i < p THEN i ELSE i + 1
    <2>6. /\ \A i \in 1 .. N - 1 : from(i) \in (1 .. N) \ {p} /\ u[i] = l[from(i)]
          /\ \A i, j \in 1 .. N - 1 : from(i) = from(j) => i = j
          /\ \A k \in (1 .. N) \ {p} : \E i \in 1 .. N - 1 : from(i) = k
      <3>1. \A k \in (1 .. N) \ {p} :
               LET i == IF k < p THEN k ELSE k - 1
               IN  i \in 1 .. N - 1 /\ from(i) = k
        BY <1>1, <2>1
      <3>2. \A k \in (1 .. N) \ {p} : \E i \in 1 .. N - 1 : from(i) = k
        <4> HIDE DEF from
        <4> QED  BY <3>1
      <3>3. ASSUME NEW i \in 1 .. N - 1
            PROVE  from(i) \in (1 .. N) \ {p} /\ u[i] = l[from(i)]
        <4>1. u[i] = IF i < p THEN l[i] ELSE l[i + 1]
          BY <2>4
        <4>2. u[i] = l[from(i)]
          BY <4>1
        <4>3. from(i) \in (1 .. N) \ {p}
          BY <1>1, <2>1
        <4> QED  BY <4>2, <4>3
      <3>4. \A i, j \in 1 .. N - 1 : from(i) = from(j) => i = j
        BY <1>1, <2>1
      <3> QED  BY <3>2, <3>3, <3>4
    <2> HIDE DEF from
    <2>7. u \in Lists
      BY <1>1, <2>4, <2>5, <2>6 DEF Lists, Distinct
    <2>8. \A k \in 1 .. N : k # p <=> l[k].name # name
      BY <1>1, <2>1 DEF Distinct
    <2>9. \A n : Positions(u, n) # {} <=> n # name /\ Positions(l, n) # {}
      <3> TAKE n
      <3>1. Positions(u, n) # {} <=> \E i \in 1 .. N - 1 : l[from(i)].name = n
        BY <2>5, <2>6 DEF Positions
      <3>2. Positions(l, n) # {} <=> \E k \in 1 .. N : l[k].name = n
        BY <1>1 DEF Positions
      <3>3. (\E i \in 1 .. N - 1 : l[from(i)].name = n) <=> \E k \in (1 .. N) \ {p} : l[k].name = n
        BY <2>6
      <3>4. (\E k \in (1 .. N) \ {p} : l[k].name = n) <=> n # name /\ \E k \in 1 .. N : l[k].name = n
        BY <2>8
      <3> QED  BY <3>1, <3>2, <3>3, <3>4
    <2>10. ASSUME NEW n, n # name, Positions(l, n) # {}
           PROVE  Find(u, n) = Find(l, n)
      <3>1. PICK k \in 1 .. N : l[k].name = n
        BY <1>1, <2>10 DEF Positions
      <3>2. PICK i \in 1 .. N - 1 : from(i) = k
        BY <2>6, <2>8, <2>10, <3>1
      <3>3. u[i] = l[k] /\ i \in 1 .. Len(u)
        BY <2>4, <2>6, <3>2
      <3>4. Find(u, n) = u[i] /\ Find(l, n) = l[k]
        BY <2>7, <3>1, <3>3, FindIs DEF N
      <3> QED  BY <3>3, <3>4
    <2> QED  BY <2>7, <2>9, <2>10 DEF u
  <1> QED
    BY <1>2, <1>3

-----------------------------------------------------------------------------
(* What targets_load makes of a file.                                      *)

\* An entry that is read is added to the list or replaces the one of its name.
LEMMA AddTokenIs ==
    ASSUME NEW l \in Lists
    PROVE  /\ \A t \in Tokens : AddToken(l, t) \in Lists
           /\ AddToken(l, Opening) = l /\ AddToken(l, Closing) = l
           /\ \A e \in EntryType : \A a : AddToken(l, EntryToken(e, a)) = Upsert(l, e)
  <1>1. \A t \in {Opening, Closing, Hole} : AddToken(l, t) = l
    <2> TAKE t \in {Opening, Closing, Hole}
    <2>1. t.kind # "entry"
      BY TokenFields
    <2> QED  BY <2>1, Zenon DEF AddToken
  <1>2. ASSUME NEW e \in EntryType, NEW a
        PROVE  AddToken(l, EntryToken(e, a)) = Upsert(l, e)
    <2> DEFINE t == EntryToken(e, a)
    <2>1. t.kind = "entry" /\ t.name = WriteString(e.name) /\ t.target = e.target
      BY TokenFields
    <2> HIDE DEF t
    <2>2. ReadString(t.name, NameSize).text = e.name
      BY <2>1, NameRoundTrip, Zenon
    <2>3. e.name # <<>>
      <3>1. e.name \in Names
        BY DEF EntryType
      <3> QED  BY <3>1, SavedTargetsAssumption, Zenon
    <2>5. AddToken(l, t) = Upsert(l, [name |-> e.name, target |-> t.target])
      BY <2>1, <2>2, <2>3, Zenon DEF AddToken
    <2>4. e = [name |-> e.name, target |-> e.target]
      BY DEF EntryType
    <2>6. [name |-> e.name, target |-> t.target] = e
      BY <2>1, <2>4, Zenon
    <2> QED  BY <2>5, <2>6, Zenon DEF t
  <1>3. \A t \in Tokens : AddToken(l, t) \in Lists
    <2> TAKE t \in Tokens
    <2>1. CASE t \in {Opening, Closing, Hole}
      BY <1>1, <2>1
    <2>2. CASE t \in EntryTokens
      <3>1. PICK e \in EntryType, a \in Afters : t = EntryToken(e, a)
        BY <2>2 DEF EntryTokens
      <3> QED  BY <1>2, <3>1, UpsertInLists
    <2> QED  BY <2>1, <2>2 DEF Tokens
  <1> QED
    BY <1>1, <1>2, <1>3

\* A has the list after each of the tokens.
Adds(A, tokens) ==
    A = [n \in 0 .. Len(tokens) |-> IF n = 0 THEN <<>> ELSE AddToken(A[n - 1], tokens[n])]

\* targets_load goes from token to token.
LEMMA EntriesIs ==
    ASSUME NEW tokens \in Seq(Tokens)
    PROVE  \E A : /\ Adds(A, tokens)
                  /\ \A n \in 0 .. Len(tokens) : A[n] \in Lists
                  /\ Entries(tokens) = A[IF Ends(tokens) = {} THEN Len(tokens)
                                         ELSE CHOOSE i \in Ends(tokens) : TRUE]
  <1> DEFINE N == Len(tokens)
             G == [p \in Lists \X Nat |->
                      IF p[2] \in DOMAIN tokens THEN AddToken(p[1], tokens[p[2]]) ELSE p[1]]
  <1>1. N \in Nat /\ DOMAIN tokens = 1 .. N /\ \A n \in 1 .. N : tokens[n] \in Tokens
    OBVIOUS
  <1>2. \A p \in Lists \X Nat :
           (IF p[2] \in DOMAIN tokens THEN AddToken(p[1], tokens[p[2]]) ELSE p[1]) \in Lists
    <2> TAKE p \in Lists \X Nat
    <2>1. p[1] \in Lists
      OBVIOUS
    <2>2. CASE p[2] \in DOMAIN tokens
      <3>1. tokens[p[2]] \in Tokens
        BY <1>1, <2>2
      <3> QED  BY <2>1, <2>2, <3>1, AddTokenIs
    <2> QED  BY <2>1, <2>2
  <1>3. G \in [Lists \X Nat -> Lists]
    BY <1>2
  <1>4. <<>> \in Lists
    BY DEF Lists, Distinct
  <1> DEFINE a == <<>>
  <1>6. PICK f \in [0 .. N -> Lists] : Iterates(f, N, a, G)
    <2> HIDE DEF G, a, N
    <2>1. a \in Lists
      BY <1>4 DEF a
    <2> QED  BY <1>1, <1>3, <2>1, Iteration
  <1>7. \A n \in 0 .. N : f[n] = IF n = 0 THEN a ELSE AddToken(f[n - 1], tokens[n])
    <2> TAKE n \in 0 .. N
    <2>1. f[n] = IF n = 0 THEN a ELSE G[<<f[n - 1], n>>]
      <3> HIDE DEF G, a
      <3> QED  BY <1>6 DEF Iterates
    <2>2. CASE n # 0
      <3>1. n \in DOMAIN tokens /\ n - 1 \in 0 .. N /\ n \in Nat
        BY <2>2, <1>1
      <3>2. f[n - 1] \in Lists
        BY <3>1
      <3>3. G[<<f[n - 1], n>>] = AddToken(f[n - 1], tokens[n])
        BY <3>1, <3>2
      <3> QED  BY <2>1, <2>2, <3>3
    <2> QED  BY <2>1, <2>2
  <1>8. Adds(f, tokens)
    <2>1. f = [n \in 0 .. N |-> f[n]]
      OBVIOUS
    <2> QED  BY <1>7, <2>1, Zenon DEF Adds
  <1> DEFINE A == CHOOSE A : Adds(A, tokens)
             e == IF Ends(tokens) = {} THEN N ELSE CHOOSE i \in Ends(tokens) : TRUE
  <1>9. Entries(tokens) = A[e]
    BY DEF Entries, Adds
  <1>10. Adds(A, tokens)
    BY <1>8
  <1> HIDE DEF A
  <1>11. \A n \in 0 .. N : A[n] \in Lists
    <2> DEFINE T == {n \in Nat : n <= N => A[n] \in Lists}
    <2>1. /\ A[0] = <<>>
          /\ \A n \in 1 .. N : A[n] = AddToken(A[n - 1], tokens[n])
      <3>1. 0 \in 0 .. N /\ \A n \in 1 .. N : n # 0 /\ n \in 0 .. N
        BY <1>1
      <3> HIDE DEF N
      <3> QED  BY <1>10, <3>1, Zenon DEF Adds, N
    <2>2. 0 \in T
      BY <1>4, <2>1
    <2>3. ASSUME NEW n \in T
          PROVE  n + 1 \in T
      <3> SUFFICES ASSUME n + 1 <= N PROVE A[n + 1] \in Lists
        OBVIOUS
      <3>1. n \in Nat /\ n + 1 \in 1 .. N /\ (n + 1) - 1 = n /\ A[n] \in Lists
        BY <1>1
      <3>2. tokens[n + 1] \in Tokens
        BY <1>1, <3>1
      <3>3. A[n + 1] = AddToken(A[n], tokens[n + 1])
        BY <2>1, <3>1
      <3> QED  BY <3>1, <3>2, <3>3, AddTokenIs
    <2>4. Nat \subseteq T
      <3> HIDE DEF T
      <3> QED  BY <2>2, <2>3, Induction
    <2> QED  BY <1>1, <2>4
  <1> QED
    BY <1>9, <1>10, <1>11

\* Whatever the file holds, no name is twice in what is loaded.
LEMMA EntriesInLists ==
    ASSUME NEW tokens \in Seq(Tokens)
    PROVE  Entries(tokens) \in Lists
  <1>1. PICK A : /\ \A n \in 0 .. Len(tokens) : A[n] \in Lists
                 /\ Entries(tokens) = A[IF Ends(tokens) = {} THEN Len(tokens)
                                         ELSE CHOOSE i \in Ends(tokens) : TRUE]
    BY EntriesIs
  <1> DEFINE e == IF Ends(tokens) = {} THEN Len(tokens) ELSE CHOOSE i \in Ends(tokens) : TRUE
  <1>2. e \in 0 .. Len(tokens)
    <2>1. Ends(tokens) \subseteq 0 .. Len(tokens) /\ Len(tokens) \in 0 .. Len(tokens)
      BY DEF Ends
    <2>2. CASE Ends(tokens) = {}
      BY <2>1, <2>2
    <2>3. CASE Ends(tokens) # {}
      <3>1. (CHOOSE i \in Ends(tokens) : TRUE) \in Ends(tokens)
        BY <2>3
      <3> QED  BY <2>1, <2>3, <3>1
    <2> QED  BY <2>2, <2>3
  <1> HIDE DEF e
  <1>3. Entries(tokens) = A[e]
    BY <1>1 DEF e
  <1> QED
    BY <1>1, <1>2, <1>3

\* What is read of a document is its list, whatever follows it in the file.
LEMMA DocumentRoundTrip ==
    ASSUME NEW tokens \in Seq(Tokens), NEW l \in Lists,
           Begins(tokens, Document(l)), Len(tokens) >= Len(l) + 2
    PROVE  Readable(tokens) /\ Entries(tokens) = l
  <1> DEFINE N == Len(l)
             M == Len(tokens)
             T(i) == EntryToken(l[i], IF i < N THEN "comma" ELSE "end")
  <1>1. /\ l \in Seq(EntryType) /\ N \in Nat /\ M \in Nat /\ M >= N + 2
        /\ DOMAIN tokens = 1 .. M /\ DOMAIN l = 1 .. N
    BY DEF Lists
  <1>2. Ends(tokens) = {N + 2}
    BY <1>1, EndsOfDocument
  <1>3. Readable(tokens)
    BY <1>2 DEF Readable
  <1>4. (CHOOSE i \in Ends(tokens) : TRUE) = N + 2
    BY <1>2
  <1>5. PICK A : /\ Adds(A, tokens)
                 /\ Entries(tokens) = A[N + 2]
    BY <1>2, <1>4, EntriesIs
  <1>6. /\ tokens[1] = Opening /\ tokens[N + 2] = Closing
        /\ \A i \in 1 .. N : l[i] \in EntryType /\ tokens[i + 1] = T(i)
    <2> DEFINE D == Document(l)
    <2>1. /\ D \in Seq(Tokens) /\ Len(D) = N + 2 /\ D[1] = Opening /\ D[N + 2] = Closing
          /\ \A i \in 1 .. N : l[i] \in EntryType /\ D[i + 1] = T(i)
      BY <1>1, DocumentIs
    <2> HIDE DEF D, T, N, M
    <2>2. DOMAIN D = 1 .. N + 2
      BY <2>1
    <2>3. \A i \in 1 .. N + 2 : tokens[i] = D[i]
      BY <1>1, <2>2 DEF Begins, D
    <2> QED  BY <1>1, <2>1, <2>3
  <1> HIDE DEF N, M, T
  <1>7. /\ A[0] = <<>>
        /\ \A n \in 1 .. N + 2 : A[n] = AddToken(A[n - 1], tokens[n])
    <2>1. 0 \in 0 .. M /\ \A n \in 1 .. N + 2 : n # 0 /\ n \in 0 .. M
      BY <1>1
    <2> QED  BY <1>5, <2>1, Zenon DEF Adds, M
  <1> DEFINE P == {n \in Nat : n <= N => A[n + 1] = SubSeq(l, 1, n) /\ SubSeq(l, 1, n) \in Lists}
  <1>9. 0 \in P
    <2>1. SubSeq(l, 1, 0) = <<>>
      BY SubSeqEmpty
    <2>2. <<>> \in Lists
      BY DEF Lists, Distinct
    <2>3. A[1] = AddToken(<<>>, Opening)
      BY <1>1, <1>6, <1>7
    <2>4. AddToken(<<>>, Opening) = <<>>
      BY <2>2, AddTokenIs
    <2>5. 0 + 1 = 1
      OBVIOUS
    <2> QED  BY <2>1, <2>2, <2>3, <2>4, <2>5
  <1>10. ASSUME NEW n \in P
         PROVE  n + 1 \in P
    <2> SUFFICES ASSUME n + 1 <= N
                 PROVE  /\ A[(n + 1) + 1] = SubSeq(l, 1, n + 1)
                        /\ SubSeq(l, 1, n + 1) \in Lists
      OBVIOUS
    <2> DEFINE s == SubSeq(l, 1, n)
               e == l[n + 1]
    <2>1. /\ n \in Nat /\ n + 1 \in 1 .. N /\ (n + 1) + 1 \in 1 .. N + 2
          /\ ((n + 1) + 1) - 1 = n + 1 /\ n <= N
      BY <1>1
    <2>2. A[n + 1] = s /\ s \in Lists
      BY <2>1
    <2>3. e \in EntryType /\ tokens[(n + 1) + 1] = T(n + 1)
      BY <1>6, <2>1
    <2>4. A[(n + 1) + 1] = AddToken(s, T(n + 1))
      BY <1>7, <2>1, <2>2, <2>3
    <2>5. AddToken(s, T(n + 1)) = Upsert(s, e)
      <3> HIDE DEF s
      <3> QED  BY <2>2, <2>3, AddTokenIs DEF T
    <2>6. Positions(s, e.name) = {}
      <3>1. Len(s) = n /\ DOMAIN s = 1 .. n /\ \A i \in 1 .. n : s[i] = l[i]
        BY <1>1, <2>1 DEF N
      <3>2. \A i \in 1 .. n : l[i].name # e.name
        BY <1>1, <2>1 DEF Lists, Distinct
      <3> HIDE DEF s, e
      <3> QED  BY <3>1, <3>2 DEF Positions
    <2>7. Upsert(s, e) = Append(s, e) /\ Upsert(s, e) \in Lists
      <3> HIDE DEF s, e
      <3> QED  BY <2>2, <2>3, <2>6, UpsertInLists
    <2>8. SubSeq(l, 1, n + 1) = Append(s, e)
      BY <1>1, <2>1 DEF N
    <2> QED  BY <2>4, <2>5, <2>7, <2>8
  <1>11. Nat \subseteq P
    <2> HIDE DEF P
    <2> QED  BY <1>9, <1>10, Induction
  <1>12. A[N + 1] = l
    <2>1. N \in P /\ N <= N
      BY <1>1, <1>11
    <2>2. SubSeq(l, 1, N) = l
      BY <1>1, SubSeqFull DEF N
    <2> QED  BY <2>1, <2>2
  <1>13. A[N + 2] = AddToken(l, Closing)
    <2>1. N + 2 \in 1 .. N + 2 /\ (N + 2) - 1 = N + 1
      BY <1>1
    <2> QED  BY <1>6, <1>7, <1>12, <2>1
  <1> QED
    BY <1>3, <1>5, <1>13, AddTokenIs

-----------------------------------------------------------------------------
(* The programs.                                                           *)

Places == {"idle", "load", "confirm", "open", "write", "reload"}

Jobs == [op : {"none", "save", "delete", "use"}, name : Names \cup {NoName},
         target : Targets \cup {NoTarget}]

\* What a program does where.
Coherent(c, where, what) ==
    /\ where = "idle" => what = Idle
    /\ where = "load" => what.op \in {"save", "delete", "use"}
    /\ where = "confirm" => what.op = "save" /\ c \in Dialogs
    /\ where \in {"open", "write"} => what.op \in {"save", "delete"}
    /\ what.op # "none" => what.name \in Names
    /\ what.op = "save" => what.target \in Targets

\* What the programs hold.
ProgramsInv ==
    /\ pc \in [Programs -> Places]
    /\ job \in [Programs -> Jobs]
    /\ list \in [Programs -> Lists]
    /\ offset \in [Programs -> Nat]
    /\ fresh \in [Programs -> BOOLEAN]
    /\ \A c \in Programs : Coherent(c, pc[c], job[c])

\* A step of c that moves c alone.
Update(c, where, what, entries, at) ==
    /\ pc' = [pc EXCEPT ![c] = where]
    /\ job' = [job EXCEPT ![c] = what]
    /\ list' = [list EXCEPT ![c] = entries]
    /\ offset' = [offset EXCEPT ![c] = at]

LEMMA UpdateIs ==
    ASSUME ProgramsInv, NEW c \in Programs,
           NEW where \in Places, NEW what \in Jobs, NEW entries \in Lists, NEW at \in Nat,
           Update(c, where, what, entries, at)
    PROVE  /\ pc'[c] = where /\ job'[c] = what /\ list'[c] = entries /\ offset'[c] = at
           /\ \A p \in Programs \ {c} :
                 /\ pc'[p] = pc[p] /\ job'[p] = job[p]
                 /\ list'[p] = list[p] /\ offset'[p] = offset[p]
  BY DEF ProgramsInv, Update

\* A coherent move keeps the programs coherent.
LEMMA UpdateKeepsPrograms ==
    ASSUME ProgramsInv, NEW c \in Programs,
           NEW where \in Places, NEW what \in Jobs, NEW entries \in Lists, NEW at \in Nat,
           Update(c, where, what, entries, at), Coherent(c, where, what),
           fresh' \in [Programs -> BOOLEAN]
    PROVE  ProgramsInv'
  <1>1. /\ pc' \in [Programs -> Places] /\ job' \in [Programs -> Jobs]
        /\ list' \in [Programs -> Lists] /\ offset' \in [Programs -> Nat]
    BY DEF ProgramsInv, Update
  <1>2. \A p \in Programs : Coherent(p, pc'[p], job'[p])
    <2>1. \A p \in Programs : Coherent(p, pc[p], job[p])
      BY DEF ProgramsInv
    <2> QED  BY <2>1, UpdateIs
  <1> QED
    BY <1>1, <1>2 DEF ProgramsInv

LEMMA IdleIsJob == Idle \in Jobs /\ Idle.op = "none" /\ <<>> \in Lists
  <1>1. Idle \in Jobs /\ Idle.op = "none"
    BY DEF Idle, Jobs
  <1>2. <<>> \in Lists
    BY DEF Lists, Distinct
  <1> QED
    BY <1>1, <1>2

\* How an operation ends, and how it goes on.
LEMMA FinishUpdates ==
    ASSUME ProgramsInv, NEW c \in Programs, Finish(c), UNCHANGED offset
    PROVE  Update(c, "idle", Idle, <<>>, offset[c])
  BY DEF ProgramsInv, Finish, Update

LEMMA GotoUpdates ==
    ASSUME ProgramsInv, NEW c \in Programs, NEW where, NEW entries,
           Goto(c, where, entries), UNCHANGED offset
    PROVE  Update(c, where, job[c], entries, offset[c])
  BY DEF ProgramsInv, Goto, Update

LEMMA IdleIsCoherent ==
    ASSUME NEW c
    PROVE  Coherent(c, "idle", Idle) /\ Coherent(c, "reload", Idle)
  BY IdleIsJob DEF Coherent

\* What a program writes once it has loaded a list.
Changed(c, entries) ==
    IF job[c].op = "save" THEN Upsert(entries, Entry(c)) ELSE Without(entries, job[c].name)

LEMMA ChangedInLists ==
    ASSUME ProgramsInv, NEW c \in Programs, NEW entries \in Lists,
           job[c].op \in {"save", "delete"}
    PROVE  Changed(c, entries) \in Lists
  <1>1. CASE job[c].op = "save"
    <2>1. job[c].name \in Names /\ job[c].target \in Targets
      BY <1>1 DEF ProgramsInv, Coherent
    <2>2. Entry(c) \in EntryType
      BY <2>1 DEF Entry, EntryType
    <2> QED  BY <1>1, <2>2, UpsertInLists DEF Changed
  <1>2. CASE job[c].op = "delete"
    BY <1>2, WithoutInLists DEF Changed
  <1> QED
    BY <1>1, <1>2

\* The ways a step of c may take it.
GoesIdle(c)          == Update(c, "idle", Idle, <<>>, offset[c])
Asks(c, entries)  == job[c].op = "save" /\ c \in Dialogs
                     /\ Update(c, "confirm", job[c], entries, offset[c])
Opens(c, entries) == job[c].op \in {"save", "delete"}
                     /\ Update(c, "open", job[c], Changed(c, entries), offset[c])

\* What is done with a list takes one of these ways.
LEMMA ProceedUpdates ==
    ASSUME ProgramsInv, NEW c \in Programs, pc[c] \in {"load", "reload"},
           NEW entries, Proceed(c, entries), UNCHANGED offset
    PROVE  \/ GoesIdle(c)
           \/ pc[c] = "load" /\ (Asks(c, entries) \/ Opens(c, entries))
  <1>1. CASE pc[c] = "reload"
    BY <1>1, FinishUpdates DEF Proceed, GoesIdle
  <1>2. CASE pc[c] = "load" /\ job[c].op = "use"
    BY <1>2, FinishUpdates DEF Proceed, Use, GoesIdle
  <1>3. CASE pc[c] = "load" /\ job[c].op = "save"
    <2>1. \/ c \in Dialogs /\ Goto(c, "confirm", entries)
          \/ Goto(c, "open", Changed(c, entries))
      BY <1>3 DEF Proceed, Changed
    <2> QED  BY <1>3, <2>1, GotoUpdates DEF Asks, Opens
  <1>4. CASE pc[c] = "load" /\ job[c].op = "delete"
    <2>1. Finish(c) \/ Goto(c, "open", Changed(c, entries))
      BY <1>4 DEF Proceed, Programs, Changed
    <2> QED  BY <1>4, <2>1, FinishUpdates, GotoUpdates DEF GoesIdle, Opens
  <1> QED
    BY <1>1, <1>2, <1>3, <1>4 DEF ProgramsInv, Coherent

LEMMA WaysKeepPrograms ==
    ASSUME ProgramsInv, NEW c \in Programs, NEW entries \in Lists,
           GoesIdle(c) \/ Asks(c, entries) \/ Opens(c, entries),
           fresh' \in [Programs -> BOOLEAN]
    PROVE  ProgramsInv'
  <1>1. offset[c] \in Nat /\ job[c] \in Jobs /\ Coherent(c, pc[c], job[c])
    BY DEF ProgramsInv
  <1>2. CASE GoesIdle(c)
    <2>1. "idle" \in Places
      BY DEF Places
    <2> QED  BY <1>1, <1>2, <2>1, IdleIsJob, IdleIsCoherent, UpdateKeepsPrograms DEF GoesIdle
  <1>3. CASE Asks(c, entries)
    <2>1. "confirm" \in Places /\ Coherent(c, "confirm", job[c])
      BY <1>1, <1>3 DEF Places, Asks, Coherent
    <2> QED  BY <1>1, <1>3, <2>1, UpdateKeepsPrograms DEF Asks
  <1>4. CASE Opens(c, entries)
    <2>1. "open" \in Places /\ Coherent(c, "open", job[c])
      BY <1>1, <1>4 DEF Places, Opens, Coherent
    <2>2. Changed(c, entries) \in Lists
      BY <1>4, ChangedInLists DEF Opens
    <2> QED  BY <1>1, <1>4, <2>1, <2>2, UpdateKeepsPrograms DEF Opens
  <1> QED
    BY <1>2, <1>3, <1>4

-----------------------------------------------------------------------------
(* The file.                                                               *)

\* The file does not begin with the opening of a document.
Blank(tokens) == tokens # <<>> /\ tokens[1] # Opening

\* What the file begins with is of the document written last.
OfDocument(tokens, l) == Blank(tokens) \/ Begins(tokens, Document(l))

\* The file is what has been written of a document so far.
Mine(tokens, last, l, at) == last = l /\ tokens = SubSeq(Document(l), 1, at)

\* A program between two blocks of its document: others may have truncated the
\* file behind it, or have put a shorter document at its beginning.
Behind(tokens, last, l, at) ==
    IF at = 0 THEN Len(tokens) <= BlockSize
    ELSE /\ BlockSize <= at
         /\ Len(tokens) <= at
         /\ \/ tokens = <<>>
            \/ Blank(tokens)
            \/ Mine(tokens, last, l, at)
            \/ /\ Len(Document(last)) <= BlockSize
               /\ Len(tokens) >= Len(Document(last))

Size(l) == Len(Document(l))

LEMMA SizeIs ==
    ASSUME NEW l \in Lists
    PROVE  Size(l) \in Nat /\ Size(l) = Len(l) + 2 /\ Size(l) >= 2
           /\ Document(l) \in Seq(Tokens) /\ l \in Seq(EntryType)
  <1>1. l \in Seq(EntryType)
    BY DEF Lists
  <1>2. Len(l) \in Nat /\ Len(Document(l)) = Len(l) + 2 /\ Document(l) \in Seq(Tokens)
    BY <1>1, DocumentIs
  <1> HIDE DEF Lists
  <1> QED
    BY <1>1, <1>2 DEF Size

\* Only a whole document can be read.
LEMMA ReadIsWhole ==
    ASSUME NEW tokens \in Seq(Tokens), NEW l \in Lists, OfDocument(tokens, l)
    PROVE  /\ Readable(tokens) => Entries(tokens) = l /\ Len(tokens) >= Size(l)
           /\ Begins(tokens, Document(l)) /\ Len(tokens) >= Size(l) => Readable(tokens)
  <1>1. CASE Blank(tokens)
    <2>1. Ends(tokens) = {}
      BY <1>1, EndsOfNothing DEF Blank
    <2>2. ~Readable(tokens)
      BY <2>1 DEF Readable
    <2>3. Begins(tokens, Document(l)) /\ Len(tokens) >= Size(l) => Readable(tokens)
      BY SizeIs, DocumentRoundTrip
    <2> QED  BY <2>2, <2>3
  <1>2. CASE Begins(tokens, Document(l))
    <2>1. Len(tokens) \in Nat /\ Size(l) \in Nat /\ Size(l) = Len(l) + 2 /\ l \in Seq(EntryType)
      BY SizeIs
    <2>2. CASE Len(tokens) < Len(l) + 2
      <3>1. Ends(tokens) = {}
        BY <1>2, <2>1, <2>2, EndsOfDocument
      <3> QED  BY <2>1, <2>2, <3>1 DEF Readable
    <2>3. CASE Len(tokens) >= Len(l) + 2
      <3>1. Entries(tokens) = l /\ Readable(tokens)
        BY <1>2, <2>3, DocumentRoundTrip
      <3> QED  BY <2>1, <2>3, <3>1
    <2> QED  BY <2>1, <2>2, <2>3
  <1> QED
    BY <1>1, <1>2 DEF OfDocument

\* What is added behind a file that can be read does not matter.
LEMMA ReadableLonger ==
    ASSUME NEW s \in Seq(Tokens), NEW t \in Seq(Tokens), Readable(s),
           Len(s) <= Len(t), \A i \in 1 .. Len(s) : t[i] = s[i]
    PROVE  Readable(t)
  <1>1. PICK i \in 2 .. Len(s) : /\ s[1] = Opening /\ s[i] = Closing
                                 /\ \A j \in 2 .. i : Fits(s, j)
    BY DEF Readable, Ends
  <1>2. \A j \in 1 .. i : t[j] = s[j]
    OBVIOUS
  <1>3. \A j \in 2 .. i : Fits(t, j)
    <2> TAKE j \in 2 .. i
    <2>1. Fits(s, j) /\ j \in 1 .. i /\ j - 1 \in 1 .. i
      BY <1>1
    <2>2. t[j] = s[j] /\ t[j - 1] = s[j - 1]
      BY <1>2, <2>1
    <2> QED  BY <2>1, <2>2, Zenon DEF Fits
  <1>4. i \in 2 .. Len(t) /\ 1 \in 1 .. i /\ i \in 1 .. i
    BY <1>1
  <1>5. t[1] = Opening /\ t[i] = Closing
    BY <1>1, <1>2, <1>4
  <1>6. i \in Ends(t)
    BY <1>3, <1>4, <1>5, Zenon DEF Ends
  <1> QED
    BY <1>6 DEF Readable

\* How far a block goes that begins at a position.
Upto(l, at) == IF at + BlockSize < Size(l) THEN at + BlockSize ELSE Size(l)

\* The file after a block of l's document was written.
Block(l, at) == Overlay(at, SubSeq(Document(l), at + 1, Upto(l, at)))

LEMMA UptoIs ==
    ASSUME NEW l \in Lists, NEW at \in Nat, at < Size(l)
    PROVE  /\ Upto(l, at) \in Nat /\ at < Upto(l, at) /\ Upto(l, at) <= Size(l)
           /\ Upto(l, at) <= at + BlockSize
           /\ Upto(l, at) < Size(l) => Upto(l, at) = at + BlockSize /\ Size(l) > BlockSize
  <1>1. BlockSize \in Nat \ {0}
    BY SavedTargetsAssumption
  <1>2. Size(l) \in Nat
    BY SizeIs
  <1> QED
    BY <1>1, <1>2 DEF Upto

\* A block replaces what lay where it is written, and nothing else.
LEMMA BlockIs ==
    ASSUME file \in Seq(Tokens), NEW l \in Lists, NEW at \in Nat, at < Size(l)
    PROVE  /\ Block(l, at) \in Seq(Tokens)
           /\ Len(Block(l, at)) = IF Len(file) > Upto(l, at) THEN Len(file) ELSE Upto(l, at)
           /\ \A i \in 1 .. Len(Block(l, at)) :
                 Block(l, at)[i] = IF i > at /\ i <= Upto(l, at) THEN Document(l)[i]
                                   ELSE IF i <= Len(file) THEN file[i] ELSE Hole
  <1> DEFINE u == Upto(l, at)
             D == Document(l)
             b == SubSeq(D, at + 1, u)
             K == Len(file)
             M == IF K > u THEN K ELSE u
  <1>1. u \in Nat /\ at < u /\ u <= Size(l)
    BY UptoIs
  <1>2. D \in Seq(Tokens) /\ Len(D) = Size(l) /\ K \in Nat
    BY SizeIs DEF Size
  <1> HIDE DEF u, D, K
  <1>3. \A i \in at + 1 .. u : D[i] \in Tokens
    BY <1>1, <1>2
  <1>4. /\ Len(b) = u - at
        /\ \A i \in 1 .. u - at : b[i] = D[at + i]
    <2>1. at + 1 \in Int /\ u \in Int
      BY <1>1
    <2>2. /\ Len(b) = IF at + 1 <= u THEN u - (at + 1) + 1 ELSE 0
          /\ \A i \in 1 .. u - (at + 1) + 1 : b[i] = D[at + 1 + i - 1]
      BY <1>3, <2>1, SubSeqProperties
    <2> HIDE DEF b
    <2> QED  BY <1>1, <2>2
  <1> DEFINE T(i) == IF i > at /\ i <= u THEN D[i] ELSE IF i <= K THEN file[i] ELSE Hole
  <1> HIDE DEF b
  <1>5. Overlay(at, b) = [i \in 1 .. M |-> T(i)]
    <2>1. at + Len(b) = u
      BY <1>1, <1>4
    <2>2. \A i \in 1 .. M : (IF i > at /\ i <= u THEN b[i - at]
                              ELSE IF i <= K THEN file[i] ELSE Hole) = T(i)
      <3> TAKE i \in 1 .. M
      <3>1. CASE i > at /\ i <= u
        <4>1. i - at \in 1 .. u - at /\ at + (i - at) = i
          BY <1>1, <3>1
        <4> QED  BY <1>4, <3>1, <4>1
      <3> QED  BY <3>1
    <2>3. Overlay(at, b) = [i \in 1 .. M |-> IF i > at /\ i <= u THEN b[i - at]
                                             ELSE IF i <= K THEN file[i] ELSE Hole]
      BY <2>1 DEF Overlay, K
    <2> HIDE DEF T, M
    <2> QED  BY <2>2, <2>3
  <1>6. M \in Nat /\ \A i \in 1 .. M : T(i) \in Tokens
    <2>1. M \in Nat
      BY <1>1, <1>2
    <2>2. Hole \in Tokens
      BY DEF Tokens
    <2>3. \A i \in 1 .. K : file[i] \in Tokens
      BY DEF K
    <2>4. ASSUME NEW i \in 1 .. M
          PROVE  T(i) \in Tokens
      <3>1. CASE i > at /\ i <= u
        <4>1. D[i] \in Tokens
          BY <1>1, <1>3, <3>1
        <4> QED  BY <3>1, <4>1
      <3>2. CASE ~(i > at /\ i <= u) /\ i <= K
        <4>1. file[i] \in Tokens
          BY <1>1, <1>2, <2>3, <3>2
        <4> QED  BY <3>2, <4>1
      <3>3. CASE ~(i > at /\ i <= u) /\ ~(i <= K)
        BY <2>2, <3>3
      <3> QED  BY <3>1, <3>2, <3>3
    <2> QED  BY <2>1, <2>4
  <1> HIDE DEF T, M
  <1>7. /\ Overlay(at, b) \in Seq(Tokens) /\ Len(Overlay(at, b)) = M
        /\ \A i \in 1 .. M : Overlay(at, b)[i] = T(i)
    BY <1>5, <1>6
  <1> QED
    BY <1>7 DEF Block, T, M, K, D, u, b

\* The first block of a document makes the file begin with it.
LEMMA FirstBlock ==
    ASSUME file \in Seq(Tokens), NEW l \in Lists,
           Size(l) > BlockSize => Len(file) <= BlockSize
    PROVE  /\ Begins(Block(l, 0), Document(l))
           /\ Len(Block(l, 0)) \in Nat /\ Len(Block(l, 0)) >= Upto(l, 0)
           /\ Size(l) > BlockSize =>
                 /\ Upto(l, 0) = BlockSize
                 /\ Mine(Block(l, 0), l, l, BlockSize)
                 /\ Len(Block(l, 0)) = BlockSize
           /\ Size(l) <= BlockSize =>
                 /\ Upto(l, 0) = Size(l)
                 /\ Len(Block(l, 0)) = IF Len(file) > Size(l) THEN Len(file) ELSE Size(l)
  <1> DEFINE new == Block(l, 0)
             u == Upto(l, 0)
             D == Document(l)
             S == Size(l)
             K == Len(file)
  <1>1. /\ BlockSize \in Nat \ {0} /\ S \in Nat /\ S >= 2 /\ K \in Nat
        /\ D \in Seq(Tokens) /\ Len(D) = S
    <2>1. BlockSize \in Nat \ {0}
      BY SavedTargetsAssumption
    <2>2. S \in Nat /\ S >= 2 /\ D \in Seq(Tokens)
      BY SizeIs
    <2>3. Len(D) = S /\ K \in Nat
      BY DEF Size
    <2> QED  BY <2>1, <2>2, <2>3
  <1>2. 0 \in Nat /\ 0 < S
    BY <1>1
  <1>3. u \in Nat /\ u <= S /\ u = IF BlockSize < S THEN BlockSize ELSE S
    BY <1>1 DEF Upto
  <1>4. /\ new \in Seq(Tokens) /\ Len(new) = IF K > u THEN K ELSE u
        /\ \A i \in 1 .. Len(new) :
              new[i] = IF i > 0 /\ i <= u THEN D[i] ELSE IF i <= K THEN file[i] ELSE Hole
    BY <1>2, BlockIs
  <1> HIDE DEF new, u, D, S, K
  <1>5. \A i \in 1 .. u : i \in 1 .. Len(new) /\ new[i] = D[i]
    BY <1>1, <1>3, <1>4
  <1>6. CASE S > BlockSize
    <2>1. u = BlockSize /\ K <= u
      BY <1>1, <1>3, <1>6 DEF K, S
    <2>2. Len(new) = u
      BY <1>1, <1>3, <1>4, <2>1
    <2>3. DOMAIN new = 1 .. u /\ DOMAIN D = 1 .. S
      BY <1>1, <1>4, <2>2
    <2>4. Begins(new, D)
      BY <1>5, <2>3 DEF Begins
    <2>5. new = SubSeq(D, 1, u)
      <3>1. \A i \in 1 .. u : D[i] \in Tokens
        BY <1>1, <1>3
      <3>2. SubSeq(D, 1, u) \in Seq(Tokens) /\ Len(SubSeq(D, 1, u)) = u
            /\ \A i \in 1 .. u : SubSeq(D, 1, u)[i] = D[i]
        BY <1>1, <1>3
      <3> QED  BY <1>4, <1>5, <2>2, <3>2
    <2> QED  BY <1>1, <1>6, <2>1, <2>2, <2>4, <2>5 DEF Mine, new, u, D, S
  <1>7. CASE S <= BlockSize
    <2>1. u = S
      BY <1>1, <1>3, <1>7
    <2>2. DOMAIN D = 1 .. S
      BY <1>1
    <2>3. Begins(new, D)
      BY <1>5, <2>1, <2>2 DEF Begins
    <2>4. Len(new) = (IF K > S THEN K ELSE S) /\ Len(new) \in Nat /\ Len(new) >= u
      BY <1>1, <1>4, <2>1
    <2> QED  BY <1>1, <1>7, <2>1, <2>3, <2>4 DEF new, u, D, S, K
  <1> QED
    BY <1>1, <1>6, <1>7 DEF S

\* A later block changes nothing of what is there: the file is no longer than
\* the position where it goes.
LEMMA LaterBlock ==
    ASSUME file \in Seq(Tokens), NEW last \in Lists, NEW l \in Lists,
           NEW at \in Nat \ {0}, at < Size(l),
           OfDocument(file, last), Behind(file, last, l, at)
    PROVE  /\ OfDocument(Block(l, at), last)
           /\ Len(Block(l, at)) = Upto(l, at) /\ Len(file) <= Upto(l, at)
           /\ \A i \in 1 .. Len(file) : Block(l, at)[i] = file[i]
           /\ Behind(Block(l, at), last, l, Upto(l, at))
           /\ Mine(file, last, l, at) => Mine(Block(l, at), last, l, Upto(l, at))
  <1> DEFINE new == Block(l, at)
             u == Upto(l, at)
             D == Document(l)
             E == Document(last)
             S == Size(l)
             K == Len(file)
  <1>1. /\ BlockSize \in Nat \ {0} /\ S \in Nat /\ K \in Nat
        /\ D \in Seq(Tokens) /\ Len(D) = S /\ file \in Seq(Tokens)
        /\ E \in Seq(Tokens) /\ Len(E) \in Nat /\ Len(E) >= 2
    <2>1. BlockSize \in Nat \ {0}
      BY SavedTargetsAssumption
    <2>2. S \in Nat /\ D \in Seq(Tokens) /\ E \in Seq(Tokens) /\ Size(last) >= 2
      BY SizeIs
    <2>3. Len(D) = S /\ Len(E) = Size(last) /\ K \in Nat
      BY DEF Size
    <2>4. Size(last) \in Nat
      BY SizeIs
    <2> QED  BY <2>1, <2>2, <2>3, <2>4
  <1>2. at \in Nat /\ at > 0 /\ u \in Nat /\ at < u /\ u <= S
    BY UptoIs
  <1>3. BlockSize <= at /\ K <= at
    BY DEF Behind
  <1>4. /\ new \in Seq(Tokens) /\ Len(new) = IF K > u THEN K ELSE u
        /\ \A i \in 1 .. Len(new) :
              new[i] = IF i > at /\ i <= u THEN D[i] ELSE IF i <= K THEN file[i] ELSE Hole
    BY BlockIs
  <1> HIDE DEF new, u, D, E, S, K
  <1>5. Len(new) = u /\ K <= u
    BY <1>1, <1>2, <1>3, <1>4
  <1>6. \A i \in 1 .. K : i \in 1 .. Len(new) /\ new[i] = file[i]
    BY <1>1, <1>2, <1>3, <1>4, <1>5
  <1>7. DOMAIN new = 1 .. u /\ DOMAIN file = 1 .. K /\ DOMAIN E = 1 .. Len(E)
    BY <1>1, <1>4, <1>5 DEF K
  <1>8. CASE Blank(file)
    <2>1. K >= 1 /\ file[1] # Opening
      BY <1>1, <1>8 DEF Blank, K
    <2>2. new # <<>> /\ new[1] # Opening
      BY <1>1, <1>2, <1>5, <1>6, <2>1
    <2>3. Blank(new)
      BY <2>2 DEF Blank
    <2>4. ~Mine(file, last, l, at)
      <3>1. D[1] = Opening
        BY SizeIs, DocumentIs DEF D
      <3>2. SubSeq(D, 1, at)[1] = D[1]
        BY <1>1, <1>2
      <3> QED  BY <2>1, <3>1, <3>2 DEF Mine, D
    <2> QED  BY <1>1, <1>2, <1>3, <1>5, <1>6, <2>3, <2>4 DEF OfDocument, Behind, new, u, D, E, S, K
  <1>9. CASE file = <<>>
    <2>1. K = 0
      BY <1>9 DEF K
    <2>2. 1 \in 1 .. Len(new) /\ ~(1 > at /\ 1 <= u) /\ ~(1 <= K)
      BY <1>1, <1>2, <1>5, <2>1
    <2>3. new[1] = Hole
      BY <1>4, <2>2
    <2>4. Hole # Opening
      BY TokenFields
    <2>5. new # <<>>
      BY <1>2, <1>5
    <2>6. Blank(new)
      BY <2>3, <2>4, <2>5 DEF Blank
    <2>7. ~Mine(file, last, l, at)
      <3>1. Len(SubSeq(D, 1, at)) = at
        BY <1>1, <1>2
      <3>2. K = 0 /\ K # at
        BY <1>2, <2>1
      <3> QED  BY <3>1, <3>2 DEF Mine, D, K
    <2> QED  BY <1>1, <1>2, <1>3, <1>5, <1>6, <2>6, <2>7 DEF OfDocument, Behind, new, u, D, E, S, K
  <1>10. CASE Mine(file, last, l, at)
    <2>1. last = l /\ E = D /\ file = SubSeq(D, 1, at)
      BY <1>10 DEF Mine, D, E
    <2>2. K = at /\ \A i \in 1 .. at : file[i] = D[i]
      BY <1>1, <1>2, <2>1 DEF K
    <2>3. \A i \in 1 .. u : new[i] = D[i]
      BY <1>1, <1>2, <1>4, <1>5, <2>2
    <2>4. SubSeq(D, 1, u) \in Seq(Tokens) /\ Len(SubSeq(D, 1, u)) = u
          /\ \A i \in 1 .. u : SubSeq(D, 1, u)[i] = D[i]
      BY <1>1, <1>2
    <2>5. new = SubSeq(D, 1, u)
      BY <1>4, <1>5, <2>3, <2>4
    <2>6. Mine(new, last, l, u)
      BY <2>1, <2>5 DEF Mine, D
    <2>7. Begins(new, E)
      BY <1>7, <2>1, <2>3 DEF Begins
    <2> QED  BY <1>1, <1>2, <1>3, <1>5, <1>6, <2>6, <2>7 DEF OfDocument, Behind, new, u, D, E, S, K
  <1>11. CASE Begins(file, E) /\ Len(E) <= BlockSize /\ K >= Len(E) /\ ~Mine(file, last, l, at)
    <2>1. \A i \in 1 .. Len(E) : i \in 1 .. K
      BY <1>1, <1>11
    <2>2. \A i \in 1 .. Len(E) : new[i] = E[i]
      BY <1>6, <1>7, <1>11, <2>1 DEF Begins
    <2>3. Begins(new, E)
      BY <1>7, <2>2 DEF Begins
    <2>4. u >= Len(E)
      BY <1>1, <1>2, <1>3, <1>11
    <2> QED  BY <1>1, <1>2, <1>3, <1>5, <1>6, <1>11, <2>3, <2>4 DEF OfDocument, Behind, new, u, D, E, S, K
  <1>12. \/ file = <<>> \/ Blank(file) \/ Mine(file, last, l, at)
         \/ Len(E) <= BlockSize /\ K >= Len(E)
    <2>1. at # 0
      BY <1>2
    <2> QED  BY <2>1 DEF Behind, E, K
  <1>13. Blank(file) \/ Begins(file, E)
    BY DEF OfDocument, E
  <1> QED
    BY <1>8, <1>9, <1>10, <1>11, <1>12, <1>13

\* A program between two blocks has not written all of its document, and has
\* written some only if it is longer than a block.
OffsetInv ==
    \A c \in Writers : /\ offset[c] < Size(list[c])
                       /\ Size(list[c]) > BlockSize \/ offset[c] = 0

\* Until two long saves overlap, the file is of the document written last, and
\* the one program with a long document lies behind or is where it left off.
FileInv ==
    ~tangled =>
        /\ OfDocument(file, whole)
        /\ \A c, d \in Writers : Long(c) /\ Long(d) => c = d
        /\ \A c \in Writers : Long(c) => Behind(file, whole, list[c], offset[c])

\* The document of a writer will be whole, or the file is already.
WillBeWhole(c) == ~Long(c) \/ offset[c] = 0 \/ Mine(file, whole, list[c], offset[c])

\* Until a fault, the file can be read or somebody is about to make it so.
QuietInv ==
    exists /\ ~tangled /\ faults = 0 => Readable(file) \/ \E c \in Writers : WillBeWhole(c)

AbsentInv == ~exists => file = <<>> /\ whole = <<>> /\ Writers = {}

DiskType ==
    /\ exists \in BOOLEAN
    /\ file \in Seq(Tokens)
    /\ whole \in Lists
    /\ faults \in Nat
    /\ tangled \in BOOLEAN
    /\ damaged \in BOOLEAN

DiskInv == DiskType /\ OffsetInv /\ FileInv /\ QuietInv /\ AbsentInv

LEMMA LongIs ==
    ASSUME NEW c
    PROVE  /\ Long(c) <=> Size(list[c]) > BlockSize
           /\ Long(c)' <=> Size(list'[c]) > BlockSize
  BY DEF Long, Doc, Size

\* Steps after which the writers are those there were, without c.
LEMMA OthersWrite ==
    ASSUME ProgramsInv, NEW c \in Programs,
           NEW where \in Places \ {"write"}, NEW what \in Jobs, NEW entries \in Lists, NEW at \in Nat,
           Update(c, where, what, entries, at)
    PROVE  /\ Writers' = Writers \ {c}
           /\ \A d \in Writers' : /\ d \in Programs \ {c} /\ list'[d] = list[d] /\ offset'[d] = offset[d]
                                  /\ Long(d)' = Long(d)
  <1>1. /\ pc'[c] = where
        /\ \A p \in Programs \ {c} : pc'[p] = pc[p] /\ list'[p] = list[p] /\ offset'[p] = offset[p]
    BY UpdateIs
  <1>2. Writers' = Writers \ {c}
    BY <1>1 DEF Writers
  <1>3. \A d \in Writers' : d \in Programs \ {c}
    BY <1>2 DEF Writers
  <1> QED
    BY <1>1, <1>2, <1>3 DEF Long, Doc

\* A step of c that ends or begins elsewhere than at writing keeps the file.
LEMMA StepElsewhere ==
    ASSUME ProgramsInv, DiskInv, NEW c \in Programs,
           NEW where \in Places \ {"write"}, NEW what \in Jobs, NEW entries \in Lists, NEW at \in Nat,
           Update(c, where, what, entries, at),
           UNCHANGED <<exists, file, whole, tangled>>,
           damaged' \in BOOLEAN, faults' \in Nat,
           faults' = 0 => faults = 0 /\ pc[c] # "write"
    PROVE  DiskInv'
  <1>1. /\ Writers' = Writers \ {c}
        /\ \A d \in Writers' : /\ d \in Programs \ {c} /\ list'[d] = list[d] /\ offset'[d] = offset[d]
                               /\ Long(d)' = Long(d)
    BY OthersWrite
  <1>2. DiskType'
    BY DEF DiskInv, DiskType
  <1>3. OffsetInv'
    BY <1>1 DEF DiskInv, OffsetInv
  <1>4. FileInv'
    <2>1. CASE tangled
      BY <2>1 DEF FileInv
    <2>2. CASE ~tangled
      BY <1>1, <2>2 DEF DiskInv, FileInv
    <2> QED  BY <2>1, <2>2
  <1>5. QuietInv'
    <2> SUFFICES ASSUME exists, ~tangled, faults' = 0
                 PROVE  Readable(file) \/ \E d \in Writers' : WillBeWhole(d)'
      BY DEF QuietInv
    <2>1. pc[c] # "write" /\ faults = 0
      OBVIOUS
    <2>2. Writers' = Writers
      BY <1>1, <2>1 DEF Writers
    <2>3. Readable(file) \/ \E d \in Writers : WillBeWhole(d)
      BY <2>1 DEF DiskInv, QuietInv
    <2>4. \A d \in Writers' : WillBeWhole(d) => WillBeWhole(d)'
      BY <1>1 DEF WillBeWhole
    <2> QED  BY <2>2, <2>3, <2>4
  <1>6. AbsentInv'
    BY <1>1 DEF DiskInv, AbsentInv
  <1> QED
    BY <1>2, <1>3, <1>4, <1>5, <1>6 DEF DiskInv

\* fopen(path, "w") leaves nothing of what was there.
LEMMA TruncateKeepsDisk ==
    ASSUME ProgramsInv, DiskInv, NEW c \in Programs, Truncate(c)
    PROVE  DiskInv'
  <1>1. /\ pc[c] = "open" /\ exists' = TRUE /\ file' = <<>> /\ whole' = <<>>
        /\ pc' = [pc EXCEPT ![c] = "write"] /\ list' = [list EXCEPT ![c] = list[c]]
        /\ job' = job /\ offset' = [offset EXCEPT ![c] = 0]
        /\ faults' = faults
        /\ tangled' = (tangled \/ (Long(c) /\ \E p \in Writers : Long(p)))
        /\ damaged' = (damaged \/ ~fresh[c] \/ Writers # {})
    BY DEF Truncate, Goto, bounds
  <1>2. Update(c, "write", job[c], list[c], 0)
    BY <1>1 DEF Update, ProgramsInv
  <1>3. "write" \in Places /\ job[c] \in Jobs /\ list[c] \in Lists /\ 0 \in Nat
    BY DEF Places, ProgramsInv
  <1>4. /\ pc'[c] = "write" /\ list'[c] = list[c] /\ offset'[c] = 0
        /\ \A p \in Programs \ {c} : pc'[p] = pc[p] /\ list'[p] = list[p] /\ offset'[p] = offset[p]
    BY <1>2, <1>3, UpdateIs
  <1>5. Writers' = Writers \cup {c} /\ c \in Programs /\ c \notin Writers
    BY <1>1, <1>4 DEF Writers
  <1>6. \A p \in Programs : list'[p] = list[p] /\ Long(p)' = Long(p)
    BY <1>4 DEF Long, Doc
  <1>7. BlockSize \in Nat \ {0} /\ Size(list[c]) \in Nat /\ Size(list[c]) >= 2
    <2>1. BlockSize \in Nat \ {0}
      BY SavedTargetsAssumption
    <2> QED  BY <1>3, <2>1, SizeIs
  <1>8. \A p \in Writers : p \in Programs \ {c} /\ offset'[p] = offset[p]
    BY <1>4, <1>5 DEF Writers
  <1>9. DiskType'
    <2>1. <<>> \in Lists /\ <<>> \in Seq(Tokens)
      BY IdleIsJob
    <2> QED  BY <1>1, <2>1 DEF DiskInv, DiskType
  <1>10. OffsetInv'
    <2>1. 0 < Size(list[c])
      BY <1>7
    <2> QED  BY <1>4, <1>5, <1>6, <1>8, <2>1 DEF DiskInv, OffsetInv, Writers
  <1>11. FileInv'
    <2> SUFFICES ASSUME ~tangled'
                 PROVE  /\ OfDocument(<<>>, <<>>)
                        /\ \A d, e \in Writers' : Long(d)' /\ Long(e)' => d = e
                        /\ \A d \in Writers' : Long(d)' => Behind(<<>>, <<>>, list'[d], offset'[d])
      BY <1>1 DEF FileInv
    <2>1. ~tangled /\ ~(Long(c) /\ \E p \in Writers : Long(p))
      BY <1>1
    <2>2. OfDocument(<<>>, <<>>)
      BY DEF OfDocument, Begins
    <2>3. \A d, e \in Writers' : Long(d)' /\ Long(e)' => d = e
      BY <1>5, <1>6, <1>8, <2>1 DEF DiskInv, FileInv
    <2>4. ASSUME NEW d \in Writers', Long(d)'
          PROVE  Behind(<<>>, <<>>, list'[d], offset'[d])
      <3>1. CASE d = c
        BY <1>4, <1>7, <3>1 DEF Behind
      <3>2. CASE d # c
        <4>1. d \in Writers /\ Long(d) /\ offset'[d] = offset[d] /\ d \in Programs
          BY <1>5, <1>6, <1>8, <2>4, <3>2
        <4>2. Behind(file, whole, list[d], offset[d])
          BY <2>1, <4>1 DEF DiskInv, FileInv
        <4>3. CASE offset[d] = 0
          BY <1>7, <4>1, <4>3 DEF Behind
        <4>4. CASE offset[d] # 0
          <5>1. BlockSize <= offset[d] /\ offset[d] \in Nat
            BY <4>1, <4>2, <4>4 DEF Behind, ProgramsInv
          <5> QED  BY <1>7, <4>1, <4>4, <5>1 DEF Behind
        <4> QED  BY <4>3, <4>4
      <3> QED  BY <3>1, <3>2
    <2> QED  BY <2>2, <2>3, <2>4
  <1>12. QuietInv'
    <2>1. WillBeWhole(c)'
      BY <1>4 DEF WillBeWhole
    <2> QED  BY <1>5, <2>1 DEF QuietInv
  <1>13. AbsentInv'
    BY <1>1 DEF AbsentInv
  <1> QED
    BY <1>9, <1>10, <1>11, <1>12, <1>13 DEF DiskInv

\* What a block does to the program that writes it.
LEMMA WriteBlockIs ==
    ASSUME ProgramsInv, DiskInv, NEW c \in Programs, WriteBlock(c)
    PROVE  /\ c \in Writers /\ list[c] \in Lists /\ offset[c] \in Nat /\ offset[c] < Size(list[c])
           /\ file' = Block(list[c], offset[c])
           /\ whole' = IF offset[c] = 0 THEN list[c] ELSE whole
           /\ UNCHANGED <<exists, faults, tangled, damaged>>
           /\ fresh' = [p \in Programs |-> FALSE]
           /\ stored' = IF pc'[c] = "write" \/ damaged THEN stored ELSE Table(Entries(file'))
           /\ \/ /\ Upto(list[c], offset[c]) < Size(list[c])
                 /\ Update(c, "write", job[c], list[c], Upto(list[c], offset[c]))
              \/ /\ Upto(list[c], offset[c]) = Size(list[c])
                 /\ \/ c \in Dialogs /\ Update(c, "reload", job[c], <<>>, 0)
                    \/ Update(c, "idle", Idle, <<>>, 0)
  <1>1. /\ pc[c] = "write" /\ c \in Writers /\ list[c] \in Lists /\ offset[c] \in Nat
    BY DEF WriteBlock, Writers, ProgramsInv
  <1>2. offset[c] < Size(list[c])
    BY <1>1 DEF DiskInv, OffsetInv
  <1> DEFINE u == Upto(list[c], offset[c])
  <1>3. /\ u = IF offset[c] + BlockSize < Len(Doc(c)) THEN offset[c] + BlockSize ELSE Len(Doc(c))
        /\ Size(list[c]) = Len(Doc(c)) /\ Document(list[c]) = Doc(c)
    BY DEF Upto, Size, Doc
  <1>4. u <= Size(list[c]) /\ u \in Nat /\ Size(list[c]) \in Nat
    BY <1>1, <1>2, UptoIs, SizeIs
  <1>5. /\ file' = Overlay(offset[c], SubSeq(Doc(c), offset[c] + 1, u))
        /\ IF u < Len(Doc(c))
           THEN offset' = [offset EXCEPT ![c] = u] /\ UNCHANGED <<pc, job, list>>
           ELSE /\ offset' = [offset EXCEPT ![c] = 0]
                /\ IF c \in Dialogs THEN Goto(c, "reload", <<>>) ELSE Finish(c)
        /\ whole' = IF offset[c] = 0 THEN list[c] ELSE whole
        /\ UNCHANGED <<exists, faults, tangled, damaged>>
        /\ fresh' = [p \in Programs |-> FALSE]
        /\ stored' = IF pc'[c] = "write" \/ damaged THEN stored ELSE Table(Entries(file'))
    <2> HIDE DEF u
    <2> QED  BY <1>3 DEF WriteBlock, bounds
  <1>6. file' = Block(list[c], offset[c])
    BY <1>3, <1>5 DEF Block
  <1> HIDE DEF u
  <1>7. CASE u < Size(list[c])
    <2>1. offset' = [offset EXCEPT ![c] = u] /\ UNCHANGED <<pc, job, list>>
      BY <1>3, <1>5, <1>7
    <2>2. Update(c, "write", job[c], list[c], u)
      BY <1>1, <2>1 DEF Update, ProgramsInv
    <2> QED  BY <1>1, <1>2, <1>5, <1>6, <1>7, <2>2 DEF u
  <1>8. CASE u = Size(list[c])
    <2>1. /\ offset' = [offset EXCEPT ![c] = 0]
          /\ IF c \in Dialogs THEN Goto(c, "reload", <<>>) ELSE Finish(c)
      BY <1>3, <1>4, <1>5, <1>8
    <2>2. \/ c \in Dialogs /\ Update(c, "reload", job[c], <<>>, 0)
          \/ Update(c, "idle", Idle, <<>>, 0)
      BY <2>1 DEF Update, Goto, Finish, ProgramsInv
    <2> QED  BY <1>1, <1>2, <1>5, <1>6, <1>8, <2>2 DEF u
  <1> QED
    BY <1>4, <1>7, <1>8

\* A block keeps the file the beginning of the document written last: the first
\* block because it covers that beginning, a later one because it lies behind it.
LEMMA WriteBlockKeepsDisk ==
    ASSUME ProgramsInv, DiskInv, NEW c \in Programs, WriteBlock(c)
    PROVE  DiskInv'
  <1> DEFINE l == list[c]
             o == offset[c]
             u == Upto(l, o)
             new == Block(l, o)
             K == Len(file)
  <1>1. /\ c \in Writers /\ l \in Lists /\ o \in Nat /\ o < Size(l)
        /\ file' = new /\ whole' = (IF o = 0 THEN l ELSE whole)
        /\ UNCHANGED <<exists, faults, tangled, damaged>>
        /\ \/ u < Size(l) /\ Update(c, "write", job[c], l, u)
           \/ /\ u = Size(l)
              /\ Update(c, "reload", job[c], <<>>, 0) \/ Update(c, "idle", Idle, <<>>, 0)
    BY WriteBlockIs
  <1>2. /\ BlockSize \in Nat \ {0} /\ Size(l) \in Nat /\ K \in Nat
        /\ u \in Nat /\ o < u /\ u <= Size(l)
        /\ u < Size(l) => Size(l) > BlockSize
    <2>1. BlockSize \in Nat \ {0} /\ file \in Seq(Tokens)
      BY SavedTargetsAssumption DEF DiskInv, DiskType
    <2> QED  BY <1>1, <2>1, UptoIs, SizeIs
  <1>3. /\ job[c] \in Jobs /\ Idle \in Jobs /\ <<>> \in Lists
        /\ {"write", "reload", "idle"} \subseteq Places
        /\ file \in Seq(Tokens) /\ whole \in Lists
    BY IdleIsJob DEF ProgramsInv, Places, DiskInv, DiskType
  <1> HIDE DEF l, o, u, new, K
  <1>4. /\ \A p \in Programs \ {c} : pc'[p] = pc[p] /\ list'[p] = list[p] /\ offset'[p] = offset[p]
        /\ \/ u < Size(l) /\ pc'[c] = "write" /\ list'[c] = l /\ offset'[c] = u
           \/ u = Size(l) /\ pc'[c] # "write"
    <2>1. CASE u < Size(l) /\ Update(c, "write", job[c], l, u)
      BY <1>1, <1>2, <1>3, <2>1, UpdateIs
    <2>2. CASE u = Size(l) /\ Update(c, "reload", job[c], <<>>, 0)
      BY <1>3, <2>2, UpdateIs
    <2>3. CASE u = Size(l) /\ Update(c, "idle", Idle, <<>>, 0)
      BY <1>3, <2>3, UpdateIs
    <2> QED  BY <1>1, <2>1, <2>2, <2>3
  <1>5. /\ Writers' \subseteq Writers
        /\ Writers \ {c} \subseteq Writers'
        /\ c \in Writers' <=> u < Size(l)
    <2>1. /\ \A p \in Programs : p # c => (p \in Writers' <=> p \in Writers)
          /\ c \in Writers /\ c \in Programs /\ Writers' \subseteq Programs
      BY <1>1, <1>4 DEF Writers
    <2>2. CASE u < Size(l)
      <3>1. c \in Writers'
        BY <1>2, <1>4, <2>1, <2>2 DEF Writers
      <3> QED  BY <2>1, <2>2, <3>1 DEF Writers
    <2>3. CASE u = Size(l)
      <3>1. c \notin Writers' /\ ~(u < Size(l))
        BY <1>2, <1>4, <2>3 DEF Writers
      <3> QED  BY <2>1, <3>1 DEF Writers
    <2> QED  BY <1>4, <2>2, <2>3
  <1>6. \A d \in Writers' : list'[d] = list[d] /\ (Long(d)' <=> Long(d))
    BY <1>1, <1>2, <1>4, <1>5 DEF Long, Doc, Writers, l
  <1>7. \A d \in Writers' \ {c} : offset'[d] = offset[d]
    BY <1>4 DEF Writers
  <1>8. Long(c) <=> Size(l) > BlockSize
    BY LongIs DEF l
  <1>9. DiskType'
    <2>1. new \in Seq(Tokens)
      BY <1>1, <1>3, BlockIs DEF new
    <2> QED  BY <1>1, <1>3, <2>1 DEF DiskInv, DiskType
  <1>10. OffsetInv'
    <2> SUFFICES ASSUME NEW d \in Writers'
                 PROVE  /\ offset'[d] < Size(list'[d])
                        /\ Size(list'[d]) > BlockSize \/ offset'[d] = 0
      BY DEF OffsetInv
    <2>1. CASE d = c
      BY <1>2, <1>4, <1>5, <2>1 DEF l
    <2>2. CASE d # c
      BY <1>5, <1>6, <1>7, <2>2 DEF DiskInv, OffsetInv
    <2> QED  BY <2>1, <2>2
  <1>11. ASSUME ~tangled
         PROVE  /\ OfDocument(file, whole)
                /\ \A d \in Writers : Long(d) /\ Long(c) => d = c
                /\ \A d \in Writers : Long(d) => Behind(file, whole, list[d], offset[d])
    BY <1>1, <1>11 DEF DiskInv, FileInv
  <1>12. CASE o = 0
    <2>1. whole' = l /\ new = Block(l, 0) /\ u = Upto(l, 0)
      BY <1>1, <1>12 DEF new, u
    <2>2. ASSUME ~tangled
          PROVE  /\ Begins(new, Document(l))
                 /\ Len(new) \in Nat /\ Len(new) >= u
                 /\ Size(l) > BlockSize =>
                       u = BlockSize /\ Mine(new, l, l, BlockSize) /\ Len(new) = BlockSize
                 /\ Size(l) <= BlockSize =>
                       u = Size(l) /\ Len(new) = IF K > Size(l) THEN K ELSE Size(l)
      <3>1. Size(l) > BlockSize => K <= BlockSize
        BY <1>1, <1>8, <1>11, <1>12, <2>2 DEF Behind, K, o
      <3> QED  BY <1>1, <1>3, <2>1, <3>1, FirstBlock DEF K
    <2>3. FileInv'
      <3> SUFFICES ASSUME ~tangled
                   PROVE  /\ OfDocument(new, l)
                          /\ \A d, e \in Writers' : Long(d)' /\ Long(e)' => d = e
                          /\ \A d \in Writers' : Long(d)' => Behind(new, l, list'[d], offset'[d])
        BY <1>1, <2>1 DEF FileInv
      <3>1. OfDocument(new, l)
        BY <2>2 DEF OfDocument
      <3>2. \A d, e \in Writers' : Long(d)' /\ Long(e)' => d = e
        BY <1>5, <1>6 DEF DiskInv, FileInv
      <3>3. ASSUME NEW d \in Writers', Long(d)'
            PROVE  Behind(new, l, list'[d], offset'[d])
        <4>1. CASE d = c
          <5>1. Size(l) > BlockSize /\ list'[d] = l /\ offset'[d] = u
            BY <1>2, <1>4, <1>5, <4>1
          <5>2. u = BlockSize /\ Mine(new, l, l, BlockSize) /\ Len(new) = BlockSize
            BY <2>2, <5>1
          <5> QED  BY <1>2, <5>1, <5>2 DEF Behind
        <4>2. CASE d # c
          <5>1. d \in Writers /\ Long(d) /\ list'[d] = list[d] /\ offset'[d] = offset[d]
            BY <1>5, <1>6, <1>7, <3>3, <4>2
          <5>2. ~Long(c) /\ Size(l) <= BlockSize
            BY <1>2, <1>8, <1>11, <4>2, <5>1
          <5>3. Len(new) = (IF K > Size(l) THEN K ELSE Size(l)) /\ Len(Document(l)) = Size(l)
            BY <2>2, <5>2 DEF Size
          <5>4. Behind(file, whole, list[d], offset[d]) /\ offset[d] \in Nat
            BY <1>11, <5>1 DEF Writers, ProgramsInv
          <5>5. CASE offset[d] = 0
            <6>1. K <= BlockSize
              BY <5>4, <5>5 DEF Behind, K
            <6>2. Len(new) <= BlockSize
              BY <1>2, <5>2, <5>3, <6>1
            <6> QED  BY <5>1, <5>5, <6>2 DEF Behind
          <5>6. CASE offset[d] # 0
            <6>1. BlockSize <= offset[d] /\ K <= offset[d]
              BY <5>4, <5>6 DEF Behind, K
            <6>2. Len(new) <= offset[d] /\ Len(new) >= Len(Document(l)) /\ Len(Document(l)) <= BlockSize
              BY <1>2, <5>2, <5>3, <5>4, <6>1
            <6> QED  BY <5>1, <5>6, <6>1, <6>2 DEF Behind
          <5> QED  BY <5>5, <5>6
        <4> QED  BY <4>1, <4>2
      <3> QED  BY <3>1, <3>2, <3>3
    <2>4. QuietInv'
      <3> SUFFICES ASSUME ~tangled
                   PROVE  Readable(new) \/ \E d \in Writers' : WillBeWhole(d)'
        BY <1>1 DEF QuietInv
      <3>1. CASE u < Size(l)
        <4>1. Mine(new, l, l, u)
          BY <1>2, <2>2, <3>1
        <4>2. list'[c] = l /\ offset'[c] = u /\ c \in Writers'
          BY <1>2, <1>4, <1>5, <3>1
        <4>3. WillBeWhole(c)'
          BY <1>1, <2>1, <4>1, <4>2 DEF WillBeWhole
        <4> QED  BY <4>2, <4>3
      <3>2. CASE u = Size(l)
        <4>1. new \in Seq(Tokens) /\ OfDocument(new, l)
          BY <1>1, <1>9, <2>2 DEF DiskType, OfDocument
        <4> QED  BY <1>1, <2>2, <3>2, <4>1, ReadIsWhole
      <3> QED  BY <1>2, <3>1, <3>2
    <2>5. AbsentInv'
      BY <1>1 DEF DiskInv, AbsentInv
    <2> QED  BY <1>9, <1>10, <2>3, <2>4, <2>5 DEF DiskInv
  <1>13. CASE o # 0
    <2>1. whole' = whole /\ Long(c) /\ Size(l) > BlockSize
      BY <1>1, <1>8, <1>13 DEF DiskInv, OffsetInv, l, o
    <2>2. ASSUME ~tangled
          PROVE  /\ OfDocument(new, whole)
                 /\ Len(new) = u /\ K <= u
                 /\ \A i \in 1 .. K : new[i] = file[i]
                 /\ Behind(new, whole, l, u)
                 /\ Mine(file, whole, l, o) => Mine(new, whole, l, u)
      <3>1. OfDocument(file, whole) /\ Behind(file, whole, l, o)
        BY <1>1, <1>11, <2>1, <2>2 DEF l, o
      <3>2. o \in Nat \ {0}
        BY <1>1, <1>13
      <3> QED  BY <1>1, <1>3, <3>1, <3>2, LaterBlock DEF new, u, K
    <2>3. FileInv'
      <3> SUFFICES ASSUME ~tangled
                   PROVE  /\ OfDocument(new, whole)
                          /\ \A d, e \in Writers' : Long(d)' /\ Long(e)' => d = e
                          /\ \A d \in Writers' : Long(d)' => Behind(new, whole, list'[d], offset'[d])
        BY <1>1, <2>1 DEF FileInv
      <3>1. \A d, e \in Writers' : Long(d)' /\ Long(e)' => d = e
        BY <1>5, <1>6 DEF DiskInv, FileInv
      <3>2. ASSUME NEW d \in Writers', Long(d)'
            PROVE  Behind(new, whole, list'[d], offset'[d])
        <4>1. d = c
          BY <1>5, <1>6, <1>11, <2>1, <3>2
        <4>2. list'[c] = l /\ offset'[c] = u
          BY <1>2, <1>4, <1>5, <4>1
        <4> QED  BY <2>2, <4>1, <4>2
      <3> QED  BY <2>2, <3>1, <3>2
    <2>4. QuietInv'
      <3> SUFFICES ASSUME exists, ~tangled, faults = 0
                   PROVE  Readable(new) \/ \E d \in Writers' : WillBeWhole(d)'
        BY <1>1 DEF QuietInv
      <3>0. new \in Seq(Tokens)
        BY <1>1, <1>9 DEF DiskType
      <3>1. CASE Mine(file, whole, l, o)
        <4>1. Mine(new, whole, l, u)
          BY <2>2, <3>1
        <4>2. CASE u < Size(l)
          <5>1. list'[c] = l /\ offset'[c] = u /\ c \in Writers'
            BY <1>2, <1>4, <1>5, <4>2
          <5>2. WillBeWhole(c)'
            BY <1>1, <2>1, <4>1, <5>1 DEF WillBeWhole
          <5> QED  BY <5>1, <5>2
        <4>3. CASE u = Size(l)
          <5> DEFINE D == Document(l)
          <5>1. D \in Seq(Tokens) /\ Len(D) = Size(l)
            BY <1>1, SizeIs DEF Size
          <5>2. new = SubSeq(D, 1, Len(D))
            BY <4>1, <4>3, <5>1 DEF Mine
          <5> HIDE DEF D
          <5>3. new = D
            BY <5>1, <5>2, SubSeqFull
          <5>4. Begins(new, D) /\ Len(new) >= Size(l)
            BY <1>2, <5>1, <5>3 DEF Begins
          <5>5. OfDocument(new, l)
            BY <5>4 DEF OfDocument, D
          <5> QED  BY <1>1, <3>0, <5>4, <5>5, ReadIsWhole DEF D
        <4> QED  BY <1>2, <4>2, <4>3
      <3>2. CASE Readable(file)
        <4>1. Len(file) <= Len(new) /\ \A i \in 1 .. Len(file) : new[i] = file[i]
          BY <2>2 DEF K
        <4> QED  BY <1>3, <3>0, <3>2, <4>1, ReadableLonger
      <3>3. CASE ~Mine(file, whole, l, o) /\ ~Readable(file)
        <4>1. PICK d \in Writers : WillBeWhole(d)
          BY <3>3 DEF DiskInv, QuietInv
        <4>2. d # c
          BY <1>13, <2>1, <3>3, <4>1 DEF WillBeWhole, l, o
        <4>3. ~Long(d) /\ d \in Writers'
          BY <1>5, <1>11, <2>1, <4>2
        <4>4. WillBeWhole(d)'
          BY <1>6, <4>3 DEF WillBeWhole
        <4> QED  BY <4>3, <4>4
      <3> QED  BY <3>1, <3>2, <3>3
    <2>5. AbsentInv'
      BY <1>1 DEF DiskInv, AbsentInv
    <2> QED  BY <1>9, <1>10, <2>3, <2>4, <2>5 DEF DiskInv
  <1> QED
    BY <1>12, <1>13

-----------------------------------------------------------------------------
(* The dialogs.                                                            *)

FormPorts == (Ports \cup {DefaultPort[p] : p \in Protocols}) \ {0}

Forms == [protocol : Protocols, port : FormPorts, login : Passwords, deploy : Passwords]

\* What the dialogs show.
DialogsInv ==
    /\ form \in [Dialogs -> Forms]
    /\ combo \in [Dialogs -> SUBSET Names]
    /\ DOMAIN selected = Dialogs
    /\ \A d \in Dialogs : selected[d] \in combo[d] \cup {NoName}

\* A form never shows port 0.
LEMMA FormPortsAre ==
    /\ \A p \in Protocols : DefaultPort[p] \in FormPorts
    /\ \A n \in FormPorts : n \in Nat \ {0}
    /\ \A n \in Ports : n # 0 => n \in FormPorts
    /\ \A t \in Targets : t.port > 0 => t.port \in FormPorts
  <1>1. DefaultPort \in [Protocols -> Nat \ {0}] /\ Ports \subseteq Nat
    BY SavedTargetsAssumption
  <1>2. \A p \in Protocols : DefaultPort[p] \in Nat \ {0}
    BY <1>1
  <1>3. \A t \in Targets : t.port \in Ports \cup {DefaultPort[p] : p \in Protocols}
    BY DEF Targets
  <1>4. \A p \in Protocols : DefaultPort[p] \in FormPorts
    BY <1>2 DEF FormPorts
  <1>5. \A n \in FormPorts : n \in Nat \ {0}
    <2> SUFFICES ASSUME NEW n \in FormPorts PROVE n \in Nat \ {0}
      OBVIOUS
    <2>1. n # 0 /\ (n \in Ports \/ \E p \in Protocols : n = DefaultPort[p])
      BY DEF FormPorts
    <2> QED  BY <1>1, <1>2, <2>1
  <1>6. \A n \in Ports : n # 0 => n \in FormPorts
    BY DEF FormPorts
  <1>7. \A t \in Targets : t.port > 0 => t.port \in FormPorts
    BY <1>3 DEF FormPorts
  <1> QED
    BY <1>4, <1>5, <1>6, <1>7

LEMMA FormsAre ==
    /\ \A p \in Protocols, n \in FormPorts, l, w \in Passwords : Form(p, n, l, w) \in Forms
    /\ \A f \in Forms : /\ f = Form(f.protocol, f.port, f.login, f.deploy)
                        /\ f.protocol \in Protocols /\ f.port \in FormPorts
                        /\ f.login \in Passwords /\ f.deploy \in Passwords
  BY DEF Forms, Form

LEMMA FormEdits ==
    ASSUME NEW p, NEW n, NEW l, NEW w, NEW x
    PROVE  /\ [Form(p, n, l, w) EXCEPT !.protocol = x] = Form(x, n, l, w)
           /\ [Form(p, n, l, w) EXCEPT !.port = x] = Form(p, x, l, w)
           /\ [Form(p, n, l, w) EXCEPT !.login = x] = Form(p, n, x, w)
           /\ [Form(p, n, l, w) EXCEPT !.deploy = x] = Form(p, n, l, x)
           /\ Form(p, n, l, w).protocol = p
  BY DEF Form

LEMMA WithProtocolInForms ==
    ASSUME NEW f \in Forms, NEW p \in Protocols
    PROVE  WithProtocol(f, p) \in Forms
  <1> DEFINE q == f.protocol
             n == f.port
             l == f.login
             w == f.deploy
  <1>1. /\ f = Form(q, n, l, w) /\ q \in Protocols /\ n \in FormPorts
        /\ l \in Passwords /\ w \in Passwords
    BY FormsAre
  <1> HIDE DEF q, n, l, w
  <1>2. CASE p = q
    <2>1. f.protocol = q
      BY DEF q
    <2> QED  BY <1>2, <2>1 DEF WithProtocol
  <1>3. CASE p # q
    <2>1. f.protocol = q
      BY DEF q
    <2>2. WithProtocol(f, p) = [[f EXCEPT !.protocol = p] EXCEPT !.port = DefaultPort[p]]
      BY <1>3, <2>1, Zenon DEF WithProtocol
    <2>3. [f EXCEPT !.protocol = p] = Form(p, n, l, w)
      BY <1>1, FormEdits
    <2>4. [Form(p, n, l, w) EXCEPT !.port = DefaultPort[p]] = Form(p, DefaultPort[p], l, w)
      BY FormEdits
    <2>5. Form(p, DefaultPort[p], l, w) \in Forms
      BY <1>1, FormsAre, FormPortsAre
    <2> QED  BY <2>2, <2>3, <2>4, <2>5, Zenon
  <1> QED
    BY <1>2, <1>3

\* What the user types is of the form, and what a target puts there.
LEMMA EditsInForms ==
    ASSUME NEW f \in Forms
    PROVE  /\ \A n \in FormPorts : [f EXCEPT !.port = n] \in Forms
           /\ \A x \in Passwords : [f EXCEPT !.login = x] \in Forms
           /\ \A x \in Passwords : [f EXCEPT !.deploy = x] \in Forms
  <1> DEFINE q == f.protocol
             n == f.port
             l == f.login
             w == f.deploy
  <1>1. /\ f = Form(q, n, l, w) /\ q \in Protocols /\ n \in FormPorts
        /\ l \in Passwords /\ w \in Passwords
    BY FormsAre
  <1> HIDE DEF q, n, l, w
  <1>2. \A x \in FormPorts : [f EXCEPT !.port = x] \in Forms
    <2> TAKE x \in FormPorts
    <2>1. [Form(q, n, l, w) EXCEPT !.port = x] = Form(q, x, l, w)
      BY DEF Form
    <2>2. [f EXCEPT !.port = x] = Form(q, x, l, w)
      BY <1>1, <2>1, Zenon
    <2>3. Form(q, x, l, w) \in Forms
      BY <1>1, FormsAre
    <2> QED  BY <2>2, <2>3, Zenon
  <1>3. \A x \in Passwords : [f EXCEPT !.login = x] \in Forms
    <2> TAKE x \in Passwords
    <2>1. [Form(q, n, l, w) EXCEPT !.login = x] = Form(q, n, x, w)
      BY DEF Form
    <2>2. [f EXCEPT !.login = x] = Form(q, n, x, w)
      BY <1>1, <2>1, Zenon
    <2>3. Form(q, n, x, w) \in Forms
      BY <1>1, FormsAre
    <2> QED  BY <2>2, <2>3, Zenon
  <1>4. \A x \in Passwords : [f EXCEPT !.deploy = x] \in Forms
    <2> TAKE x \in Passwords
    <2>1. [Form(q, n, l, w) EXCEPT !.deploy = x] = Form(q, n, l, x)
      BY DEF Form
    <2>2. [f EXCEPT !.deploy = x] = Form(q, n, l, x)
      BY <1>1, <2>1, Zenon
    <2>3. Form(q, n, l, x) \in Forms
      BY <1>1, FormsAre
    <2> QED  BY <2>2, <2>3, Zenon
  <1> QED
    BY <1>2, <1>3, <1>4

LEMMA ApplyTargetInForms ==
    ASSUME NEW f \in Forms, NEW t \in Targets
    PROVE  ApplyTarget(f, t) \in Forms
  <1>1. t.protocol \in Protocols /\ t.password \in Passwords
    BY DEF Targets
  <1> DEFINE g == WithProtocol(f, t.protocol)
             h == WithPassword(g, t)
  <1>2. g \in Forms
    BY <1>1, WithProtocolInForms
  <1> HIDE DEF g
  <1>3. h \in Forms
    BY <1>1, <1>2, EditsInForms, Zenon DEF WithPassword
  <1> HIDE DEF h
  <1>4. WithPort(h, t) \in Forms
    <2>1. CASE t.port > 0
      <3>1. [h EXCEPT !.port = t.port] \in Forms
        BY <1>3, <2>1, EditsInForms, FormPortsAre
      <3> QED  BY <2>1, <3>1, Zenon DEF WithPort
    <2>2. CASE ~(t.port > 0)
      BY <1>3, <2>2, Zenon DEF WithPort
    <2> QED  BY <2>1, <2>2
  <1> QED
    BY <1>4 DEF ApplyTarget, g, h

LEMMA EmptyFormInForms == EmptyForm \in Forms
  <1> DEFINE p == IF "ssh" \in Protocols THEN "ssh" ELSE CHOOSE p \in Protocols : TRUE
  <1>1. {"ssh", "telnet", "ftp"} \cap Protocols # {} /\ "" \in Passwords
    BY SavedTargetsAssumption
  <1>2. p \in Protocols
    BY <1>1
  <1>3. EmptyForm = Form(p, DefaultPort[p], "", "")
    BY DEF EmptyForm, Form
  <1> HIDE DEF p
  <1> QED
    BY <1>1, <1>2, <1>3, FormsAre, FormPortsAre

\* What a form gives can be saved.
LEMMA FieldsAreTarget ==
    ASSUME NEW f \in Forms
    PROVE  TargetFromFields(f) \in Targets
  <1>1. /\ f.protocol \in Protocols /\ f.port \in Ports \cup {DefaultPort[p] : p \in Protocols}
        /\ f.login \in Passwords /\ f.deploy \in Passwords
    BY FormsAre DEF FormPorts
  <1>2. (IF LoginPage(f.protocol) THEN f.login ELSE f.deploy) \in Passwords
    BY <1>1
  <1> QED
    BY <1>1, <1>2 DEF TargetFromFields, Targets

LEMMA NamesInIs ==
    ASSUME NEW l \in Lists
    PROVE  /\ NamesIn(l) \subseteq Names
           /\ \A n : n \in NamesIn(l) <=> Positions(l, n) # {}
           /\ \A n : Positions(l, n) # {} => Find(l, n).target \in Targets
  <1>1. l \in Seq(EntryType) /\ DOMAIN l = 1 .. Len(l)
    BY DEF Lists
  <1>2. \A i \in DOMAIN l : l[i] \in EntryType /\ l[i].name \in Names /\ l[i].target \in Targets
    <2>1. \A i \in DOMAIN l : l[i] \in EntryType
      BY <1>1
    <2>2. \A e \in EntryType : e.name \in Names /\ e.target \in Targets
      BY DEF EntryType
    <2> QED  BY <2>1, <2>2
  <1>3. ASSUME NEW n, Positions(l, n) # {}
        PROVE  Find(l, n).target \in Targets
    <2>1. PICK i \in 1 .. Len(l) : l[i].name = n
      BY <1>1, <1>3 DEF Positions
    <2>2. Find(l, n) = l[i]
      BY <2>1, FindIs
    <2> QED  BY <1>1, <1>2, <2>1, <2>2
  <1> QED
    BY <1>2, <1>3 DEF NamesIn, Positions

LEMMA ShowKeepsDialogs ==
    ASSUME DialogsInv, NEW d, NEW l \in Lists, NEW name,
           Show(d, l, name), UNCHANGED form
    PROVE  DialogsInv'
  <1>1. NamesIn(l) \subseteq Names /\ (Positions(l, name) # {} => name \in NamesIn(l))
    BY NamesInIs
  <1>2. /\ DOMAIN selected' = Dialogs
        /\ d \in Dialogs => selected'[d] = IF Positions(l, name) # {} THEN name ELSE NoName
        /\ \A e \in Dialogs \ {d} : selected'[e] = selected[e]
    BY DEF Show, DialogsInv
  <1>3. /\ combo' \in [Dialogs -> SUBSET Names]
        /\ d \in Dialogs => combo'[d] = NamesIn(l)
        /\ \A e \in Dialogs \ {d} : combo'[e] = combo[e]
    BY <1>1 DEF Show, DialogsInv
  <1>4. \A e \in Dialogs : selected'[e] \in combo'[e] \cup {NoName}
    BY <1>1, <1>2, <1>3 DEF DialogsInv
  <1> QED
    BY <1>2, <1>3, <1>4 DEF DialogsInv

LEMMA ProceedKeepsDialogs ==
    ASSUME DialogsInv, ProgramsInv, NEW c \in Programs, pc[c] \in {"load", "reload"},
           NEW l \in Lists, Proceed(c, l)
    PROVE  DialogsInv'
  <1>1. CASE pc[c] = "reload"
    <2>1. PICK name : Show(c, l, name) /\ UNCHANGED form
      BY <1>1 DEF Proceed
    <2> QED  BY <1>1, <2>1, ShowKeepsDialogs
  <1>2. CASE pc[c] = "load" /\ job[c].op = "use"
    <2>1. Use(c, l)
      BY <1>2 DEF Proceed
    <2>2. CASE UNCHANGED form
      BY <2>1, <2>2 DEF Use, DialogsInv
    <2>3. CASE c \in Dialogs /\ Positions(l, job[c].name) # {}
      <3> DEFINE t == Find(l, job[c].name).target
      <3>1. t \in Targets /\ form[c] \in Forms
        BY <2>3, NamesInIs DEF DialogsInv
      <3>2. form' = [form EXCEPT ![c] = ApplyTarget(form[c], t)] /\ UNCHANGED <<combo, selected>>
        BY <2>1, <2>3 DEF Use
      <3> HIDE DEF t
      <3>3. ApplyTarget(form[c], t) \in Forms
        BY <3>1, ApplyTargetInForms
      <3> QED  BY <3>2, <3>3 DEF DialogsInv
    <2> QED  BY <2>1, <2>2, <2>3 DEF Use
  <1>3. CASE pc[c] = "load" /\ job[c].op # "use"
    BY <1>3 DEF Proceed, dialog, DialogsInv
  <1> QED
    BY <1>1, <1>2, <1>3

LEMMA EditKeepsDialogs ==
    ASSUME DialogsInv, NEW d \in Dialogs, EditForm(d)
    PROVE  DialogsInv'
  <1>1. form[d] \in Forms /\ UNCHANGED <<combo, selected>>
    BY DEF DialogsInv, EditForm
  <1>2. \E new \in Forms : form' = [form EXCEPT ![d] = new]
    <2>1. \/ \E p \in Protocols : form' = [form EXCEPT ![d] = WithProtocol(form[d], p)]
          \/ \E n \in Ports \ {0} : form' = [form EXCEPT ![d] = [form[d] EXCEPT !.port = n]]
          \/ \E w \in Passwords : form' = [form EXCEPT ![d] = [form[d] EXCEPT !.login = w]]
          \/ \E w \in Passwords : form' = [form EXCEPT ![d] = [form[d] EXCEPT !.deploy = w]]
      BY Zenon DEF EditForm
    <2>2. CASE \E p \in Protocols : form' = [form EXCEPT ![d] = WithProtocol(form[d], p)]
      BY <1>1, <2>2, WithProtocolInForms
    <2>3. CASE \E n \in Ports \ {0} : form' = [form EXCEPT ![d] = [form[d] EXCEPT !.port = n]]
      <3>1. PICK n \in Ports \ {0} : form' = [form EXCEPT ![d] = [form[d] EXCEPT !.port = n]]
        BY <2>3
      <3>2. [form[d] EXCEPT !.port = n] \in Forms
        BY <1>1, FormPortsAre, EditsInForms
      <3> QED  BY <3>1, <3>2
    <2>4. CASE \/ \E w \in Passwords : form' = [form EXCEPT ![d] = [form[d] EXCEPT !.login = w]]
               \/ \E w \in Passwords : form' = [form EXCEPT ![d] = [form[d] EXCEPT !.deploy = w]]
      BY <1>1, <2>4, EditsInForms
    <2> QED  BY <2>1, <2>2, <2>3, <2>4
  <1> QED
    BY <1>1, <1>2 DEF DialogsInv

LEMMA CrashKeepsDialogs ==
    ASSUME DialogsInv, NEW c \in Programs, Crash(c)
    PROVE  DialogsInv'
  <1>1. /\ form' = [d \in Dialogs |-> IF d = c THEN EmptyForm ELSE form[d]]
        /\ combo' = [d \in Dialogs |-> IF d = c THEN {} ELSE combo[d]]
        /\ selected' = [d \in Dialogs |-> IF d = c THEN NoName ELSE selected[d]]
    BY DEF Crash
  <1> QED
    BY <1>1, EmptyFormInForms DEF DialogsInv

-----------------------------------------------------------------------------
(* The steps.                                                              *)

\* The inductive invariant of FileIsSound.
FInv == ProgramsInv /\ DiskInv /\ DialogsInv

LEMMA BeginUpdates ==
    ASSUME ProgramsInv, NEW c \in Programs, NEW op \in {"save", "delete", "use"},
           NEW name \in Names, NEW target \in Targets \cup {NoTarget},
           op = "save" => target \in Targets, Begin(c, op, name, target)
    PROVE  LET what == [op |-> op, name |-> name, target |-> target]
           IN  /\ what \in Jobs /\ Coherent(c, "load", what)
               /\ Update(c, "load", what, list[c], offset[c])
  <1> DEFINE what == [op |-> op, name |-> name, target |-> target]
  <1>1. what \in Jobs /\ what.op = op /\ what.name = name /\ what.target = target
    BY DEF Jobs
  <1>2. /\ pc' = [pc EXCEPT ![c] = "load"] /\ job' = [job EXCEPT ![c] = what]
        /\ list' = list /\ offset' = offset
    BY DEF Begin
  <1> HIDE DEF what
  <1>3. Coherent(c, "load", what)
    BY <1>1 DEF Coherent
  <1>4. Update(c, "load", what, list[c], offset[c])
    BY <1>2 DEF Update, ProgramsInv
  <1> QED
    BY <1>1, <1>3, <1>4 DEF what

\* A step of c that leaves the file alone.
LEMMA StepKeepsFInv ==
    ASSUME FInv, NEW c \in Programs, DialogsInv',
           NEW where \in Places \ {"write"}, NEW what \in Jobs, NEW entries \in Lists, NEW at \in Nat,
           Update(c, where, what, entries, at), Coherent(c, where, what),
           UNCHANGED <<exists, file, whole, tangled>>,
           fresh' \in [Programs -> BOOLEAN], damaged' \in BOOLEAN, faults' \in Nat,
           faults' = 0 => faults = 0 /\ pc[c] # "write"
    PROVE  FInv'
  <1>1. ProgramsInv'
    BY UpdateKeepsPrograms DEF FInv
  <1>2. DiskInv'
    BY StepElsewhere DEF FInv
  <1> QED
    BY <1>1, <1>2 DEF FInv

LEMMA BeginKeepsFInv ==
    ASSUME FInv, NEW c \in Programs, NEW op \in {"save", "delete", "use"},
           NEW name \in Names, NEW target \in Targets \cup {NoTarget},
           op = "save" => target \in Targets, Begin(c, op, name, target), DialogsInv'
    PROVE  FInv'
  <1> DEFINE what == [op |-> op, name |-> name, target |-> target]
  <1>1. /\ what \in Jobs /\ Coherent(c, "load", what)
        /\ Update(c, "load", what, list[c], offset[c])
    BY BeginUpdates DEF FInv
  <1>2. /\ UNCHANGED <<exists, file, whole, tangled, fresh, damaged, faults>> /\ pc[c] = "idle"
    BY DEF Begin, disk, history
  <1>3. /\ "load" \in Places \ {"write"} /\ list[c] \in Lists /\ offset[c] \in Nat
        /\ fresh \in [Programs -> BOOLEAN] /\ damaged \in BOOLEAN /\ faults \in Nat
    BY DEF Places, FInv, ProgramsInv, DiskInv, DiskType
  <1> HIDE DEF what
  <1> QED
    BY <1>1, <1>2, <1>3, StepKeepsFInv

LEMMA StartRunKeepsFInv ==
    ASSUME FInv, NEW c \in Runs, StartRun(c)
    PROVE  FInv'
  <1>1. DialogsInv'
    BY DEF StartRun, Begin, FInv, DialogsInv
  <1>2. c \in Programs
    BY DEF Programs
  <1>3. CASE \E name \in Names, target \in RunTargets : Begin(c, "save", name, target)
    <2>1. PICK name \in Names, target \in RunTargets : Begin(c, "save", name, target)
      BY <1>3
    <2>2. target \in Targets
      <3>1. target \in [protocol : Protocols, port : Ports, password : Passwords]
        BY SavedTargetsAssumption
      <3> QED  BY <3>1 DEF Targets
    <2> QED  BY <1>1, <1>2, <2>1, <2>2, BeginKeepsFInv
  <1>4. CASE \E name \in Names : \E op \in {"delete", "use"} : Begin(c, op, name, NoTarget)
    <2>1. PICK name \in Names, op \in {"delete", "use"} : Begin(c, op, name, NoTarget)
      BY <1>4
    <2> QED  BY <1>1, <1>2, <2>1, BeginKeepsFInv
  <1> QED
    BY <1>3, <1>4 DEF StartRun

LEMMA DialogKeepsFInv ==
    ASSUME FInv, NEW d \in Dialogs, SaveAs(d) \/ DeleteSelected(d) \/ Select(d)
    PROVE  FInv'
  <1>1. d \in Programs /\ DialogsInv
    BY DEF Programs, FInv
  <1>2. CASE SaveAs(d)
    <2>1. PICK name \in Names : Begin(d, "save", name, TargetFromFields(form[d]))
      BY <1>2 DEF SaveAs
    <2>2. TargetFromFields(form[d]) \in Targets
      BY <1>1, FieldsAreTarget DEF DialogsInv
    <2>3. DialogsInv'
      BY <1>1, <1>2, <2>1 DEF SaveAs, Begin, DialogsInv
    <2> QED  BY <1>1, <2>1, <2>2, <2>3, BeginKeepsFInv
  <1>3. CASE DeleteSelected(d)
    <2>1. selected[d] # NoName /\ Begin(d, "delete", selected[d], NoTarget)
      BY <1>3 DEF DeleteSelected
    <2>2. selected[d] \in Names
      BY <1>1, <2>1 DEF DialogsInv
    <2>3. DialogsInv'
      BY <1>1, <1>3, <2>1 DEF DeleteSelected, Begin, DialogsInv
    <2> QED  BY <1>1, <2>1, <2>2, <2>3, BeginKeepsFInv
  <1>4. CASE Select(d)
    <2>1. PICK name \in combo[d] \ {selected[d]} :
             /\ Begin(d, "use", name, NoTarget)
             /\ selected' = [selected EXCEPT ![d] = name]
             /\ UNCHANGED combo
      BY <1>4 DEF Select
    <2>2. name \in Names
      BY <1>1 DEF DialogsInv
    <2>3. DialogsInv'
      BY <1>1, <2>1 DEF Begin, DialogsInv
    <2> QED  BY <1>1, <2>1, <2>2, <2>3, BeginKeepsFInv
  <1> QED
    BY <1>2, <1>3, <1>4

\* Steps that leave programs and file alone.
LEMMA FormKeepsFInv ==
    ASSUME FInv, UNCHANGED <<exists, file, pc, job, list, offset, fresh, whole, tangled, damaged, faults>>,
           DialogsInv'
    PROVE  FInv'
  <1>1. ProgramsInv'
    BY DEF FInv, ProgramsInv
  <1>2. Writers' = Writers /\ (\A c : Long(c)' = Long(c)) /\ (\A c : WillBeWhole(c)' = WillBeWhole(c))
    BY DEF Writers, Long, Doc, WillBeWhole
  <1>3. DiskType' /\ OffsetInv' /\ AbsentInv'
    BY <1>2 DEF FInv, DiskInv, DiskType, OffsetInv, AbsentInv
  <1>4. FileInv'
    BY <1>2 DEF FInv, DiskInv, FileInv
  <1>5. QuietInv'
    BY <1>2 DEF FInv, DiskInv, QuietInv
  <1> QED
    BY <1>1, <1>3, <1>4, <1>5 DEF FInv, DiskInv

\* What is loaded, and how that goes on.
LEMMA LoadIs ==
    ASSUME FInv, NEW c \in Programs, Load(c) \/ LoadNothing(c)
    PROVE  /\ pc[c] \in {"load", "reload"}
           /\ UNCHANGED <<exists, file, whole, tangled, damaged, stored, offset>>
           /\ fresh' \in [Programs -> BOOLEAN] /\ faults' \in Nat /\ (faults' = 0 => faults = 0)
           /\ \A p \in Programs \ {c} : fresh'[p] = fresh[p]
           /\ DialogsInv'
           /\ \E entries \in Lists :
                 /\ \/ GoesIdle(c)
                    \/ pc[c] = "load" /\ (Asks(c, entries) \/ Opens(c, entries))
                 /\ fresh'[c] /\ pc'[c] # "idle" =>
                       \/ ~exists /\ entries = <<>>
                       \/ exists /\ Readable(file) /\ entries = Entries(file)
  <1>1. /\ pc[c] \in {"load", "reload"}
        /\ UNCHANGED <<exists, file, whole, tangled, damaged, stored, offset>>
    BY DEF Load, LoadNothing, disk
  <1>2. /\ fresh' \in [Programs -> BOOLEAN] /\ faults' \in Nat /\ (faults' = 0 => faults = 0)
        /\ \A p \in Programs \ {c} : fresh'[p] = fresh[p]
    <2>1. fresh \in [Programs -> BOOLEAN] /\ faults \in Nat
      BY DEF FInv, ProgramsInv, DiskInv, DiskType
    <2>2. \E b \in BOOLEAN : fresh' = [fresh EXCEPT ![c] = b]
      BY DEF Load, LoadNothing
    <2>3. faults' = faults \/ faults' = faults + 1
      BY DEF Load, LoadNothing, bounds
    <2>4. fresh' \in [Programs -> BOOLEAN] /\ \A p \in Programs \ {c} : fresh'[p] = fresh[p]
      BY <2>1, <2>2
    <2>5. faults' \in Nat /\ (faults' = 0 => faults = 0)
      BY <2>1, <2>3
    <2> QED  BY <2>4, <2>5
  <1>3. ProgramsInv /\ DialogsInv /\ file \in Seq(Tokens) /\ <<>> \in Lists /\ Entries(file) \in Lists
    <2>1. file \in Seq(Tokens)
      BY DEF FInv, DiskInv, DiskType
    <2> QED  BY <2>1, IdleIsJob, EntriesInLists DEF FInv
  <1>4. ASSUME NEW entries \in Lists, Proceed(c, entries),
               fresh'[c] => \/ ~exists /\ entries = <<>>
                            \/ exists /\ Readable(file) /\ entries = Entries(file)
        PROVE  /\ DialogsInv'
               /\ \E l \in Lists :
                     /\ \/ GoesIdle(c)
                        \/ pc[c] = "load" /\ (Asks(c, l) \/ Opens(c, l))
                     /\ fresh'[c] /\ pc'[c] # "idle" =>
                           \/ ~exists /\ l = <<>>
                           \/ exists /\ Readable(file) /\ l = Entries(file)
    <2>1. DialogsInv'
      BY <1>1, <1>3, <1>4, ProceedKeepsDialogs
    <2>2. GoesIdle(c) \/ (pc[c] = "load" /\ (Asks(c, entries) \/ Opens(c, entries)))
      BY <1>1, <1>3, <1>4, ProceedUpdates
    <2> QED  BY <1>4, <2>1, <2>2
  <1>5. CASE GiveUp(c)
    <2>1. GoesIdle(c)
      BY <1>1, <1>3, <1>5, FinishUpdates DEF GiveUp, GoesIdle
    <2>2. pc'[c] = "idle"
      BY <1>3, <1>5 DEF GiveUp, Finish, ProgramsInv
    <2>3. DialogsInv'
      <3>1. CASE pc[c] = "reload"
        BY <1>3, <1>5, <3>1, ShowKeepsDialogs DEF GiveUp
      <3>2. CASE pc[c] # "reload"
        BY <1>3, <1>5, <3>2 DEF GiveUp, DialogsInv
      <3> QED  BY <3>1, <3>2
    <2> QED  BY <1>1, <1>2, <1>3, <2>1, <2>2, <2>3
  <1>6. CASE ~exists /\ Proceed(c, <<>>)
    BY <1>1, <1>2, <1>3, <1>4, <1>6
  <1>7. CASE exists /\ Readable(file) /\ Proceed(c, Entries(file))
    BY <1>1, <1>2, <1>3, <1>4, <1>7
  <1>8. CASE ~fresh'[c] /\ Proceed(c, <<>>)
    BY <1>1, <1>2, <1>3, <1>4, <1>8
  <1>9. Load(c) => <1>5!1 \/ <1>6!1 \/ <1>7!1
    BY DEF Load
  <1>10. LoadNothing(c) => <1>8!1
    BY DEF LoadNothing, FInv, ProgramsInv
  <1> QED
    BY <1>5, <1>6, <1>7, <1>8, <1>9, <1>10

\* The ways of c leave the file alone.
LEMMA WaysKeepFInv ==
    ASSUME FInv, NEW c \in Programs, DialogsInv', NEW entries \in Lists,
           GoesIdle(c) \/ Asks(c, entries) \/ Opens(c, entries), pc[c] # "write",
           UNCHANGED <<exists, file, whole, tangled, damaged>>,
           fresh' \in [Programs -> BOOLEAN], faults' \in Nat, faults' = 0 => faults = 0
    PROVE  FInv'
  <1>1. ProgramsInv'
    BY WaysKeepPrograms DEF FInv
  <1>2. /\ offset[c] \in Nat /\ job[c] \in Jobs /\ Idle \in Jobs /\ <<>> \in Lists
        /\ "idle" \in Places \ {"write"} /\ "confirm" \in Places \ {"write"}
        /\ "open" \in Places \ {"write"} /\ damaged \in BOOLEAN
    BY IdleIsJob DEF FInv, ProgramsInv, Places, DiskInv, DiskType
  <1>7. ProgramsInv /\ DiskInv
    BY DEF FInv
  <1>8. /\ UNCHANGED <<exists, file, whole, tangled>>
        /\ damaged' \in BOOLEAN /\ (faults' = 0 => faults = 0 /\ pc[c] # "write")
    BY <1>2
  <1>3. CASE GoesIdle(c)
    <2>1. Update(c, "idle", Idle, <<>>, offset[c])
      BY <1>3 DEF GoesIdle
    <2>3. DiskInv'
      BY <1>2, <1>7, <1>8, <2>1, StepElsewhere
    <2> QED  BY <1>1, <2>3 DEF FInv
  <1>4. CASE Asks(c, entries)
    <2>1. Update(c, "confirm", job[c], entries, offset[c])
      BY <1>4 DEF Asks
    <2>3. DiskInv'
      BY <1>2, <1>7, <1>8, <2>1, StepElsewhere
    <2> QED  BY <1>1, <2>3 DEF FInv
  <1>5. CASE Opens(c, entries)
    <2>1. Changed(c, entries) \in Lists
      BY <1>5, ChangedInLists DEF Opens, FInv
    <2>2. Update(c, "open", job[c], Changed(c, entries), offset[c])
      BY <1>5 DEF Opens
    <2>3. DiskInv'
      BY <1>2, <1>7, <1>8, <2>1, <2>2, StepElsewhere
    <2> QED  BY <1>1, <2>3 DEF FInv
  <1> QED
    BY <1>3, <1>4, <1>5

LEMMA LoadKeepsFInv ==
    ASSUME FInv, NEW c \in Programs, Load(c) \/ LoadNothing(c)
    PROVE  FInv'
  <1>1. /\ pc[c] # "write" /\ DialogsInv'
        /\ UNCHANGED <<exists, file, whole, tangled, damaged>>
        /\ fresh' \in [Programs -> BOOLEAN] /\ faults' \in Nat /\ (faults' = 0 => faults = 0)
        /\ \E l \in Lists : GoesIdle(c) \/ Asks(c, l) \/ Opens(c, l)
    BY LoadIs
  <1> QED
    BY <1>1, WaysKeepFInv

LEMMA AnswerIs ==
    ASSUME FInv, NEW c \in Programs, Answer(c)
    PROVE  /\ pc[c] = "confirm" /\ job[c].op = "save"
           /\ UNCHANGED <<disk, offset, dialog, bounds, history>>
           /\ GoesIdle(c) \/ Opens(c, list[c])
  <1>1. /\ pc[c] = "confirm" /\ UNCHANGED <<disk, offset, dialog, bounds, history>>
        /\ Finish(c) \/ Goto(c, "open", Upsert(list[c], Entry(c)))
    BY DEF Answer
  <1>2. ProgramsInv /\ job[c].op = "save"
    BY <1>1 DEF FInv, ProgramsInv, Coherent
  <1>3. CASE Finish(c)
    BY <1>1, <1>2, <1>3, FinishUpdates DEF GoesIdle
  <1>4. CASE Goto(c, "open", Upsert(list[c], Entry(c)))
    BY <1>1, <1>2, <1>4, GotoUpdates DEF Opens, Changed
  <1> QED
    BY <1>1, <1>2, <1>3, <1>4

LEMMA AnswerKeepsFInv ==
    ASSUME FInv, NEW c \in Programs, Answer(c) \/ CannotOpen(c)
    PROVE  FInv'
  <1>1. /\ pc[c] # "write"
        /\ UNCHANGED <<exists, file, whole, tangled, damaged, fresh, faults, form, combo, selected>>
    BY DEF Answer, CannotOpen, disk, history, bounds, dialog
  <1>2. GoesIdle(c) \/ Opens(c, list[c])
    <2>1. CASE Answer(c)
      BY <2>1, AnswerIs
    <2>2. CASE CannotOpen(c)
      BY <2>2, FinishUpdates DEF CannotOpen, GoesIdle, FInv
    <2> QED  BY <2>1, <2>2
  <1>3. DialogsInv' /\ list[c] \in Lists
    BY <1>1 DEF FInv, DialogsInv, ProgramsInv
  <1>4. /\ fresh' \in [Programs -> BOOLEAN] /\ faults' \in Nat /\ (faults' = 0 => faults = 0)
    BY <1>1 DEF FInv, ProgramsInv, DiskInv, DiskType
  <1> QED
    BY <1>1, <1>2, <1>3, <1>4, WaysKeepFInv

LEMMA TruncateIs ==
    ASSUME FInv, NEW c \in Programs, Truncate(c)
    PROVE  /\ pc[c] = "open"
           /\ Update(c, "write", job[c], list[c], 0)
           /\ fresh' = [p \in Programs |-> FALSE]
           /\ UNCHANGED <<form, combo, selected>>
  BY DEF Truncate, Goto, dialog, Update, FInv, ProgramsInv

LEMMA TruncateKeepsFInv ==
    ASSUME FInv, NEW c \in Programs, Truncate(c)
    PROVE  FInv'
  <1>1. DiskInv'
    BY TruncateKeepsDisk DEF FInv
  <1>2. DialogsInv'
    BY TruncateIs DEF FInv, DialogsInv
  <1>3. ProgramsInv'
    <2>1. /\ ProgramsInv /\ Coherent(c, "open", job[c])
          /\ "write" \in Places /\ job[c] \in Jobs /\ list[c] \in Lists /\ 0 \in Nat
      BY TruncateIs DEF Places, FInv, ProgramsInv
    <2>2. Coherent(c, "write", job[c])
      BY <2>1 DEF Coherent
    <2>3. fresh' \in [Programs -> BOOLEAN]
      BY TruncateIs
    <2> QED  BY <2>1, <2>2, <2>3, TruncateIs, UpdateKeepsPrograms
  <1> QED
    BY <1>1, <1>2, <1>3 DEF FInv

LEMMA WriteBlockKeepsFInv ==
    ASSUME FInv, NEW c \in Programs, WriteBlock(c)
    PROVE  FInv'
  <1>1. DiskInv'
    BY WriteBlockKeepsDisk DEF FInv
  <1>2. DialogsInv'
    BY DEF WriteBlock, dialog, FInv, DialogsInv
  <1>3. ProgramsInv'
    <2> DEFINE u == Upto(list[c], offset[c])
    <2>1. /\ c \in Writers /\ list[c] \in Lists /\ offset[c] \in Nat /\ offset[c] < Size(list[c])
          /\ fresh' = [p \in Programs |-> FALSE]
          /\ \/ Update(c, "write", job[c], list[c], u)
             \/ Update(c, "reload", job[c], <<>>, 0)
             \/ Update(c, "idle", Idle, <<>>, 0)
      BY WriteBlockIs DEF FInv
    <2>2. u \in Nat
      BY <2>1, UptoIs
    <2> HIDE DEF u
    <2>3. /\ ProgramsInv /\ pc[c] = "write" /\ Coherent(c, "write", job[c])
          /\ job[c] \in Jobs /\ Idle \in Jobs /\ <<>> \in Lists /\ 0 \in Nat
          /\ "write" \in Places /\ "reload" \in Places /\ "idle" \in Places
      BY <2>1, IdleIsJob DEF Writers, FInv, ProgramsInv, Places
    <2>4. Coherent(c, "reload", job[c]) /\ Coherent(c, "idle", Idle)
      BY <2>3, IdleIsCoherent DEF Coherent
    <2>5. fresh' \in [Programs -> BOOLEAN]
      BY <2>1
    <2> QED  BY <2>1, <2>2, <2>3, <2>4, <2>5, UpdateKeepsPrograms
  <1> QED
    BY <1>1, <1>2, <1>3 DEF FInv

LEMMA FailureIs ==
    ASSUME FInv, NEW c \in Programs, DiskFull(c) \/ Crash(c)
    PROVE  /\ UNCHANGED <<exists, file, whole, tangled, fresh>>
           /\ faults' \in Nat /\ faults' # 0 /\ damaged' \in BOOLEAN
           /\ \E where \in {"idle", "reload"} : Update(c, where, Idle, <<>>, 0)
  <1>1. UNCHANGED <<exists, file, whole, tangled, fresh>> /\ faults' = faults + 1
    BY DEF DiskFull, Crash, disk
  <1>2. faults \in Nat /\ damaged \in BOOLEAN
    BY DEF FInv, DiskInv, DiskType
  <1>3. faults' \in Nat /\ faults' # 0
    BY <1>1, <1>2
  <1>4. damaged' \in BOOLEAN
    BY <1>2 DEF DiskFull, Crash
  <1>5. \E where \in {"idle", "reload"} : Update(c, where, Idle, <<>>, 0)
    <2>1. CASE DiskFull(c)
      BY <2>1 DEF DiskFull, Finish, Update, FInv, ProgramsInv
    <2>2. CASE Crash(c)
      BY <2>2 DEF Crash, Update, FInv, ProgramsInv
    <2> QED  BY <2>1, <2>2
  <1> QED
    BY <1>1, <1>3, <1>4, <1>5

LEMMA FailureKeepsFInv ==
    ASSUME FInv, NEW c \in Programs, DiskFull(c) \/ Crash(c)
    PROVE  FInv'
  <1>1. DialogsInv'
    <2>1. CASE DiskFull(c)
      BY <2>1 DEF DiskFull, dialog, FInv, DialogsInv
    <2>2. CASE Crash(c)
      BY <2>2, CrashKeepsDialogs DEF FInv
    <2> QED  BY <2>1, <2>2
  <1>2. PICK where \in {"idle", "reload"} : Update(c, where, Idle, <<>>, 0)
    BY FailureIs
  <1>3. /\ UNCHANGED <<exists, file, whole, tangled>> /\ fresh' \in [Programs -> BOOLEAN]
        /\ faults' \in Nat /\ faults' # 0 /\ damaged' \in BOOLEAN
    BY FailureIs DEF FInv, ProgramsInv
  <1>4. /\ where \in Places \ {"write"} /\ Idle \in Jobs /\ <<>> \in Lists /\ 0 \in Nat
        /\ Coherent(c, where, Idle)
    BY IdleIsJob, IdleIsCoherent DEF Places
  <1> QED
    BY <1>1, <1>2, <1>3, <1>4, StepKeepsFInv

LEMMA NextFInv == FInv /\ [Next]_vars => FInv'
  <1> SUFFICES ASSUME FInv, [Next]_vars PROVE FInv'
    OBVIOUS
  <1>1. ASSUME NEW d \in Dialogs, EditForm(d)
        PROVE  FInv'
    BY <1>1, EditKeepsDialogs, FormKeepsFInv DEF EditForm, FInv, disk, program, bounds
  <1>2. ASSUME NEW d \in Dialogs, SelectNone(d)
        PROVE  FInv'
    <2>1. UNCHANGED <<exists, file, pc, job, list, offset, fresh, whole, tangled, damaged, faults>>
      BY <1>2 DEF SelectNone, disk, program, bounds, history
    <2>2. DialogsInv'
      BY <1>2 DEF SelectNone, FInv, DialogsInv
    <2> QED  BY <2>1, <2>2, FormKeepsFInv
  <1>3. CASE UNCHANGED vars
    <2>1. UNCHANGED <<exists, file, pc, job, list, offset, fresh, whole, tangled, damaged, faults>>
          /\ UNCHANGED <<form, combo, selected>>
      BY <1>3 DEF vars, disk, program, bounds, history, dialog
    <2>2. DialogsInv'
      BY <2>1 DEF FInv, DialogsInv
    <2> QED  BY <2>1, <2>2, FormKeepsFInv
  <1>4. ASSUME NEW d \in Dialogs, SaveAs(d) \/ DeleteSelected(d) \/ Select(d)
        PROVE  FInv'
    BY <1>4, DialogKeepsFInv
  <1>5. ASSUME NEW c \in Runs, StartRun(c)
        PROVE  FInv'
    BY <1>5, StartRunKeepsFInv
  <1> QED
    BY <1>1, <1>2, <1>3, <1>4, <1>5, LoadKeepsFInv, AnswerKeepsFInv, TruncateKeepsFInv,
       WriteBlockKeepsFInv, FailureKeepsFInv DEF Next

\* At first the file is absent, or a whole document.
LEMMA InitFInv == Init => FInv
  <1> SUFFICES ASSUME Init PROVE FInv
    OBVIOUS
  <1>1. PICK first \in FirstLists :
           /\ file = IF exists THEN Document(first) ELSE <<>>
           /\ whole = IF exists THEN first ELSE <<>>
    BY DEF Init
  <1>2. first \in Lists /\ <<>> \in Lists
    <2>1. first \in Seq(EntryType) /\ Distinct(first)
      BY SavedTargetsAssumption
    <2> QED  BY <2>1, IdleIsJob DEF Lists
  <1>3. Document(first) \in Seq(Tokens) /\ Len(Document(first)) >= Size(first)
    BY <1>2, SizeIs DEF Size
  <1>4. DiskType
    <2>1. file \in Seq(Tokens) /\ whole \in Lists
      <3>1. <<>> \in Seq(Tokens)
        OBVIOUS
      <3>2. CASE exists
        BY <1>1, <1>2, <1>3, <3>2
      <3>3. CASE ~exists
        BY <1>1, <1>2, <3>1, <3>3
      <3> QED  BY <3>2, <3>3
    <2>2. exists \in BOOLEAN /\ faults = 0 /\ tangled = FALSE /\ damaged = FALSE
      BY DEF Init
    <2> QED  BY <2>1, <2>2 DEF DiskType
  <1>5. Writers = {}
    BY DEF Init, Writers
  <1>6. OffsetInv /\ AbsentInv
    BY <1>1, <1>5 DEF OffsetInv, AbsentInv
  <1>7. OfDocument(file, whole) /\ (exists => Readable(file))
    <2>1. CASE exists
      <3>1. Begins(Document(first), Document(first))
        BY DEF Begins
      <3>2. OfDocument(Document(first), first)
        BY <3>1 DEF OfDocument
      <3>3. Readable(Document(first))
        BY <1>2, <1>3, <3>1, <3>2, ReadIsWhole
      <3> QED  BY <1>1, <2>1, <3>2, <3>3
    <2>2. CASE ~exists
      BY <1>1, <2>2 DEF OfDocument, Begins
    <2> QED  BY <2>1, <2>2
  <1>8. FileInv /\ QuietInv
    BY <1>5, <1>7 DEF FileInv, QuietInv
  <1>9. ProgramsInv
    <2>1. /\ pc = [c \in Programs |-> "idle"] /\ job = [c \in Programs |-> Idle]
          /\ list = [c \in Programs |-> <<>>] /\ offset = [c \in Programs |-> 0]
          /\ fresh = [c \in Programs |-> FALSE]
      BY DEF Init
    <2>2. Idle \in Jobs /\ "idle" \in Places /\ \A c : Coherent(c, "idle", Idle)
      BY IdleIsJob, IdleIsCoherent DEF Places
    <2> QED  BY <1>2, <2>1, <2>2 DEF ProgramsInv
  <1>10. DialogsInv
    <2>1. whole \in Lists
      BY <1>4 DEF DiskType
    <2>2. NamesIn(whole) \subseteq Names
      BY <2>1, NamesInIs
    <2> QED  BY <2>2, EmptyFormInForms DEF Init, DialogsInv
  <1> QED
    BY <1>4, <1>6, <1>8, <1>9, <1>10 DEF FInv, DiskInv

LEMMA FInvTypeOK == FInv => TypeOK
  <1> SUFFICES ASSUME FInv PROVE TypeOK
    OBVIOUS
  <1>1. \A i \in DOMAIN file :
           \/ file[i] \in {Opening, Closing, Hole}
           \/ file[i].target \in Targets /\ file[i].after \in {"comma", "end"}
    <2> TAKE i \in DOMAIN file
    <2>1. file[i] \in Tokens
      <3>1. file \in Seq(Tokens)
        BY DEF FInv, DiskInv, DiskType
      <3> QED  BY <3>1
    <2>2. CASE file[i] \in EntryTokens
      <3>1. PICK e \in EntryType, a \in Afters : file[i] = EntryToken(e, a)
        BY <2>2 DEF EntryTokens
      <3>2. e.target \in Targets
        BY DEF EntryType
      <3>3. EntryToken(e, a).target = e.target /\ EntryToken(e, a).after = a
        BY TokenFields
      <3> QED  BY <3>1, <3>2, <3>3 DEF Afters
    <2> QED  BY <2>1, <2>2 DEF Tokens
  <1>2. /\ pc \in [Programs -> {"idle", "load", "confirm", "open", "write", "reload"}]
        /\ offset \in [Programs -> Nat]
    BY DEF FInv, ProgramsInv, Places
  <1>3. \A c \in Programs :
          /\ job[c].op \in {"none", "save", "delete", "use"}
          /\ job[c].name \in Names \cup {NoName}
          /\ job[c].target \in Targets \cup {NoTarget}
          /\ \A i \in DOMAIN list[c] : list[c][i] \in EntryType
    <2> TAKE c \in Programs
    <2>1. job[c] \in Jobs /\ list[c] \in Seq(EntryType)
      BY DEF FInv, ProgramsInv, Lists
    <2>2. \A i \in DOMAIN list[c] : list[c][i] \in EntryType
      BY <2>1
    <2> QED  BY <2>1, <2>2 DEF Jobs
  <1>4. /\ form \in [Dialogs -> [protocol : Protocols, port : Nat \ {0},
                                 login : Passwords, deploy : Passwords]]
        /\ combo \in [Dialogs -> SUBSET Names]
        /\ \A d \in Dialogs : selected[d] \in combo[d] \cup {NoName}
    <2>1. \A f \in Forms : f \in [protocol : Protocols, port : Nat \ {0},
                                  login : Passwords, deploy : Passwords]
      <3>1. \A n \in FormPorts : n \in Nat \ {0}
        BY FormPortsAre
      <3> QED  BY <3>1 DEF Forms
    <2> QED  BY <2>1 DEF FInv, DialogsInv
  <1>5. exists \in BOOLEAN
    BY DEF FInv, DiskInv, DiskType
  <1> QED
    BY <1>1, <1>2, <1>3, <1>4, <1>5 DEF TypeOK

LEMMA FInvSound == FInv => ReadableMeansWhole /\ ReadableWhenQuiet
  <1> SUFFICES ASSUME FInv PROVE ReadableMeansWhole /\ ReadableWhenQuiet
    OBVIOUS
  <1>1. ReadableMeansWhole
    <2>1. file \in Seq(Tokens) /\ whole \in Lists /\ (~tangled => OfDocument(file, whole))
      BY DEF FInv, DiskInv, DiskType, FileInv
    <2> QED  BY <2>1, ReadIsWhole DEF ReadableMeansWhole
  <1>2. ReadableWhenQuiet
    BY DEF FInv, DiskInv, QuietInv, ReadableWhenQuiet
  <1> QED
    BY <1>1, <1>2

\* Whatever programs load, truncate and write across each other, with blocks of
\* any size, and wherever they crash: what targets_load accepts is all of the
\* list saved last and nothing else, and until a save is cut short it can be
\* read whenever nobody writes.
THEOREM WhatIsReadIsWhole == Spec => []FileIsSound
  <1>1. FInv => FileIsSound
    BY FInvTypeOK, FInvSound DEF FileIsSound
  <1> QED
    BY InitFInv, NextFInv, <1>1, PTL DEF Spec

-----------------------------------------------------------------------------
(* The store the file keeps.                                               *)

\* What a save or a delete makes of a table.
EffectOf(what, table) ==
    IF what.op = "save"
    THEN [n \in DOMAIN table \cup {what.name} |->
             IF n = what.name THEN what.target ELSE table[n]]
    ELSE [n \in DOMAIN table \ {what.name} |-> table[n]]

\* Until the store is damaged: nobody writes but the one program whose table is
\* the store with the effect it was asked for, the file is what it has written
\* so far, and a list that is fresh is the store's.
StoreInv ==
    /\ stored \in Store!Tables
    /\ ~damaged =>
          /\ ~tangled
          /\ Writers = {} => Table(whole) = stored /\ (exists => Readable(file))
          /\ \A c \in Writers :
                /\ Writers = {c}
                /\ Table(list[c]) = EffectOf(job[c], stored)
                /\ file = SubSeq(Document(list[c]), 1, offset[c])
          /\ \A c \in Programs : fresh[c] =>
                /\ pc[c] = "confirm" => Table(list[c]) = stored
                /\ pc[c] = "open" => Table(list[c]) = EffectOf(job[c], stored)

LEMMA TableIs ==
    ASSUME NEW l \in Lists
    PROVE  /\ Table(l) \in Store!Tables
           /\ DOMAIN Table(l) = NamesIn(l)
           /\ \A n \in NamesIn(l) : Table(l)[n] = Find(l, n).target
  <1>1. /\ NamesIn(l) \subseteq Names
        /\ \A n \in NamesIn(l) : Find(l, n).target \in Targets
    BY NamesInIs
  <1>2. Table(l) \in [NamesIn(l) -> Targets]
    BY <1>1 DEF Table
  <1>3. Table(l) \in Store!Tables
    BY <1>1, <1>2 DEF Store!Tables
  <1> QED
    BY <1>3 DEF Table

\* Upsert and Without do to the table what the store promises of a save and a
\* delete, and nothing to the other names.
LEMMA TableOfChanged ==
    ASSUME ProgramsInv, NEW c \in Programs, NEW l \in Lists,
           job[c].op \in {"save", "delete"}
    PROVE  Table(Changed(c, l)) = EffectOf(job[c], Table(l))
  <1> DEFINE u == Changed(c, l)
             name == job[c].name
             target == job[c].target
  <1>1. u \in Lists
    BY ChangedInLists
  <1>2. CASE job[c].op = "save"
    <2>1. name \in Names /\ target \in Targets
      BY <1>2 DEF ProgramsInv, Coherent
    <2> DEFINE e == Entry(c)
    <2>2. e \in EntryType /\ e.name = name /\ e.target = target
      BY <2>1 DEF Entry, EntryType
    <2>3. u = Upsert(l, e)
      BY <1>2 DEF Changed
    <2> HIDE DEF e, u, name, target
    <2>4. /\ \A n : n \in NamesIn(u) <=> n = name \/ n \in NamesIn(l)
          /\ Find(u, name) = e
          /\ \A n : n # name /\ n \in NamesIn(l) => Find(u, n) = Find(l, n)
      BY <1>1, <2>2, <2>3, UpsertInLists, NamesInIs
    <2>5. NamesIn(u) = NamesIn(l) \cup {name}
      BY <2>4
    <2>6. \A n \in NamesIn(u) : Find(u, n).target = IF n = name THEN target ELSE Table(l)[n]
      BY <2>2, <2>4, TableIs
    <2>7. Table(u) = [n \in DOMAIN Table(l) \cup {name} |->
                         IF n = name THEN target ELSE Table(l)[n]]
      <3>1. Table(u) = [n \in NamesIn(u) |-> Find(u, n).target]
        BY DEF Table
      <3>2. DOMAIN Table(l) \cup {name} = NamesIn(u)
        BY <2>5, TableIs
      <3> QED  BY <2>6, <3>1, <3>2, Zenon
    <2>8. EffectOf(job[c], Table(l)) = [n \in DOMAIN Table(l) \cup {name} |->
                                           IF n = name THEN target ELSE Table(l)[n]]
      BY <1>2, Zenon DEF EffectOf, name, target
    <2> QED  BY <2>7, <2>8, Zenon DEF u
  <1>3. CASE job[c].op = "delete"
    <2>1. u = Without(l, name)
      BY <1>3 DEF Changed
    <2> HIDE DEF u, name
    <2>2. /\ \A n : n \in NamesIn(u) <=> n # name /\ n \in NamesIn(l)
          /\ \A n : n # name /\ n \in NamesIn(l) => Find(u, n) = Find(l, n)
      BY <1>1, <2>1, WithoutInLists, NamesInIs
    <2>3. \A n \in NamesIn(u) : Find(u, n).target = Table(l)[n]
      BY <2>2, TableIs
    <2>4. DOMAIN Table(l) \ {name} = NamesIn(u)
      BY <2>2, TableIs
    <2>5. Table(u) = [n \in NamesIn(u) |-> Find(u, n).target]
      BY DEF Table
    <2>6. Table(u) = [n \in DOMAIN Table(l) \ {name} |-> Table(l)[n]]
      BY <2>3, <2>4, <2>5, Zenon
    <2>7. job[c].op # "save"
      BY <1>3
    <2>8. EffectOf(job[c], Table(l)) = [n \in DOMAIN Table(l) \ {name} |-> Table(l)[n]]
      BY <2>7, Zenon DEF EffectOf, name
    <2> QED  BY <2>6, <2>8, Zenon DEF u
  <1> QED
    BY <1>2, <1>3

LEMMA InitStoreInv == Init => StoreInv
  <1> SUFFICES ASSUME Init PROVE StoreInv
    OBVIOUS
  <1>1. FInv /\ whole \in Lists
    BY InitFInv DEF FInv, DiskInv, DiskType
  <1>2. stored = Table(whole) /\ ~tangled /\ Writers = {} /\ \A c \in Programs : ~fresh[c]
    BY DEF Init, Writers
  <1>3. stored \in Store!Tables
    BY <1>1, <1>2, TableIs
  <1>4. exists => Readable(file)
    <2>1. faults = 0
      BY DEF Init
    <2> QED  BY <1>1, <1>2, <2>1 DEF FInv, DiskInv, QuietInv
  <1> QED
    BY <1>2, <1>3, <1>4 DEF StoreInv

\* A step of c that leaves the file alone.
LEMMA StoreElsewhere ==
    ASSUME FInv, StoreInv, NEW c \in Programs,
           NEW where \in Places \ {"write"}, NEW what \in Jobs, NEW entries \in Lists, NEW at \in Nat,
           Update(c, where, what, entries, at),
           UNCHANGED <<exists, file, whole, tangled>>,
           stored' \in Store!Tables,
           \A p \in Programs \ {c} : fresh'[p] = fresh[p],
           ~damaged' => ~damaged /\ pc[c] # "write" /\ stored' = stored,
           ~damaged' /\ fresh'[c] => /\ where = "confirm" => Table(entries) = stored
                                     /\ where = "open" => Table(entries) = EffectOf(what, stored)
    PROVE  StoreInv'
  <1> SUFFICES ASSUME ~damaged'
               PROVE  /\ ~tangled
                      /\ Writers' = {} => Table(whole) = stored /\ (exists => Readable(file))
                      /\ \A p \in Writers' :
                            /\ Writers' = {p}
                            /\ Table(list'[p]) = EffectOf(job'[p], stored)
                            /\ file = SubSeq(Document(list'[p]), 1, offset'[p])
                      /\ \A p \in Programs : fresh'[p] =>
                            /\ pc'[p] = "confirm" => Table(list'[p]) = stored
                            /\ pc'[p] = "open" => Table(list'[p]) = EffectOf(job'[p], stored)
    BY DEF StoreInv
  <1>1. ~damaged /\ pc[c] # "write"
    OBVIOUS
  <1>2. /\ pc'[c] = where /\ job'[c] = what /\ list'[c] = entries
        /\ \A p \in Programs \ {c} :
              pc'[p] = pc[p] /\ job'[p] = job[p] /\ list'[p] = list[p] /\ offset'[p] = offset[p]
    BY UpdateIs DEF FInv
  <1>3. Writers' = Writers /\ \A p \in Writers : p \in Programs \ {c}
    BY <1>1, <1>2 DEF Writers
  <1>4. /\ ~tangled
        /\ Writers = {} => Table(whole) = stored /\ (exists => Readable(file))
        /\ \A p \in Writers :
              /\ Writers = {p}
              /\ Table(list[p]) = EffectOf(job[p], stored)
              /\ file = SubSeq(Document(list[p]), 1, offset[p])
        /\ \A p \in Programs : fresh[p] =>
              /\ pc[p] = "confirm" => Table(list[p]) = stored
              /\ pc[p] = "open" => Table(list[p]) = EffectOf(job[p], stored)
    BY <1>1 DEF StoreInv
  <1>5. \A p \in Writers' :
           /\ Writers' = {p}
           /\ Table(list'[p]) = EffectOf(job'[p], stored)
           /\ file = SubSeq(Document(list'[p]), 1, offset'[p])
    BY <1>2, <1>3, <1>4
  <1>6. ASSUME NEW p \in Programs, fresh'[p]
        PROVE  /\ pc'[p] = "confirm" => Table(list'[p]) = stored
               /\ pc'[p] = "open" => Table(list'[p]) = EffectOf(job'[p], stored)
    BY <1>2, <1>4, <1>6
  <1> QED
    BY <1>3, <1>4, <1>5, <1>6

\* A document of which a part is missing cannot be read.
LEMMA PartIsUnreadable ==
    ASSUME NEW l \in Lists, NEW at \in Nat, at < Size(l)
    PROVE  ~Readable(SubSeq(Document(l), 1, at))
  <1> DEFINE D == Document(l)
             part == SubSeq(D, 1, at)
  <1>1. D \in Seq(Tokens) /\ Len(D) = Size(l) /\ Size(l) \in Nat
    BY SizeIs DEF Size
  <1> HIDE DEF D
  <1>2. part \in Seq(Tokens) /\ Len(part) = at /\ \A i \in 1 .. at : part[i] = D[i]
    <2>1. \A i \in 1 .. at : D[i] \in Tokens
      BY <1>1
    <2> QED  BY <1>1, <2>1
  <1> HIDE DEF part
  <1>3. Begins(part, D)
    BY <1>1, <1>2 DEF Begins
  <1>4. OfDocument(part, l)
    BY <1>3 DEF OfDocument, D
  <1>5. ~Readable(part)
    BY <1>1, <1>2, <1>4, ReadIsWhole
  <1> QED
    BY <1>5 DEF part, D

\* A block that follows the blocks of the same document.
LEMMA NextBlockIs ==
    ASSUME file \in Seq(Tokens), NEW l \in Lists, NEW at \in Nat, at < Size(l),
           file = SubSeq(Document(l), 1, at)
    PROVE  Block(l, at) = SubSeq(Document(l), 1, Upto(l, at))
  <1> DEFINE D == Document(l)
             u == Upto(l, at)
             new == Block(l, at)
             part == SubSeq(D, 1, u)
  <1>1. D \in Seq(Tokens) /\ Len(D) = Size(l) /\ Size(l) \in Nat
    BY SizeIs DEF Size
  <1>2. u \in Nat /\ at < u /\ u <= Size(l)
    BY UptoIs
  <1>3. /\ new \in Seq(Tokens) /\ Len(new) = IF Len(file) > u THEN Len(file) ELSE u
        /\ \A i \in 1 .. Len(new) : new[i] = IF i > at /\ i <= u THEN D[i]
                                             ELSE IF i <= Len(file) THEN file[i] ELSE Hole
    BY BlockIs
  <1>4. file = SubSeq(D, 1, at)
    OBVIOUS
  <1> HIDE DEF D, u, new
  <1>5. Len(file) = at /\ \A i \in 1 .. at : file[i] = D[i]
    BY <1>1, <1>2, <1>4
  <1>6. part \in Seq(Tokens) /\ Len(part) = u /\ \A i \in 1 .. u : part[i] = D[i]
    <2>1. \A i \in 1 .. u : D[i] \in Tokens
      BY <1>1, <1>2
    <2> QED  BY <1>1, <1>2, <2>1
  <1> HIDE DEF part
  <1>7. Len(new) = u /\ \A i \in 1 .. u : new[i] = D[i]
    <2>1. Len(new) = u
      BY <1>2, <1>3, <1>5
    <2>2. ASSUME NEW i \in 1 .. u
          PROVE  new[i] = D[i]
      <3>1. CASE i > at
        BY <1>3, <2>1, <3>1
      <3>2. CASE i <= at
        <4>1. i \in 1 .. at /\ ~(i > at)
          BY <3>2
        <4> QED  BY <1>2, <1>3, <1>5, <2>1, <4>1
      <3> QED  BY <1>2, <3>1, <3>2
    <2> QED  BY <2>1, <2>2
  <1>8. new = part
    BY <1>3, <1>6, <1>7
  <1> QED
    BY <1>8 DEF new, part, D, u

LEMMA NoTable == <<>> \in Store!Tables
  <1>1. <<>> \in [{} -> Targets]
    OBVIOUS
  <1> QED
    BY <1>1 DEF Store!Tables

\* Steps of programs that change neither the list nor the file.
LEMMA BeginKeepsStore ==
    ASSUME FInv, StoreInv, NEW c \in Programs, NEW op \in {"save", "delete", "use"},
           NEW name \in Names, NEW target \in Targets \cup {NoTarget},
           op = "save" => target \in Targets, Begin(c, op, name, target)
    PROVE  StoreInv'
  <1> DEFINE what == [op |-> op, name |-> name, target |-> target]
  <1>1. what \in Jobs /\ Update(c, "load", what, list[c], offset[c])
    BY BeginUpdates DEF FInv
  <1>2. UNCHANGED <<exists, file, whole, tangled, fresh, damaged, stored>> /\ pc[c] = "idle"
    BY DEF Begin, disk, history
  <1>3. "load" \in Places \ {"write"} /\ list[c] \in Lists /\ offset[c] \in Nat
        /\ stored \in Store!Tables
    BY DEF Places, FInv, ProgramsInv, StoreInv
  <1> HIDE DEF what
  <1> QED
    BY <1>1, <1>2, <1>3, StoreElsewhere

LEMMA FormKeepsStore ==
    ASSUME StoreInv, UNCHANGED <<exists, file, pc, job, list, offset, fresh, whole, tangled, damaged, stored>>
    PROVE  StoreInv'
  <1>1. Writers' = Writers
    BY DEF Writers
  <1> QED
    BY <1>1 DEF StoreInv

\* A list that is fresh when it was loaded is the store's.
LEMMA LoadedIsStored ==
    ASSUME FInv, StoreInv, ~damaged, NEW entries,
           \/ ~exists /\ entries = <<>>
           \/ exists /\ Readable(file) /\ entries = Entries(file)
    PROVE  Table(entries) = stored
  <1>1. /\ DiskType /\ OffsetInv /\ FileInv /\ AbsentInv /\ ProgramsInv
        /\ file \in Seq(Tokens) /\ whole \in Lists
    BY DEF FInv, DiskInv, DiskType
  <1>2. /\ ~tangled
        /\ Writers = {} => Table(whole) = stored
        /\ \A c \in Writers : file = SubSeq(Document(list[c]), 1, offset[c])
    BY DEF StoreInv
  <1>3. CASE ~exists /\ entries = <<>>
    BY <1>1, <1>2, <1>3 DEF AbsentInv
  <1>4. CASE exists /\ Readable(file) /\ entries = Entries(file)
    <2>1. Writers = {}
      <3> SUFFICES ASSUME NEW c \in Writers PROVE FALSE
        OBVIOUS
      <3>1. /\ list[c] \in Lists /\ offset[c] \in Nat /\ offset[c] < Size(list[c])
        BY <1>1 DEF Writers, ProgramsInv, OffsetInv
      <3>2. ~Readable(SubSeq(Document(list[c]), 1, offset[c]))
        BY <3>1, PartIsUnreadable
      <3> QED  BY <1>2, <1>4, <3>2
    <2>2. OfDocument(file, whole)
      BY <1>1, <1>2 DEF FileInv
    <2>3. Entries(file) = whole
      BY <1>1, <1>4, <2>2, ReadIsWhole
    <2> QED  BY <1>2, <1>4, <2>1, <2>3
  <1> QED
    BY <1>3, <1>4

\* A program that leaves the file alone carries a list of the store, or one with
\* the effect it was asked for.
LEMMA WaysKeepStore ==
    ASSUME FInv, StoreInv, NEW c \in Programs, NEW entries \in Lists,
           GoesIdle(c) \/ Asks(c, entries) \/ Opens(c, entries), pc[c] # "write",
           UNCHANGED <<exists, file, whole, tangled, damaged, stored>>,
           \A p \in Programs \ {c} : fresh'[p] = fresh[p],
           ~damaged /\ fresh'[c] /\ pc'[c] # "idle" => Table(entries) = stored
    PROVE  StoreInv'
  <1>1. /\ ProgramsInv /\ stored \in Store!Tables
        /\ offset[c] \in Nat /\ job[c] \in Jobs /\ Idle \in Jobs /\ <<>> \in Lists
        /\ {"idle", "confirm", "open"} \subseteq Places \ {"write"}
    BY IdleIsJob DEF FInv, ProgramsInv, Places, StoreInv
  <1>2. CASE GoesIdle(c)
    <2>1. Update(c, "idle", Idle, <<>>, offset[c])
      BY <1>2 DEF GoesIdle
    <2> QED  BY <1>1, <2>1, StoreElsewhere
  <1>3. CASE Asks(c, entries)
    <2>1. Update(c, "confirm", job[c], entries, offset[c])
      BY <1>3 DEF Asks
    <2>2. pc'[c] = "confirm"
      BY <1>1, <2>1, UpdateIs
    <2> QED  BY <1>1, <2>1, <2>2, StoreElsewhere
  <1>4. CASE Opens(c, entries)
    <2>1. job[c].op \in {"save", "delete"} /\ Update(c, "open", job[c], Changed(c, entries), offset[c])
      BY <1>4 DEF Opens
    <2>2. Changed(c, entries) \in Lists /\ Table(Changed(c, entries)) = EffectOf(job[c], Table(entries))
      BY <1>1, <2>1, ChangedInLists, TableOfChanged
    <2>3. pc'[c] = "open"
      BY <1>1, <2>1, <2>2, UpdateIs
    <2> QED  BY <1>1, <2>1, <2>2, <2>3, StoreElsewhere
  <1> QED
    BY <1>2, <1>3, <1>4

LEMMA LoadKeepsStore ==
    ASSUME FInv, StoreInv, NEW c \in Programs, Load(c) \/ LoadNothing(c)
    PROVE  StoreInv'
  <1>1. /\ pc[c] # "write"
        /\ UNCHANGED <<exists, file, whole, tangled, damaged, stored>>
        /\ \A p \in Programs \ {c} : fresh'[p] = fresh[p]
        /\ \E entries \in Lists :
              /\ GoesIdle(c) \/ Asks(c, entries) \/ Opens(c, entries)
              /\ fresh'[c] /\ pc'[c] # "idle" =>
                    \/ ~exists /\ entries = <<>>
                    \/ exists /\ Readable(file) /\ entries = Entries(file)
    BY LoadIs
  <1>2. PICK entries \in Lists :
              /\ GoesIdle(c) \/ Asks(c, entries) \/ Opens(c, entries)
              /\ fresh'[c] /\ pc'[c] # "idle" =>
                    \/ ~exists /\ entries = <<>>
                    \/ exists /\ Readable(file) /\ entries = Entries(file)
    BY <1>1
  <1>3. ~damaged /\ fresh'[c] /\ pc'[c] # "idle" => Table(entries) = stored
    BY <1>2, LoadedIsStored
  <1> QED
    BY <1>1, <1>2, <1>3, WaysKeepStore

LEMMA AnswerKeepsStore ==
    ASSUME FInv, StoreInv, NEW c \in Programs, Answer(c)
    PROVE  StoreInv'
  <1>1. /\ pc[c] = "confirm" /\ (GoesIdle(c) \/ Opens(c, list[c]))
        /\ UNCHANGED <<exists, file, whole, tangled, damaged, stored, fresh>>
    BY AnswerIs DEF disk, history
  <1>2. list[c] \in Lists /\ (~damaged /\ fresh[c] => Table(list[c]) = stored)
    BY <1>1, AnswerIs DEF FInv, ProgramsInv, StoreInv
  <1> QED
    BY <1>1, <1>2, AnswerIs, WaysKeepStore

LEMMA CannotOpenKeepsStore ==
    ASSUME FInv, StoreInv, NEW c \in Programs, CannotOpen(c)
    PROVE  StoreInv'
  <1>1. /\ pc[c] = "open" /\ Finish(c) /\ UNCHANGED offset
        /\ UNCHANGED <<exists, file, whole, tangled, damaged, stored, fresh>>
    BY DEF CannotOpen, disk, history
  <1>2. ProgramsInv /\ list[c] \in Lists /\ pc[c] # "write"
    BY <1>1 DEF FInv, ProgramsInv
  <1>3. GoesIdle(c)
    BY <1>1, <1>2, FinishUpdates DEF GoesIdle
  <1>4. pc'[c] = "idle"
    BY <1>1, <1>2 DEF Finish, ProgramsInv
  <1> QED
    BY <1>1, <1>2, <1>3, <1>4, WaysKeepStore

\* Who truncates with a fresh list, and alone, has the table the store will be.
LEMMA TruncateKeepsStore ==
    ASSUME FInv, StoreInv, NEW c \in Programs, Truncate(c)
    PROVE  StoreInv'
  <1>1. /\ damaged' = (damaged \/ ~fresh[c] \/ Writers # {})
        /\ tangled' = (tangled \/ (Long(c) /\ \E p \in Writers : Long(p)))
        /\ stored' = IF damaged' THEN <<>> ELSE stored
        /\ file' = <<>> /\ pc[c] = "open"
        /\ fresh' = [p \in Programs |-> FALSE]
        /\ Update(c, "write", job[c], list[c], 0)
    BY TruncateIs DEF Truncate
  <1>2. ProgramsInv /\ job[c] \in Jobs /\ list[c] \in Lists /\ "write" \in Places /\ 0 \in Nat
    BY DEF FInv, ProgramsInv, Places
  <1>3. /\ pc'[c] = "write" /\ job'[c] = job[c] /\ list'[c] = list[c] /\ offset'[c] = 0
        /\ \A p \in Programs \ {c} : pc'[p] = pc[p]
    BY <1>1, <1>2, UpdateIs
  <1>4. CASE damaged'
    BY <1>1, <1>4, NoTable DEF StoreInv
  <1>5. CASE ~damaged'
    <2>1. /\ ~damaged /\ fresh[c] /\ Writers = {} /\ stored' = stored
          /\ ~tangled /\ stored \in Store!Tables
          /\ Table(list[c]) = EffectOf(job[c], stored)
      BY <1>1, <1>5 DEF StoreInv
    <2>2. ~tangled' /\ Writers' = {c}
      BY <1>1, <1>3, <2>1 DEF Writers
    <2>3. file' = SubSeq(Document(list[c]), 1, 0)
      <3>1. Document(list[c]) \in Seq(Tokens)
        BY <1>2, SizeIs
      <3> QED  BY <1>1, <3>1
    <2>4. \A p \in Programs : ~fresh'[p]
      BY <1>1
    <2> QED  BY <1>3, <2>1, <2>2, <2>3, <2>4 DEF StoreInv
  <1> QED
    BY <1>4, <1>5

\* When the last block is written, the store takes the effect that was asked for.
LEMMA WriteBlockStores ==
    ASSUME FInv, StoreInv, NEW c \in Programs, WriteBlock(c), ~damaged
    PROVE  /\ pc'[c] = "write" =>
                 /\ Writers' = {c} /\ stored' = stored
                 /\ job'[c] = job[c] /\ list'[c] = list[c]
                 /\ file' = SubSeq(Document(list[c]), 1, offset'[c])
           /\ pc'[c] # "write" =>
                 /\ Writers' = {} /\ stored' = EffectOf(job[c], stored)
                 /\ Readable(file') /\ Table(whole') = stored' /\ stored' \in Store!Tables
  <1> DEFINE l == list[c]
             o == offset[c]
             u == Upto(l, o)
  <1>1. /\ c \in Writers /\ l \in Lists /\ o \in Nat /\ o < Size(l)
        /\ file' = Block(l, o) /\ UNCHANGED <<tangled, damaged>>
        /\ stored' = IF pc'[c] = "write" \/ damaged THEN stored ELSE Table(Entries(file'))
        /\ \/ u < Size(l) /\ Update(c, "write", job[c], l, u)
           \/ /\ u = Size(l)
              /\ Update(c, "reload", job[c], <<>>, 0) \/ Update(c, "idle", Idle, <<>>, 0)
    BY WriteBlockIs DEF FInv
  <1>2. /\ ~tangled /\ Writers = {c} /\ Table(l) = EffectOf(job[c], stored)
        /\ file = SubSeq(Document(l), 1, o)
    BY <1>1 DEF StoreInv
  <1>3. /\ ProgramsInv /\ file \in Seq(Tokens) /\ file' \in Seq(Tokens) /\ whole' \in Lists
        /\ FileInv'
    BY WriteBlockKeepsFInv DEF FInv, DiskInv, DiskType
  <1>4. file' = SubSeq(Document(l), 1, u) /\ u \in Nat /\ Size(l) \in Nat
    BY <1>1, <1>2, <1>3, NextBlockIs, UptoIs, SizeIs
  <1>5. /\ job[c] \in Jobs /\ Idle \in Jobs /\ <<>> \in Lists /\ 0 \in Nat
        /\ {"write", "reload", "idle"} \subseteq Places
    BY <1>3, IdleIsJob DEF ProgramsInv, Places
  <1> HIDE DEF l, o, u
  <1>6. /\ \A p \in Programs \ {c} : pc'[p] = pc[p]
        /\ \/ u < Size(l) /\ pc'[c] = "write" /\ job'[c] = job[c] /\ list'[c] = l /\ offset'[c] = u
           \/ u = Size(l) /\ pc'[c] # "write"
    <2>1. CASE u < Size(l) /\ Update(c, "write", job[c], l, u)
      BY <1>1, <1>3, <1>4, <1>5, <2>1, UpdateIs
    <2>2. CASE u = Size(l) /\ Update(c, "reload", job[c], <<>>, 0)
      BY <1>3, <1>5, <2>2, UpdateIs
    <2>3. CASE u = Size(l) /\ Update(c, "idle", Idle, <<>>, 0)
      BY <1>3, <1>5, <2>3, UpdateIs
    <2> QED  BY <1>1, <2>1, <2>2, <2>3
  <1>7. CASE pc'[c] = "write"
    <2>1. Writers' = {c}
      BY <1>2, <1>6, <1>7 DEF Writers
    <2> QED  BY <1>1, <1>4, <1>6, <1>7, <2>1 DEF l
  <1>8. CASE pc'[c] # "write"
    <2>1. Writers' = {} /\ u = Size(l)
      BY <1>2, <1>6, <1>8 DEF Writers
    <2> DEFINE D == Document(l)
    <2>2. D \in Seq(Tokens) /\ Len(D) = Size(l)
      BY <1>1, SizeIs DEF Size
    <2>3. file' = SubSeq(D, 1, Len(D))
      BY <1>4, <2>1, <2>2
    <2> HIDE DEF D
    <2>4. file' = D
      BY <2>2, <2>3, SubSeqFull
    <2>5. Begins(file', D) /\ Len(file') >= Size(l)
      BY <1>4, <2>2, <2>4 DEF Begins
    <2>6. OfDocument(file', l)
      BY <2>5 DEF OfDocument, D
    <2>7. Readable(file') /\ Entries(file') = l
      BY <1>1, <1>3, <2>5, <2>6, ReadIsWhole DEF D
    <2>8. Entries(file') = whole'
      <3>1. OfDocument(file', whole')
        BY <1>1, <1>2, <1>3 DEF FileInv
      <3> QED  BY <1>3, <2>7, <3>1, ReadIsWhole
    <2>9. stored' = Table(l) /\ Table(l) \in Store!Tables
      BY <1>1, <1>8, <2>7, TableIs
    <2> QED  BY <1>2, <1>8, <2>1, <2>7, <2>8, <2>9
  <1> QED
    BY <1>7, <1>8

\* What the actions that begin an operation have in common.
BeginsSome(c) ==
    \E op \in {"save", "delete", "use"}, name \in Names, target \in Targets \cup {NoTarget} :
       (op = "save" => target \in Targets) /\ Begin(c, op, name, target)

LEMMA RunBegins ==
    ASSUME NEW c \in Runs, StartRun(c)
    PROVE  BeginsSome(c)
  <1>1. RunTargets \subseteq Targets
    BY SavedTargetsAssumption DEF Targets
  <1>2. PICK name \in Names : \/ \E target \in RunTargets : Begin(c, "save", name, target)
                             \/ \E op \in {"delete", "use"} : Begin(c, op, name, NoTarget)
    BY DEF StartRun
  <1>3. CASE \E target \in RunTargets : Begin(c, "save", name, target)
    BY <1>1, <1>3 DEF BeginsSome
  <1>4. CASE \E op \in {"delete", "use"} : Begin(c, op, name, NoTarget)
    BY <1>4 DEF BeginsSome
  <1> QED
    BY <1>2, <1>3, <1>4

LEMMA DialogBegins ==
    ASSUME DialogsInv, NEW d \in Dialogs, SaveAs(d) \/ DeleteSelected(d) \/ Select(d)
    PROVE  BeginsSome(d)
  <1>1. CASE SaveAs(d)
    <2>1. TargetFromFields(form[d]) \in Targets
      BY FieldsAreTarget DEF DialogsInv
    <2>2. PICK name \in Names : Begin(d, "save", name, TargetFromFields(form[d]))
      BY <1>1 DEF SaveAs
    <2> QED  BY <2>1, <2>2 DEF BeginsSome
  <1>2. CASE DeleteSelected(d)
    <2>1. selected[d] # NoName /\ Begin(d, "delete", selected[d], NoTarget)
      BY <1>2 DEF DeleteSelected
    <2>2. selected[d] \in Names
      BY <2>1 DEF DialogsInv
    <2> QED  BY <2>1, <2>2 DEF BeginsSome
  <1>3. CASE Select(d)
    <2>1. PICK name \in combo[d] \ {selected[d]} : Begin(d, "use", name, NoTarget)
      BY <1>3 DEF Select
    <2>2. name \in Names
      BY DEF DialogsInv
    <2> QED  BY <2>1, <2>2 DEF BeginsSome
  <1> QED
    BY <1>1, <1>2, <1>3

LEMMA WriteBlockKeepsStore ==
    ASSUME FInv, StoreInv, NEW c \in Programs, WriteBlock(c)
    PROVE  StoreInv'
  <1>1. /\ UNCHANGED <<tangled, damaged>> /\ fresh' = [p \in Programs |-> FALSE]
        /\ stored' = IF pc'[c] = "write" \/ damaged THEN stored ELSE Table(Entries(file'))
    BY WriteBlockIs DEF FInv
  <1>2. CASE damaged
    BY <1>1, <1>2 DEF StoreInv
  <1>3. CASE ~damaged
    <2>1. ~tangled /\ Table(list[c]) = EffectOf(job[c], stored) /\ stored \in Store!Tables
      <3>1. c \in Writers
        BY DEF WriteBlock, Writers
      <3> QED  BY <1>3, <3>1 DEF StoreInv
    <2>2. \A p \in Programs : ~fresh'[p]
      BY <1>1
    <2>3. CASE pc'[c] = "write"
      <3>1. /\ Writers' = {c} /\ stored' = stored
            /\ job'[c] = job[c] /\ list'[c] = list[c]
            /\ file' = SubSeq(Document(list[c]), 1, offset'[c])
        BY <1>3, <2>3, WriteBlockStores
      <3> QED  BY <1>1, <2>1, <2>2, <3>1 DEF StoreInv
    <2>4. CASE pc'[c] # "write"
      <3>1. Writers' = {} /\ Readable(file') /\ Table(whole') = stored' /\ stored' \in Store!Tables
        BY <1>3, <2>4, WriteBlockStores
      <3> QED  BY <1>1, <2>1, <2>2, <3>1 DEF StoreInv
    <2> QED  BY <2>3, <2>4
  <1> QED
    BY <1>2, <1>3 DEF FInv, DiskInv, DiskType

\* A save that is cut short damages the store.
LEMMA FailureKeepsStore ==
    ASSUME FInv, StoreInv, NEW c \in Programs, DiskFull(c) \/ Crash(c)
    PROVE  StoreInv'
  <1>1. /\ UNCHANGED <<exists, file, whole, tangled, fresh>>
        /\ \E where \in {"idle", "reload"} : Update(c, where, Idle, <<>>, 0)
    BY FailureIs
  <1>2. PICK where \in {"idle", "reload"} : Update(c, where, Idle, <<>>, 0)
    BY <1>1
  <1>3. /\ where \in Places \ {"write"} /\ Idle \in Jobs /\ <<>> \in Lists /\ 0 \in Nat
        /\ where # "confirm" /\ where # "open"
    BY IdleIsJob DEF Places
  <1>4. /\ stored' \in Store!Tables
        /\ ~damaged' => ~damaged /\ pc[c] # "write" /\ stored' = stored
    BY NoTable DEF DiskFull, Crash, StoreInv
  <1> QED
    BY <1>1, <1>2, <1>3, <1>4, StoreElsewhere

LEMMA NextStoreInv == FInv /\ StoreInv /\ [Next]_vars => StoreInv'
  <1> SUFFICES ASSUME FInv, StoreInv, [Next]_vars PROVE StoreInv'
    OBVIOUS
  <1>1. ASSUME NEW d \in Dialogs, EditForm(d) \/ SelectNone(d)
        PROVE  StoreInv'
    BY <1>1, FormKeepsStore DEF EditForm, SelectNone, disk, program, history
  <1>2. CASE UNCHANGED vars
    BY <1>2, FormKeepsStore DEF vars, disk, program, history
  <1>3. ASSUME NEW d \in Dialogs, SaveAs(d) \/ DeleteSelected(d) \/ Select(d)
        PROVE  StoreInv'
    <2>1. BeginsSome(d)
      BY <1>3, DialogBegins DEF FInv
    <2>2. d \in Programs
      BY DEF Programs
    <2> QED  BY <2>1, <2>2, BeginKeepsStore DEF BeginsSome
  <1>4. ASSUME NEW c \in Runs, StartRun(c)
        PROVE  StoreInv'
    <2>1. BeginsSome(c)
      BY <1>4, RunBegins
    <2>2. c \in Programs
      BY DEF Programs
    <2> QED  BY <2>1, <2>2, BeginKeepsStore DEF BeginsSome
  <1> QED
    BY <1>1, <1>2, <1>3, <1>4, LoadKeepsStore, AnswerKeepsStore, CannotOpenKeepsStore,
       TruncateKeepsStore, WriteBlockKeepsStore, FailureKeepsStore DEF Next

-----------------------------------------------------------------------------
(* Every step is a step of the store, or none.                             *)

\* What the store sees of a program.
AskedAt(where, what) ==
    CASE where = "reload" \/ what.op \in {"none", "use"} -> Idle
      [] OTHER -> IF what.op = "save" THEN what
                  ELSE [op |-> "delete", name |-> what.name]

Requested == [c \in Programs |-> Asked(c)]

LEMMA RequestedIs ==
    ASSUME ProgramsInv, NEW c \in Programs,
           NEW where \in Places, NEW what \in Jobs, NEW entries \in Lists, NEW at \in Nat,
           Update(c, where, what, entries, at)
    PROVE  /\ Requested[c] = AskedAt(pc[c], job[c])
           /\ Requested'[c] = AskedAt(where, what)
           /\ Requested' = [Requested EXCEPT ![c] = AskedAt(where, what)]
  <1>1. \A p : Asked(p) = AskedAt(pc[p], job[p]) /\ Asked(p)' = AskedAt(pc'[p], job'[p])
    BY DEF Asked, AskedAt
  <1>2. /\ pc'[c] = where /\ job'[c] = what
        /\ \A p \in Programs \ {c} : pc'[p] = pc[p] /\ job'[p] = job[p]
    BY UpdateIs
  <1>3. \A p \in Programs : Asked(p)' = IF p = c THEN AskedAt(where, what) ELSE Asked(p)
    BY <1>1, <1>2
  <1> QED
    BY <1>1, <1>2, <1>3 DEF Requested

\* Who saves or deletes asks for just that.
LEMMA AskedIs ==
    ASSUME NEW where \in Places, NEW what \in Jobs, NEW c, Coherent(c, where, what)
    PROVE  /\ where \in {"idle", "reload"} \/ what.op = "use" => AskedAt(where, what) = Idle
           /\ where # "reload" /\ what.op \in {"save", "delete"} =>
                 /\ AskedAt(where, what) \in Store!Requests
                 /\ AskedAt(where, what) # Idle
                 /\ AskedAt(where, what).op = what.op
                 /\ AskedAt(where, what).name = what.name
                 /\ what.op = "save" => AskedAt(where, what).target = what.target
  <1>1. where \in {"idle", "reload"} \/ what.op = "use" => AskedAt(where, what) = Idle
    BY IdleIsJob DEF AskedAt, Coherent
  <1>2. CASE where # "reload" /\ what.op = "save"
    <2>1. AskedAt(where, what) = what
      BY <1>2 DEF AskedAt
    <2>2. what.name \in Names /\ what.target \in Targets
      BY <1>2 DEF Coherent
    <2>3. what = [op |-> "save", name |-> what.name, target |-> what.target]
      BY <1>2 DEF Jobs
    <2>4. what \in Store!Requests
      BY <2>2, <2>3 DEF Store!Requests
    <2> QED  BY <1>1, <1>2, <2>1, <2>4, IdleIsJob
  <1>3. CASE where # "reload" /\ what.op = "delete"
    <2>1. AskedAt(where, what) = [op |-> "delete", name |-> what.name]
      BY <1>3 DEF AskedAt
    <2>2. what.name \in Names
      BY <1>3 DEF Coherent
    <2> QED  BY <1>1, <1>3, <2>1, <2>2, IdleIsJob DEF Store!Requests
  <1> QED
    BY <1>1, <1>2, <1>3

\* The steps of the store.
LEMMA StoreSame ==
    ASSUME Requested' = Requested, UNCHANGED <<stored, damaged>>
    PROVE  UNCHANGED Store!vars
  BY DEF Store!vars, Requested

LEMMA StoreAsks ==
    ASSUME NEW c \in Programs, NEW request \in Store!Requests,
           Requested[c] = Idle, Requested'[c] = request,
           Requested' = [Requested EXCEPT ![c] = request],
           UNCHANGED <<stored, damaged>>
    PROVE  Store!Next
  BY DEF Store!Next, Store!Ask, Requested

LEMMA StoreCancels ==
    ASSUME NEW c \in Programs, Requested' = [Requested EXCEPT ![c] = Idle],
           UNCHANGED <<stored, damaged>>
    PROVE  Store!Next
  BY DEF Store!Next, Store!Cancel, Store!Done, Requested

LEMMA StoreIsDamaged ==
    ASSUME damaged' = TRUE, stored' \in Store!Tables,
           \/ Requested' = Requested
           \/ \E c \in Programs : Requested' = [Requested EXCEPT ![c] = Idle]
    PROVE  Store!Next
  BY DEF Store!Next, Store!Damage, Store!Done, Requested

LEMMA StoreCommits ==
    ASSUME ProgramsInv, NEW c \in Programs, pc[c] = "write",
           Requested[c] = AskedAt(pc[c], job[c]),
           Requested' = [Requested EXCEPT ![c] = Idle],
           stored' = EffectOf(job[c], stored), UNCHANGED damaged
    PROVE  Store!Next
  <1> DEFINE request == Requested[c]
  <1>1. /\ request # Idle /\ request.op = job[c].op /\ request.name = job[c].name
        /\ job[c].op = "save" => request.target = job[c].target
    <2>1. /\ pc[c] \in Places /\ job[c] \in Jobs /\ Coherent(c, pc[c], job[c])
          /\ pc[c] # "reload" /\ job[c].op \in {"save", "delete"}
      BY DEF ProgramsInv, Coherent
    <2> QED  BY <2>1, AskedIs
  <1> HIDE DEF request
  <1>2. IF request.op = "save" THEN Store!Put(request.name, request.target)
                               ELSE Store!Remove(request.name)
    <2>1. CASE job[c].op = "save"
      <3>1. stored' = [n \in DOMAIN stored \cup {job[c].name} |->
                          IF n = job[c].name THEN job[c].target ELSE stored[n]]
        BY <2>1, Zenon DEF EffectOf
      <3>2. request.target = job[c].target
        BY <1>1, <2>1
      <3> QED  BY <1>1, <2>1, <3>1, <3>2 DEF Store!Put
    <2>2. CASE job[c].op # "save"
      <3>1. stored' = [n \in DOMAIN stored \ {job[c].name} |-> stored[n]]
        BY <2>2, Zenon DEF EffectOf
      <3> QED  BY <1>1, <2>2, <3>1 DEF Store!Remove
    <2> QED  BY <2>1, <2>2
  <1>3. Store!Done(c)
    BY DEF Store!Done, Requested
  <1>4. Requested[c] = [p \in Programs |-> Asked(p)][c]
    BY DEF Requested
  <1> QED
    BY <1>1, <1>2, <1>3, <1>4 DEF Store!Next, Store!Commit, request

\* To begin a save or a delete is to ask, to load and to answer is nothing or to
\* cancel, and the last block commits.
LEMMA BeginRefines ==
    ASSUME FInv, NEW c \in Programs, BeginsSome(c)
    PROVE  [Store!Next]_(Store!vars)
  <1>1. PICK op \in {"save", "delete", "use"}, name \in Names, target \in Targets \cup {NoTarget} :
             (op = "save" => target \in Targets) /\ Begin(c, op, name, target)
    BY DEF BeginsSome
  <1> DEFINE what == [op |-> op, name |-> name, target |-> target]
  <1>2. what \in Jobs /\ Coherent(c, "load", what) /\ Update(c, "load", what, list[c], offset[c])
    BY <1>1, BeginUpdates DEF FInv
  <1>3. what.op \in {"save", "delete", "use"}
    OBVIOUS
  <1> HIDE DEF what
  <1>4. /\ pc[c] = "idle" /\ UNCHANGED <<stored, damaged>>
        /\ ProgramsInv /\ list[c] \in Lists /\ offset[c] \in Nat /\ "load" \in Places
        /\ job[c] \in Jobs /\ Coherent(c, pc[c], job[c]) /\ pc[c] \in Places
    BY <1>1 DEF Begin, history, FInv, ProgramsInv, Places
  <1>5. /\ Requested[c] = AskedAt(pc[c], job[c])
        /\ Requested'[c] = AskedAt("load", what)
        /\ Requested' = [Requested EXCEPT ![c] = AskedAt("load", what)]
    BY <1>2, <1>4, RequestedIs
  <1>6. Requested[c] = Idle
    BY <1>4, <1>5, AskedIs
  <1>7. CASE what.op = "use"
    <2>1. AskedAt("load", what) = Idle
      BY <1>2, <1>4, <1>7, AskedIs
    <2> QED  BY <1>4, <1>5, <2>1, StoreCancels
  <1>8. CASE what.op \in {"save", "delete"}
    <2>1. AskedAt("load", what) \in Store!Requests
      BY <1>2, <1>4, <1>8, AskedIs
    <2> QED  BY <1>4, <1>5, <1>6, <2>1, StoreAsks
  <1> QED
    BY <1>3, <1>7, <1>8

\* The ways of a program that does not write.
LEMMA WaysRefine ==
    ASSUME FInv, NEW c \in Programs, NEW entries \in Lists,
           \/ GoesIdle(c)
           \/ pc[c] \in {"load", "confirm"} /\ (Asks(c, entries) \/ Opens(c, entries)),
           UNCHANGED <<stored, damaged>>
    PROVE  [Store!Next]_(Store!vars)
  <1>1. /\ ProgramsInv /\ offset[c] \in Nat /\ job[c] \in Jobs /\ Idle \in Jobs /\ <<>> \in Lists
        /\ {"idle", "confirm", "open"} \subseteq Places
    BY IdleIsJob DEF FInv, ProgramsInv, Places
  <1>2. CASE GoesIdle(c)
    <2>1. Requested' = [Requested EXCEPT ![c] = AskedAt("idle", Idle)]
      BY <1>1, <1>2, RequestedIs DEF GoesIdle
    <2>2. AskedAt("idle", Idle) = Idle
      BY <1>1, IdleIsCoherent, AskedIs
    <2> QED  BY <2>1, <2>2, StoreCancels
  <1>3. ASSUME NEW where \in {"confirm", "open"}, NEW l \in Lists, pc[c] \in {"load", "confirm"},
               Update(c, where, job[c], l, offset[c])
        PROVE  UNCHANGED Store!vars
    <2>1. /\ Requested[c] = AskedAt(pc[c], job[c])
          /\ Requested' = [Requested EXCEPT ![c] = AskedAt(where, job[c])]
      BY <1>1, <1>3, RequestedIs
    <2>2. AskedAt(where, job[c]) = AskedAt(pc[c], job[c])
      BY <1>3 DEF AskedAt
    <2>3. Requested' = Requested
      BY <2>1, <2>2 DEF Requested
    <2> QED  BY <2>3, StoreSame
  <1>4. CASE pc[c] \in {"load", "confirm"} /\ Asks(c, entries)
    BY <1>3, <1>4 DEF Asks
  <1>5. CASE pc[c] \in {"load", "confirm"} /\ Opens(c, entries)
    <2>1. Changed(c, entries) \in Lists
      BY <1>1, <1>5, ChangedInLists DEF Opens
    <2> QED  BY <1>3, <1>5, <2>1 DEF Opens
  <1> QED
    BY <1>2, <1>4, <1>5

LEMMA LoadRefines ==
    ASSUME FInv, NEW c \in Programs, Load(c) \/ LoadNothing(c)
    PROVE  [Store!Next]_(Store!vars)
  <1>1. /\ UNCHANGED <<stored, damaged>>
        /\ \E entries \in Lists :
              \/ GoesIdle(c)
              \/ pc[c] \in {"load", "confirm"} /\ (Asks(c, entries) \/ Opens(c, entries))
    BY LoadIs
  <1> QED
    BY <1>1, WaysRefine

LEMMA AnswerRefines ==
    ASSUME FInv, NEW c \in Programs, Answer(c) \/ CannotOpen(c)
    PROVE  [Store!Next]_(Store!vars)
  <1>1. list[c] \in Lists /\ ProgramsInv
    BY DEF FInv, ProgramsInv
  <1>2. UNCHANGED <<stored, damaged>>
    BY DEF Answer, CannotOpen, history
  <1>3. CASE Answer(c)
    BY <1>1, <1>2, <1>3, AnswerIs, WaysRefine
  <1>4. CASE CannotOpen(c)
    <2>1. GoesIdle(c)
      BY <1>1, <1>4, FinishUpdates DEF CannotOpen, GoesIdle
    <2> QED  BY <1>1, <1>2, <2>1, WaysRefine
  <1> QED
    BY <1>3, <1>4

LEMMA TruncateRefines ==
    ASSUME FInv, StoreInv, NEW c \in Programs, Truncate(c)
    PROVE  [Store!Next]_(Store!vars)
  <1>1. /\ damaged' = (damaged \/ ~fresh[c] \/ Writers # {})
        /\ stored' = IF damaged' THEN <<>> ELSE stored
        /\ pc[c] = "open" /\ Update(c, "write", job[c], list[c], 0)
    BY TruncateIs DEF Truncate
  <1>2. ProgramsInv /\ job[c] \in Jobs /\ list[c] \in Lists /\ "write" \in Places /\ 0 \in Nat
    BY DEF FInv, ProgramsInv, Places
  <1>3. Requested' = Requested
    <2>1. /\ Requested[c] = AskedAt(pc[c], job[c])
          /\ Requested' = [Requested EXCEPT ![c] = AskedAt("write", job[c])]
      BY <1>1, <1>2, RequestedIs
    <2>2. AskedAt("write", job[c]) = AskedAt(pc[c], job[c])
      BY <1>1 DEF AskedAt
    <2> QED  BY <2>1, <2>2 DEF Requested
  <1>4. damaged \in BOOLEAN
    BY DEF FInv, DiskInv, DiskType
  <1>5. CASE damaged'
    <2>1. damaged' = TRUE /\ stored' \in Store!Tables
      BY <1>1, <1>5, NoTable
    <2> QED  BY <1>3, <2>1, StoreIsDamaged
  <1>6. CASE ~damaged'
    <2>1. UNCHANGED <<stored, damaged>>
      BY <1>1, <1>4, <1>6
    <2> QED  BY <1>3, <2>1, StoreSame
  <1> QED
    BY <1>5, <1>6

LEMMA WriteBlockRefines ==
    ASSUME FInv, StoreInv, NEW c \in Programs, WriteBlock(c)
    PROVE  [Store!Next]_(Store!vars)
  <1> DEFINE u == Upto(list[c], offset[c])
  <1>1. /\ c \in Writers /\ list[c] \in Lists /\ offset[c] \in Nat /\ offset[c] < Size(list[c])
        /\ UNCHANGED damaged
        /\ stored' = IF pc'[c] = "write" \/ damaged THEN stored ELSE Table(Entries(file'))
        /\ \/ Update(c, "write", job[c], list[c], u)
           \/ Update(c, "reload", job[c], <<>>, 0)
           \/ Update(c, "idle", Idle, <<>>, 0)
    BY WriteBlockIs DEF FInv
  <1>2. /\ ProgramsInv /\ pc[c] = "write" /\ job[c] \in Jobs /\ Idle \in Jobs /\ <<>> \in Lists
        /\ 0 \in Nat /\ u \in Nat /\ Coherent(c, pc[c], job[c])
        /\ "write" \in Places /\ "reload" \in Places /\ "idle" \in Places
    BY <1>1, IdleIsJob, UptoIs DEF FInv, ProgramsInv, Places, Writers
  <1> HIDE DEF u
  <1>3. CASE Update(c, "write", job[c], list[c], u)
    <2>1. /\ Requested[c] = AskedAt("write", job[c])
          /\ Requested' = [Requested EXCEPT ![c] = AskedAt("write", job[c])]
      BY <1>1, <1>2, <1>3, RequestedIs
    <2>2. Requested' = Requested
      BY <2>1 DEF Requested
    <2>3. pc'[c] = "write"
      BY <1>1, <1>2, <1>3, UpdateIs
    <2> QED  BY <1>1, <2>2, <2>3, StoreSame
  <1>4. ASSUME NEW where \in {"reload", "idle"}, NEW what \in Jobs,
               Coherent(c, where, what), Update(c, where, what, <<>>, 0)
        PROVE  Store!Next
    <2>1. /\ Requested[c] = AskedAt(pc[c], job[c])
          /\ Requested' = [Requested EXCEPT ![c] = AskedAt(where, what)]
      BY <1>2, <1>4, RequestedIs
    <2>2. AskedAt(where, what) = Idle
      BY <1>2, <1>4, AskedIs
    <2>3. pc'[c] # "write"
      BY <1>2, <1>4, UpdateIs
    <2>4. CASE damaged
      BY <1>1, <2>1, <2>2, <2>4, StoreCancels
    <2>5. CASE ~damaged
      <3>1. stored' = EffectOf(job[c], stored)
        BY <2>3, <2>5, WriteBlockStores
      <3> QED  BY <1>1, <1>2, <2>1, <2>2, <3>1, StoreCommits
    <2> QED  BY <2>4, <2>5
  <1>5. Coherent(c, "reload", job[c]) /\ Coherent(c, "idle", Idle)
    BY <1>2, IdleIsCoherent DEF Coherent
  <1> QED
    BY <1>1, <1>2, <1>3, <1>4, <1>5

LEMMA FailureRefines ==
    ASSUME FInv, StoreInv, NEW c \in Programs, DiskFull(c) \/ Crash(c)
    PROVE  [Store!Next]_(Store!vars)
  <1>1. PICK where \in {"idle", "reload"} : Update(c, where, Idle, <<>>, 0)
    BY FailureIs
  <1>2. /\ ProgramsInv /\ where \in Places /\ Idle \in Jobs /\ <<>> \in Lists /\ 0 \in Nat
        /\ Coherent(c, where, Idle) /\ damaged \in BOOLEAN
    BY IdleIsJob, IdleIsCoherent DEF FInv, Places, DiskInv, DiskType
  <1>3. Requested' = [Requested EXCEPT ![c] = Idle]
    <2>1. Requested' = [Requested EXCEPT ![c] = AskedAt(where, Idle)]
      BY <1>1, <1>2, RequestedIs
    <2>2. AskedAt(where, Idle) = Idle
      BY <1>2, AskedIs
    <2> QED  BY <2>1, <2>2
  <1>4. CASE damaged' = TRUE /\ stored' = <<>>
    BY <1>3, <1>4, NoTable, StoreIsDamaged
  <1>5. CASE UNCHANGED <<stored, damaged>>
    BY <1>3, <1>5, StoreCancels
  <1>6. <1>4!1 \/ <1>5!1
    BY <1>2 DEF DiskFull, Crash
  <1> QED
    BY <1>4, <1>5, <1>6

LEMMA NextRefines == FInv /\ StoreInv /\ [Next]_vars => [Store!Next]_(Store!vars)
  <1> SUFFICES ASSUME FInv, StoreInv, [Next]_vars PROVE [Store!Next]_(Store!vars)
    OBVIOUS
  <1>1. ASSUME UNCHANGED <<pc, job, stored, damaged>>
        PROVE  UNCHANGED Store!vars
    <2>1. \A c : Asked(c)' = Asked(c)
      BY <1>1 DEF Asked
    <2>2. Requested' = Requested
      BY <2>1 DEF Requested
    <2> QED  BY <1>1, <2>2, StoreSame
  <1>2. ASSUME NEW d \in Dialogs, EditForm(d) \/ SelectNone(d)
        PROVE  UNCHANGED Store!vars
    BY <1>1, <1>2 DEF EditForm, SelectNone, program, history
  <1>3. CASE UNCHANGED vars
    BY <1>1, <1>3 DEF vars, program, history
  <1>4. ASSUME NEW d \in Dialogs, SaveAs(d) \/ DeleteSelected(d) \/ Select(d)
        PROVE  [Store!Next]_(Store!vars)
    <2>1. d \in Programs /\ BeginsSome(d)
      BY <1>4, DialogBegins DEF FInv, Programs
    <2> QED  BY <2>1, BeginRefines
  <1>5. ASSUME NEW c \in Runs, StartRun(c)
        PROVE  [Store!Next]_(Store!vars)
    <2>1. c \in Programs /\ BeginsSome(c)
      BY <1>5, RunBegins DEF Programs
    <2> QED  BY <2>1, BeginRefines
  <1> QED
    BY <1>2, <1>3, <1>4, <1>5, LoadRefines, AnswerRefines, TruncateRefines,
       WriteBlockRefines, FailureRefines DEF Next

LEMMA InitRefines == Init => Store!Init
  <1> SUFFICES ASSUME Init PROVE Store!Init
    OBVIOUS
  <1>1. damaged = FALSE /\ stored \in Store!Tables
    BY InitStoreInv DEF Init, StoreInv
  <1>2. \A c \in Programs : Asked(c) = Idle
    BY IdleIsJob DEF Init, Asked
  <1> QED
    BY <1>1, <1>2 DEF Store!Init

\* However saves, deletes and loads of several programs interleave: each save and
\* each delete takes its whole effect on the store at the end of its last block, or
\* none, until one was cut short or made from an old list.
THEOREM SavesAreWhole == Spec => ImplementsTargetStore
  <1>1. Init => FInv /\ StoreInv
    BY InitFInv, InitStoreInv
  <1>2. FInv /\ StoreInv /\ [Next]_vars => FInv' /\ StoreInv'
    BY NextFInv, NextStoreInv
  <1> QED
    BY <1>1, <1>2, InitRefines, NextRefines, PTL DEF Spec, ImplementsTargetStore, Store!Spec
=============================================================================
