------------------------------ MODULE GuiPanel ------------------------------
(***************************************************************************)
(* The main window (graphicalUserInterface.cpp): the groups of widgets of  *)
(* the channels, the set-point dialog and the diagnostics panel that open  *)
(* under a channel and push the ones below it down, the error message of   *)
(* the remote computer, and the messages through which the peripheral      *)
(* thread has all of them changed.                                         *)
(*                                                                         *)
(* Rows of the window are counted from 0; a group is one row high and a    *)
(* panel is two.  The FLTK thread runs the callbacks of the user and the   *)
(* handlers of the messages one at a time.  A turn of the peripheral       *)
(* thread begins when the messages of the last one have been handled: it   *)
(* sends them every half a second, and the handlers only set widgets.      *)
(*                                                                         *)
(* PowerChannel has what the power buttons do, SetPointEntry what happens  *)
(* in the dialog.                                                          *)
(***************************************************************************)
EXTENDS PowerOrders, Integers

CONSTANTS
    Channels,       \* NumberOfChannels
    TableStates     \* bound: the states of each channel that occur

Problems == {"psuError", "externalError"}
Modes == {"local", "remote", "unknownMode"}

Tables == [comm : CommunicationStates, phase : PoweringDownStates,
           status : SUBSET (Problems \union {"remote"})]

Lines == 0 .. Channels - 1
None == -1

\* What DataSharingInterface::initialize leaves.
NewTable == [comm |-> "PORT_NOT_OPEN", phase |-> "INACTIVE", status |-> {}]

ASSUME PanelAssumption ==
    /\ Channels \in Nat \ {0}
    /\ TableStates \in [Lines -> SUBSET Tables]
    /\ \A c \in Lines : NewTable \in TableStates[c]

VARIABLES
    isModbusTcpSlave,   \* IsModbusTcpSlave: this is the local computer
    control,            \* ControlFromGuiHere
    healthy,            \* ModbusTcpCommunicationState is NO_ERROR
    table,              \* the states in TableOfSharedDataForGui
    group,              \* TableOfGroupsPtr: the widgets of each channel
    dialog,             \* ChannelThatDisplaysInputValueDialog
    diagnostics,        \* ChannelThatDisplaysDiagnostics
    diagnosticsText,    \* the text of DiagnosticTextBoxPtr, and of whom it tells
    blank,              \* BlankRectanglePtr is visible
    message,            \* LargeErrorMessage is visible
    title,              \* the label of the window, and RemoteComputerControlButton
    configurable,       \* UpdateConfigurableWidgets
    inbox               \* messages to the main thread

panels == <<dialog, diagnostics, diagnosticsText, blank>>
window == <<message, title, configurable>>
link   == <<isModbusTcpSlave, healthy>>
vars   == <<link, control, table, group, panels, window, inbox>>

Controls == {"on", "off", "set"}
Buttons == Controls \union {"info"}

Texts == Problems \union Modes \union {"values", "wrongId"}

DiagnosticsKinds == {"data", "failed", "neverAnswered", "wrongId", "noPort"}

Inboxes == [label : BOOLEAN, show : SUBSET Lines, close : BOOLEAN,
            hide : BOOLEAN, update : SUBSET Lines]

NoMessages == [label |-> FALSE, show |-> {}, close |-> FALSE,
               hide |-> FALSE, update |-> {}]

Title(slave, here) == [slave |-> slave, here |-> here, button |-> slave]

\* What a group was last updated with: OldPowerDownState, OldControlFromGuiHere.
Groups == [visible : BOOLEAN, row : 0 .. Channels + 1, bottomLine : BOOLEAN,
           active : SUBSET Buttons, warning : BOOLEAN, texts : SUBSET Texts,
           old : [phase : PoweringDownStates, control : BOOLEAN]]

TypeOK ==
    /\ isModbusTcpSlave \in BOOLEAN
    /\ control \in BOOLEAN
    /\ healthy \in BOOLEAN
    /\ table \in [Lines -> Tables]
    /\ group \in [Lines -> Groups]
    /\ dialog \in Lines \union {None}
    /\ diagnostics \in Lines \union {None}
    /\ diagnosticsText \in [of : Lines \union {None}, kind : DiagnosticsKinds]
    /\ blank \in BOOLEAN
    /\ message \in BOOLEAN
    /\ title \in [slave : BOOLEAN, here : BOOLEAN, button : BOOLEAN]
    /\ configurable \in BOOLEAN
    /\ inbox \in Inboxes

\* As it is when the configuration file has been read: the title is still the
\* one main() gave the window before.
NewGroup(c) ==
    [visible |-> FALSE, row |-> c, bottomLine |-> TRUE,
     active |-> {"on", "off", "info"}, warning |-> FALSE, texts |-> {"unknownMode"},
     old |-> [phase |-> "INACTIVE", control |-> FALSE]]

Init ==
    /\ isModbusTcpSlave \in BOOLEAN
    /\ control = isModbusTcpSlave
    /\ healthy = FALSE
    /\ table = [c \in Lines |-> NewTable]
    /\ group = [c \in Lines |-> NewGroup(c)]
    /\ dialog = None
    /\ diagnostics = None
    /\ diagnosticsText = [of |-> None, kind |-> "noPort"]
    /\ blank = FALSE
    /\ message = FALSE
    /\ title = [Title(FALSE, TRUE) EXCEPT !.button = FALSE]
    /\ configurable = TRUE
    /\ inbox = IF isModbusTcpSlave THEN [NoMessages EXCEPT !.show = Lines] ELSE NoMessages

-----------------------------------------------------------------------------
(***************************************************************************)
(* The widgets of one channel.                                             *)
(***************************************************************************)
Controllable(comm) == comm \in {"HEALTHY", "TEMPORARY_ERRORS"}

\* Where the groups go when a panel is open under a channel, or none is.
RowUnder_NoRoom(open, c) == IF open # None /\ c > open THEN c + 1 ELSE c

RowUnder_Relative(open, c) ==
    IF open # None /\ c > open THEN group[c].row + 2 ELSE c

RowUnder(open, c) == IF open # None /\ c > open THEN c + 2 ELSE c

\* All groups arranged for a panel open under one channel; the groups that a
\* panel continues have no bottom line.
Arranged(open, continued) ==
    [c \in Lines |-> [group[c] EXCEPT !.row = RowUnder(open, c),
                                      !.bottomLine = c \notin continued]]

\* selectiveActivate or selectiveDeactivate of all groups on top of it.
ArrangedWith(buttons, open, continued) ==
    [c \in Lines |-> [Arranged(open, continued)[c] EXCEPT !.active = buttons]]

\* updateSettingsButtonsAndPowerDownWigets
Enabled(c) == Controllable(table[c].comm) /\ control /\ dialog = None

Changed(c) == group[c].old # [phase |-> table[c].phase, control |-> control]

ButtonsAfterUpdate(c) ==
    (group[c].active \ Controls) \union
    (IF ~Enabled(c) THEN {}
     ELSE IF table[c].phase = "INACTIVE" THEN Controls
     ELSE IF ~Changed(c) THEN group[c].active \intersect Controls
     ELSE IF table[c].phase = "TIMEOUT_EXCEEDED" THEN {"off"} ELSE {})

WarningAfterUpdate_Kept(c) ==
    IF Changed(c) /\ Enabled(c)
    THEN table[c].phase = "TIMEOUT_EXCEEDED" ELSE group[c].warning

WarningAfterUpdate(c) ==
    IF ~Changed(c) THEN group[c].warning
    ELSE IF Enabled(c) THEN table[c].phase = "TIMEOUT_EXCEEDED"
    ELSE group[c].warning /\ group[c].old.phase # "TIMEOUT_EXCEEDED"

\* refreshPowerOnOffLabel, refreshNumericValues, refreshStatusLabels: numbers
\* or dashes, the labels of errors, and the mode of the supply.  A supply with
\* a wrong identifier keeps the mode it had.
TextsAfterUpdate_Stays(c) ==
    IF Controllable(table[c].comm)
    THEN {"values"} \union (table[c].status \intersect Problems)
            \union {IF "remote" \in table[c].status THEN "remote" ELSE "local"}
    ELSE IF table[c].comm # "WRONG_PHYSICAL_ID" THEN {"unknownMode"}
    ELSE {"wrongId"} \union group[c].texts

TextsAfterUpdate(c) ==
    IF Controllable(table[c].comm)
    THEN {"values"} \union (table[c].status \intersect Problems)
            \union {IF "remote" \in table[c].status THEN "remote" ELSE "local"}
    ELSE IF table[c].comm # "WRONG_PHYSICAL_ID" THEN {"unknownMode"}
    ELSE {"wrongId"} \union (group[c].texts \intersect Modes)

GroupAfterUpdate(c) ==
    [group[c] EXCEPT
        !.active = ButtonsAfterUpdate(c),
        !.warning = WarningAfterUpdate(c),
        !.texts = TextsAfterUpdate(c),
        !.old = [phase |-> table[c].phase, control |-> control]]

\* DiagnosticsGroup::updateDataAndWidgets: whether the supply has ever
\* answered is not kept here.
DiagnosticsData(c) ==
    {[of |-> c, kind |-> kind] : kind \in
        CASE Controllable(table[c].comm)         -> {"data"}
          [] table[c].comm = "PERMANENT_ERRORS"  -> {"failed", "neverAnswered"}
          [] table[c].comm = "WRONG_PHYSICAL_ID" -> {"wrongId"}
          [] OTHER                               -> {"noPort"}}

-----------------------------------------------------------------------------
(***************************************************************************)
(* The user.                                                               *)
(***************************************************************************)
CanPress(c, button) == group[c].visible /\ button \in group[c].active

\* The warning takes the place of the button.
ChangeSetPoint(c) ==
    /\ CanPress(c, "set")
    /\ ~group[c].warning
    /\ dialog' = c
    /\ diagnostics' = None
    /\ blank' = FALSE
    /\ group' = ArrangedWith({}, c, {c})
    /\ UNCHANGED <<link, control, table, diagnosticsText, window, inbox>>

\* closeSetPointDialogInternals: all buttons of all channels work, until the
\* channels are next updated.
CloseDialogInternals ==
    /\ dialog' = None
    /\ blank' = TRUE
    /\ group' = ArrangedWith(Buttons, None, {diagnostics})
    /\ UNCHANGED <<diagnostics, diagnosticsText>>

CloseSetPointDialog ==
    /\ dialog # None
    /\ CloseDialogInternals
    /\ UNCHANGED <<link, control, table, window, inbox>>

\* The button closes the panel if it is this channel's, and opens it or moves
\* it here otherwise.
DiagnosticsButton(c) ==
    /\ CanPress(c, "info")
    /\ \/ /\ diagnostics = c
          /\ diagnostics' = None
          /\ blank' = TRUE
          /\ group' = Arranged(None, {dialog})
          /\ UNCHANGED diagnosticsText
       \/ /\ diagnostics # c
          /\ diagnostics' = c
          /\ blank' = FALSE
          /\ group' = Arranged(c, {dialog, c})
          /\ diagnosticsText' \in DiagnosticsData(c)
    /\ UNCHANGED dialog
    /\ UNCHANGED <<link, control, table, window, inbox>>

\* The button is there on the local computer only.
RemoteComputerControl ==
    /\ title.button
    /\ control' = ~control
    /\ title' = Title(isModbusTcpSlave, control')
    /\ IF dialog # None THEN CloseDialogInternals ELSE UNCHANGED <<group, panels>>
    /\ UNCHANGED <<link, table, message, configurable, inbox>>

UserActs ==
    \/ \E c \in Lines : ChangeSetPoint(c) \/ DiagnosticsButton(c)
    \/ CloseSetPointDialog
    \/ RemoteComputerControl

-----------------------------------------------------------------------------
(***************************************************************************)
(* The messages, in the order they are sent.                               *)
(***************************************************************************)
Relabelled_SameControl == [title EXCEPT !.slave = isModbusTcpSlave]

Relabelled == [title EXCEPT !.slave = isModbusTcpSlave, !.here = control]

UpdateMainApplicationLabel ==
    /\ inbox.label
    /\ inbox' = [inbox EXCEPT !.label = FALSE]
    /\ title' = Relabelled
    /\ UNCHANGED <<link, control, table, group, panels, message, configurable>>

DisplayChannelWidgets(c) ==
    /\ ~inbox.label
    /\ c \in inbox.show
    /\ \A d \in inbox.show : c <= d
    /\ inbox' = [inbox EXCEPT !.show = @ \ {c}]
    /\ group' = [group EXCEPT ![c].visible = TRUE]
    /\ UNCHANGED <<link, control, table, panels, window>>

CloseSetpointDialogIfActive ==
    /\ ~inbox.label /\ inbox.show = {}
    /\ inbox.close
    /\ inbox' = [inbox EXCEPT !.close = FALSE]
    /\ IF dialog # None THEN CloseDialogInternals ELSE UNCHANGED <<group, panels>>
    /\ UNCHANGED <<link, control, table, window>>

HideChannelWidgets_LeavesDialog ==
    /\ ~inbox.label /\ inbox.show = {} /\ ~inbox.close
    /\ inbox.hide
    /\ inbox' = [inbox EXCEPT !.hide = FALSE]
    /\ group' = [c \in Lines |-> [group[c] EXCEPT !.visible = FALSE]]
    /\ diagnostics' = None
    /\ blank' = FALSE
    /\ message' = TRUE
    /\ UNCHANGED <<link, control, table, dialog, diagnosticsText, title, configurable>>

\* displayTcpConnectionErrorMessageAndHideChannelWidgets
HideChannelWidgets ==
    /\ ~inbox.label /\ inbox.show = {} /\ ~inbox.close
    /\ inbox.hide
    /\ inbox' = [inbox EXCEPT !.hide = FALSE]
    /\ group' = [c \in Lines |-> [group[c] EXCEPT !.visible = FALSE]]
    /\ dialog' = None
    /\ diagnostics' = None
    /\ blank' = FALSE
    /\ message' = TRUE
    /\ UNCHANGED <<link, control, table, diagnosticsText, title, configurable>>

\* updateChannelWidgets; the first one also completes the window's own widgets.
UpdateChannelWidgets(c) ==
    /\ ~inbox.label /\ inbox.show = {} /\ ~inbox.close /\ ~inbox.hide
    /\ c \in inbox.update
    /\ \A d \in inbox.update : c <= d
    /\ inbox' = [inbox EXCEPT !.update = @ \ {c}]
    /\ group' = IF group[c].visible
                THEN [group EXCEPT ![c] = GroupAfterUpdate(c)] ELSE group
    /\ IF diagnostics = c
       THEN diagnosticsText' \in DiagnosticsData(c) ELSE UNCHANGED diagnosticsText
    /\ configurable' = FALSE
    /\ title' = IF configurable THEN Title(isModbusTcpSlave, control) ELSE title
    /\ UNCHANGED <<link, control, table, dialog, diagnostics, blank, message>>

HandleMessage ==
    \/ UpdateMainApplicationLabel
    \/ \E c \in Lines : DisplayChannelWidgets(c) \/ UpdateChannelWidgets(c)
    \/ CloseSetpointDialogIfActive
    \/ HideChannelWidgets

-----------------------------------------------------------------------------
(***************************************************************************)
(* The peripheral thread.                                                  *)
(***************************************************************************)
\* The local computer passes through "decelerating" on the way to the timeout;
\* the remote one may have missed it.
StateChanges ==
    /\ \E c \in Lines : \E new \in TableStates[c] :
          /\ isModbusTcpSlave =>
                table[c].phase # "INACTIVE" \/ new.phase # "TIMEOUT_EXCEEDED"
          /\ table' = [table EXCEPT ![c] = new]
    /\ UNCHANGED <<link, control, group, panels, window, inbox>>

LocalTurn ==
    /\ isModbusTcpSlave
    /\ inbox = NoMessages
    /\ inbox' = [NoMessages EXCEPT !.update = Lines]
    /\ UNCHANGED <<link, control, table, group, panels, window>>

\* restoreChannelWidgets, called by this thread itself.
RestoreChannelWidgets ==
    /\ message' = FALSE
    /\ UNCHANGED panels
    /\ group' = [c \in Lines |->
                    [ArrangedWith(Buttons, None, {dialog, diagnostics})[c]
                        EXCEPT !.visible = TRUE]]

\* A change of control is announced, and so are the texts that arrive in the
\* run-up, even if it fails then; every failure hides the channels, and the
\* first success after one brings them back.
RemoteTurn ==
    /\ ~isModbusTcpSlave
    /\ inbox = NoMessages
    /\ healthy' \in BOOLEAN
    /\ control' \in BOOLEAN
    /\ \E refresh \in BOOLEAN :
          /\ control' # control => refresh
          /\ refresh => control' # control \/ ~healthy
          /\ inbox' = [label |-> refresh,
                       show |-> IF refresh THEN Lines ELSE {},
                       close |-> refresh /\ ~control',
                       hide |-> ~healthy',
                       update |-> Lines]
    /\ IF healthy' /\ ~healthy
       THEN RestoreChannelWidgets ELSE UNCHANGED <<message, group, panels>>
    /\ UNCHANGED <<isModbusTcpSlave, table, title, configurable>>

PeripheralTurn == LocalTurn \/ RemoteTurn

Next == UserActs \/ HandleMessage \/ StateChanges \/ PeripheralTurn

\* Both threads go round their loops; the user and the supplies need do nothing.
Spec == Init /\ [][Next]_vars /\ WF_vars(HandleMessage) /\ WF_vars(PeripheralTurn)

-----------------------------------------------------------------------------
(***************************************************************************)
(* Properties.                                                             *)
(***************************************************************************)
\* The position of every group is set by whichever callback opens, moves or
\* closes a panel; still no two things that are visible are ever in one row,
\* one panel at most is open, and while the channels are shown the bottom line
\* is missing just where a panel continues a channel.
PanelRows(open) == IF open = None THEN {} ELSE {open + 1, open + 2}

BlankRows == IF blank THEN {Channels, Channels + 1} ELSE {}

NothingOverlaps ==
    /\ dialog = None \/ diagnostics = None
    /\ \A c, d \in Lines :
          group[c].visible /\ group[d].visible /\ c # d => group[c].row # group[d].row
    /\ \A c \in Lines :
          group[c].visible =>
             /\ group[c].row \notin PanelRows(dialog) \union PanelRows(diagnostics)
             /\ group[c].row \notin BlankRows
             /\ ~message => group[c].bottomLine = (c # dialog /\ c # diagnostics)
    /\ (PanelRows(dialog) \union PanelRows(diagnostics)) \intersect BlankRows = {}

\* The warning and the rearranged widgets of a timeout never outlive it: once
\* the group has been updated with another state they are gone, in spite of
\* lost control, bad communication or an open dialog at the time.
WarningMeansTimeout ==
    \A c \in Lines :
        group[c].warning => group[c].old.phase = "TIMEOUT_EXCEEDED"

\* When the messages have been handled, either the error message is shown and
\* neither channels nor panels are, or the message is not shown.
ErrorMessageStandsAlone ==
    inbox = NoMessages /\ message =>
        /\ \A c \in Lines : ~group[c].visible
        /\ dialog = None /\ diagnostics = None /\ ~blank

\* If everything stays as it is with no dialog open, the buttons finally are
\* the ones for it: none without control of a supply that answers, all three
\* when no shutdown is going on; and the texts are the ones for it, those in
\* the diagnostics panel included.
PanelSettles ==
    \A c \in Lines :
        /\ <>[](group[c].visible /\ dialog = None
                  /\ ~(control /\ Controllable(table[c].comm)))
              => <>[](group[c].active \intersect Controls = {})
        /\ <>[](group[c].visible /\ dialog = None /\ table[c].phase = "INACTIVE"
                  /\ control /\ Controllable(table[c].comm))
              => <>[](Controls \subseteq group[c].active /\ ~group[c].warning)
        /\ <>[](group[c].visible /\ table[c].comm = "WRONG_PHYSICAL_ID")
              => <>[](group[c].texts \intersect (Problems \union {"values"}) = {})
        /\ <>[](diagnostics = c /\ table[c].comm = "HEALTHY")
              => <>[](diagnosticsText = [of |-> c, kind |-> "data"])

\* When control stops changing hands, the title of the window is the one for
\* this computer and for who has control.
TitleTellsControl ==
    \A here \in BOOLEAN :
        <>[](control = here) => <>[](title = Title(isModbusTcpSlave, here))

\* multiChannel.cpp:505-506: when the timeout is over the user is told, and may
\* decide to turn the supply off all the same.
WarningIsShown ==
    \A c \in Lines :
        <>[](/\ group[c].visible /\ dialog = None /\ control
             /\ Controllable(table[c].comm) /\ table[c].phase = "TIMEOUT_EXCEEDED")
           => <>[]group[c].warning
=============================================================================
