------------------------------ MODULE MCClients ------------------------------
(* Small instances of six modules for TLC: the sign-in of administrators, the *)
(* creation quota, the command line client, the widgets of a chat page, the   *)
(* exports of a wiki and its page in the browser.  They share no variable, so *)
(* one run checks them side by side: a behaviour is one of the part it was    *)
(* started for, the others stay as they began.                                *)
EXTENDS AdminSignIn, CreationQuota, OneShotPost, ChatView, WikiExport, WikiEditor

VARIABLE part
clientVars == <<part, signInVars, quotaVars, postVars, chatViewVars, exportVars, editorVars>>

Parts == {"sign-in", "quota", "post", "view", "export", "editor"}

\* The step A of a part, which leaves the others alone.
On(p, A) ==
  /\ part = p /\ UNCHANGED part /\ A
  /\ IF p = "sign-in" THEN TRUE ELSE UNCHANGED signInVars
  /\ IF p = "quota" THEN TRUE ELSE UNCHANGED quotaVars
  /\ IF p = "post" THEN TRUE ELSE UNCHANGED postVars
  /\ IF p = "view" THEN TRUE ELSE UNCHANGED chatViewVars
  /\ IF p = "export" THEN TRUE ELSE UNCHANGED exportVars
  /\ IF p = "editor" THEN TRUE ELSE UNCHANGED editorVars

\* Settings that differ in what the server answers: sealed chats, whatever the
\* provider's settings, a mistake, and each use of the provider.
Deployed ==
  {[enc |-> "0", jev |-> j, tag |-> t, key |-> TRUE] : j \in {"0", "1"}, t \in {"0", "1"}}
  \cup {[enc |-> "0", jev |-> "1", tag |-> "0", key |-> FALSE],
        [enc |-> "0", jev |-> "x", tag |-> "0", key |-> TRUE],
        [enc |-> "1", jev |-> "x", tag |-> "0", key |-> TRUE]}

\* The settings are the operator's at first and either page may be there;
\* another part starts with any.
ClientsInit ==
  /\ part \in Parts
  /\ SignInInit /\ QuotaInit /\ PostInit /\ ViewInit /\ ExportInit /\ EditorInit
  /\ part # "post" => mode = "readable" /\ env = CHOOSE e \in Env : TRUE
  /\ part # "editor" => revision = [p \in Leaf |-> 0]

SignInSteps ==
  \/ \E f \in Flow :
       \/ On("sign-in", Login(f)) \/ On("sign-in", Callback(f)) \/ On("sign-in", Exchanged(f))
       \/ On("sign-in", SignInDenied(f)) \/ On("sign-in", Logout(f))
       \/ On("sign-in", LostUnarmed(f))
  \/ On("sign-in", Sweep) \/ On("sign-in", SignInTick) \/ On("sign-in", SignInLost)

QuotaSteps ==
  \/ \E i \in Ip, t \in Time : On("quota", Charge(i, t))
  \/ \E p \in paying : On("quota", Unpaid(p)) \/ \E victim \in Ip : On("quota", Paid(p, victim))
  \/ On("quota", QuotaRestart)

PostSteps ==
  \/ \E c \in Sender :
       \/ On("post", Launch(c)) \/ On("post", Config(c)) \/ On("post", Send(c))
       \/ On("post", Receive(c)) \/ On("post", NoAnswer(c)) \/ On("post", Arrived(c))
       \/ On("post", Screen(c)) \/ On("post", Commit(c)) \/ On("post", AfterCommit(c))
       \/ On("post", ServerFails(c))
  \/ On("post", ChatGone) \/ On("post", Redeploy)

ViewSteps ==
  \/ On("view", EditName) \/ On("view", TypeName) \/ On("view", Focus) \/ On("view", TypeTitle)
  \/ On("view", OpenPicker) \/ On("view", ClosePicker /\ UNCHANGED acts)
  \/ On("view", Pick /\ UNCHANGED acts)
  \/ On("view", ClickChip) \/ On("view", WriteText) \/ On("view", SendText) \/ On("view", PeerSays)
  \/ On("view", CommitName /\ UNCHANGED acts) \/ On("view", Escape /\ UNCHANGED acts)
  \/ On("view", Blur /\ UNCHANGED acts) \/ On("view", Apply /\ UNCHANGED acts)
  \/ On("view", Finish /\ UNCHANGED acts) \/ On("view", Gone /\ UNCHANGED acts)
  \/ \E i \in DOMAIN posts :
       \/ On("view", Accepted(i) /\ UNCHANGED acts) \/ On("view", Succeeded(i) /\ UNCHANGED acts)
       \/ On("view", PostFails(i) /\ UNCHANGED acts)

ExportSteps ==
  \/ On("export", Prepare) \/ On("export", Status) \/ On("export", Cancel)
  \/ On("export", ExportRestart)
  \/ \E n \in 1 .. MaxExports :
       \/ \E i \in Item : On("export", PrepareItem(n, i))
       \/ On("export", Ready(n)) \/ On("export", PrepareFails(n)) \/ On("export", Expire(n))
  \/ \E i \in Item : On("export", WikiEdit(i))
  \/ \E c \in Reader :
       \/ On("export", Download(c)) \/ On("export", Form(c)) \/ On("export", StreamEnd(c))
       \/ On("export", Complete(c)) \/ On("export", Disconnect(c)) \/ On("export", Closed(c))
       \/ \E i \in Item : On("export", StreamItem(c, i))

EditorSteps ==
  \/ \E p \in Leaf, r \in {0, 1} : On("editor", Open(p, r))
  \/ \E append \in BOOLEAN : On("editor", Comments(append))
  \/ \E kind \in {"edit", "restore"} : On("editor", StartEdit(kind))
  \/ On("editor", Search) \/ On("editor", CloseSearch) \/ On("editor", NewPage)
  \/ On("editor", CancelEdit) \/ On("editor", SaveDraft) \/ On("editor", DeleteShown)
  \/ On("editor", Merge)
  \/ \E c \in calls :
       \/ On("editor", OpenAnswered(c)) \/ On("editor", NavigationAnswered(c))
       \/ On("editor", CommentsAnswered(c)) \/ On("editor", SearchAnswered(c))
       \/ On("editor", EditAnswered(c)) \/ On("editor", RestoreAnswered(c))
       \/ On("editor", ConflictAnswered(c)) \/ On("editor", Taken(c))
       \/ On("editor", Created(c)) \/ On("editor", SaveRefused(c))
       \/ On("editor", RefreshAnswered(c)) \/ On("editor", Fails(c))
  \/ \E p \in Leaf : On("editor", OtherWriter(p))

ClientsNext ==
  SignInSteps \/ QuotaSteps \/ PostSteps \/ ViewSteps \/ ExportSteps \/ EditorSteps
ClientsSpec == ClientsInit /\ [][ClientsNext]_clientVars

=============================================================================
