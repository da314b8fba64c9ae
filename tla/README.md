# A verified model of the comic reader

This directory models the iOS comic reader of this repository in TLA+: what its
view controllers, its Firebase callbacks, its Realm records and its network
monitor do to the state they share. TLC checks the modules on small instances;
the TLA+ proof system proves every safety property they check, of every component, for
every instance. `src/ComicApp/ComicApp/` is the code modelled
(2239 lines of Swift and a storyboard), with the two pods that decide how its
requests end: the fetcher service of Firebase Storage and the current user of
Firebase Auth. Paths below are relative to that directory, `Pods/` to `src/ComicApp/`.

## 1. The system

The app is one process with four tabs (Shelf, Home, Review, Account), each a
navigation stack of its own. There is no architecture of objects that own their
state: nearly everything is in static variables that every controller reads and
writes, and in closures that Firebase runs later.

* **One comic on the screen.** `hidesBottomBarWhenPushed` is set on the pages of a comic
  and of a chapter and on the login form (`Views/Base.lproj/Main.storyboard:1352, 163,
  825`): while one of them is on the selected stack there is no tab bar, so taps open one
  comic at a time. Only the answer to a tapped review, which may come at any time, changes
  `Comic.id` under an open comic and opens another over it
  (`ReviewViewController.swift:58-66`), or leaves it to be opened when the reviews' tab is
  next selected.
* **Main queue.** Taps, view life cycle and *all* Firebase callbacks run on the
  main queue (`Pods/FirebaseStorage/.../FIRStorageReference.m:257-260`,
  `FIRStorageObservableTask.m:196-209`). A callback is therefore atomic, and
  between two callbacks anything else may happen.
* **One other thread in the app.** The `NWPathMonitor` handler (`Model/User.swift:71-83`)
  runs on a queue of its own and reads and writes the same statics, unguarded.
* **Three queues under Storage.** A request of Firebase Storage begins, and a download is
  cancelled, on the queue of its Storage object; the URL session's delegate has one of its own;
  tokens, retry timers and completions are the main queue's.
* **Nothing is cancelled.** No controller cancels its requests when it leaves the
  screen, nobody compares a late answer with the state it was asked for in.
* **Persistence.** Realm holds one `LUser` (the login) and the downloaded comics
  (`LComic`, `LChap`). RAM is lost when the process ends.

| Component | State | Operations | Talks to |
|---|---|---|---|
| Comic download (`Model/Comic.swift:98-204`, `InfoViewController.Download`) | `Comic.isDowloading`, `Shelf.listDownload`, one `DComic` and a countdown `tmp` per chapter captured by closures | tap; document, poster, listing and image callbacks; `ComicRealmToRam` at launch | Realm, Firestore, Storage, shelf |
| Offline library (`Model/RealmObject.swift`) | `LComic`, `LChap` | what readers of a downloaded comic find | download, reader |
| Account and login (`Model/User.swift`, Account, Login, SignUp, EditAccount controllers) | `UserLocal.UserID`, `localAccount`, `LUser`, `Utilities.isNetworkConnect`, the document and photo on the server | launch, login, logout (the login form loading), sign-up, edit with upload, document and photo callbacks, network back or lost | Auth, Firestore, Storage, Realm, the monitor's thread |
| Like list (`InfoViewController.Like`, `Shelf.DownloadList`) | `Shelf.listLike`, `comicLike` on the server, the tag of each button | like, unlike, download of the list, logout | account |
| History list (`upLoad`, `addToHistory`, `DownloadList`) | `Shelf.listHistory`, `comicHistory` | open a comic, download of the list, logout | account |
| Navigation to a chapter (Info, ShowChap, Chapter controllers) | `Comic.id`, `nchap`, `chap`, `isDownloaded` | open a comic, listing of its folders, chapter list, read, previous, next | the late answer to a tapped review changes `Comic.id` |
| Pages of a chapter (`ChapterViewController.downLoad`) | the subviews and content height of one scroll view | load, listing and page callbacks | Storage |
| Comments and reviews (`Model/Comment.swift`, Info, Review) | two lists of ids | download, send, tap a review, two tables | `Comic.id`, login |
| Shelf view (`ShelfViewController`) | selected segment, chains of delayed reloads | appear, reload, select | the three lists, `isDowloading` |
| Passwords (Login, SignUp, ChangePassword, `Utilities.isPasswordValid`, `Pods/FirebaseAuth`) | text fields, `UserID`, Auth's current user in the keychain | validate, sign in, sign up, reauthenticate and update | Auth |
| Home and search (`ReadViewController`) | `names`, `images`, the query | listing in pages, folders, posters | Storage |
| Storage requests (`Pods/GTMSessionFetcher`, `Pods/FirebaseStorage`) | running and delayed fetchers per host, retry timers | begin, finish, retry, progress, cancel, tell the observers | everything that loads a file |
| Pure helpers | none | `fixTypeSize`, `setHeightFixKey`, folder names | |

What is hard in this code: answers that arrive after the state they were asked
for is gone (logout, another comic, another chapter); globals that change under an
open view; places that several queues take and give back; completion decided by counting answers that arrive in any order, some
failing; a kill between two Realm writes; the monitor's thread; and what never
ends (polling, refetching, retrying). `PROJECT.json` lists each of them at its line
under `hazards`, with the properties that speak of it.

## 2. The modules

| Module | Models | Composed with |
|---|---|---|
| `OfflineLibrary` | abstract: the chapters a reader of a downloaded comic finds are only ever added to | implemented by `ComicDownload` |
| `ComicDownload` | the download, restarts, Realm | instantiates `OfflineLibrary` |
| `ShelfView` | the table of the shelf and its chains of reloads | extends `ComicDownload`, whose actions it takes over |
| `AccountSession` | who is logged in, in RAM, Realm and on the server; the monitor's thread | |
| `Authentication` | the forms with a password, Firebase Auth's current user and its queue | |
| `LikeList`, `HistoryList` | the two per-user lists of the shelf | |
| `Comments` | the comments of a comic and of the world, on the server, in RAM and in the table of reviews | |
| `Reader` | the globals between a comic and its chapters | |
| `ChapterPages` | one scroll view filled by callbacks | |
| `FetcherService` | the requests of Firebase Storage to one host | implemented by `HomeScreen` |
| `HomeScreen` | screens of posters, with or without a query | extends `FetcherService`, whose requests it makes |
| `ComicDownloadProofs` | theorems about the download and what comes of it: the library, completeness, the shelf | extends `ShelfView` |
| `FetcherServiceProofs` | theorems about the storage requests and the home screen | extends `HomeScreen` |
| `ReadingProofs` | theorems about a chapter that is opened and its pages | extends `Reader` and `ChapterPages` |
| `AccountSessionProofs`, `AuthenticationProofs`, `LikeListProofs`, `HistoryListProofs`, `CommentsProofs` | theorems | extend the module they name |
| `MC*` | constants of the instances TLC checks | extend the module they name |

Conventions. Variables have the names of the Swift statics they stand for. One
action is one handler or one callback, with every change it makes. An answer
that is due is an element of `net` (or a count, where equal requests are
interchangeable, or a slot); failure of any request is an action. Contents that
no property tells apart are dropped: names, texts, images, colours. Images are
identified by comic, chapter and number and have size 1; account data is
reduced to whose data it is. Operators called `Mutant...` change one definition
the way a plausible mistake would; they are used by no specification and exist
to show that the properties notice.

### ComicDownload

`Download` is the tap (`InfoViewController.swift:121`); `DocumentArrives`,
`PosterArrives`, `ListArrives` and `ImageArrives` are the four nested callbacks
(`Comic.swift:107, 120, 139, 147`); `StoreChapter` is the part of the innermost
one that runs when `tmp` has come to 0. `RequestFails` is the early return of each. `Restart`
is a kill with `ComicRealmToRam` at the next launch. A listing may be
`Truncated`: `listAll` calls its completion a second time, with the pages it got,
after a page failed (`FIRStorageReference.m:376-424`). Sessions are calls of
`DownloadCommic`; two of them may fill one `LComic`: a comic opened twice, over
itself, shows two buttons. `ReviewArrives` is the only step that changes `Comic.id`
under a button.

### AccountSession

`OpenLogin` is the loading of the login form, which *is* the logout. Requests
carry two marks that the code does not have: `view` (the controller that sent
them is still on screen, which decides whether `popToRootViewController` does
anything) and, for properties only, `stale` (a logout has happened since).
`userFirebaseToRam` and `AccountViewController.downAccount` are nearly the same
code; `PlainDocument`, `DocumentWithAvatar` and `PhotoArrives` stand for both, and
`view` says which one it is. The monitor's handler is cut into steps where it
touches shared state (`NetworkBack`, `FetchByMonitor`; `NetworkLost`,
`CopyUserID`, `CopyAccount`, `CopyAvatar`, `GoOffline`, `StopWaiting`). `document(UserID!)` ends the process
when `UserID` is nil (`unwrap`) or empty (`path`).

### Authentication

The server's answers are treated on Auth's work queue (`SignsIn`, `Updates`, `Fails`),
where the current user and, on the server, the password change; the callback is then in
`ready`, and the main queue runs it later (`LoggedIn`, `LoginFails`, `Reauthenticated`,
`ReauthFails`, `Updated`, `UpdateFails`). `Send` reauthenticates the owner of
`localAccount.email`; its callback updates the password of whoever is the current user then,
to what the field holds then (`ChangePasswordViewController.swift:60`). A form that was left lives on in
the closures of its requests. Passwords are records of what `isPasswordValid` looks at.

### FetcherService, HomeScreen

One host, `Limit` places. `jobs` is what the serial queues are in the midst of; a block
begins on a queue only when it is `Idle`. A fetcher `Begin`s, and is `Cancel`led, on the queue
of its Storage object; its server's answer (`Finish`, `AttemptFails`) and its retry (`RetryStop`,
`RetryBegin`) are on the delegate queue; its token, the retry block (`RetryLater`,
`RetryAfter`, `GiveUp`), the timer and the completion (`Complete`, `Fire`, `Unobserve`) on the
main queue.

`ShouldBegin` and `HandOn` are the two critical sections of `GTMSessionFetcherService`.
`SaveHost` comes after the first, outside its lock; `fetcherDidStop` is `ReadHost` before the
second, `HandOn`, and `ClearHost` after it, and another queue may come between any two of
them. What the thread does then (begin the fetcher again, tell the observers) is `AfterStop`.
A retry doubles its wait (`NextInterval`) and is not made once that would reach
`MaxInterval`; after an answer with a Retry-After header it is made in any case (`RetryAfter`).

Each progress report of a download that is too large (`Report`) is one cancellation more.
`said` is what has been dispatched to the owner, `heard` how much of it the owner has got;
`answer` is where the completion block is, until it has told the observers (`fired`) and
removed them (`over`). `HomeScreen` makes the requests: pages of `listAll`, one folder per comic the query
matches, one poster each. `PageFails` has both completions of `listAll`. Search screens
are further `Views`.

### Comments, ShelfView

`Comments` has the server's three documents (the comment, the comic's array, the world's
array), the two lists in RAM, the rows the table of reviews has loaded, and the stack of
comics of each tab. The callback of `addDocument` (`CommentAdded`) attaches the comment to
`Comic.id` as it is then. Taps on reviews, the views they open and new comments carry
what they were meant for (`meant`, `sure`), for properties only. `ShelfView` counts the closures of `asyncAfter` that have not run
(`timers`) and keeps the rows as the table last loaded them.

### LikeList, HistoryList

`DownloadList` is the request sent by `Launch` and `Login`; its answer is
`ListArrives`, which asks for one row per comic. The two answers that make a row
(document, poster) are one request, since nothing is done between them. A
Firestore write is visible to the device's own reads at once, as the SDK's
latency compensation gives it.

### Reader, ChapterPages

`Reader.Load` is `ChapterViewController.viewDidLoad` and `Init`, run for the first time by
`ReadChap` and `TapRow` and again by `PrevChap` and `NextChap`. `ListingArrives` is the
closure of `upLoad` that sets `nchap`, however long its comic has been left; a
listing of folders fits one page (1000 entries) here. Three marks of a view are history, for the
properties: `alone` (no other comic has used the globals since it was opened), `listed` (its
own folders have been listed since) and `stale` (`nchap` was changed under its list or reader). `ChapterPages` is what
happens inside one reader: each load has its own height counter, all share the
view. The pages of a downloaded chapter are laid at once by
`loadChapterFromRealm`; only which chapter that is, and that the index may be out
of bounds, is modelled (in `Reader`). The operations both modules have are `Load`,
`PrevChap` and `NextChap` in `Reader`, and `LoadPages`, `PrevPages` and `NextPages` in
`ChapterPages`.


## 3. What TLC checks

| Run | Instance | States | Shows |
|---|---|---|---|
| `download_safe` | 2 comics (chapters of 2 and 1 images; 1 and 1), 2 views, 2 sessions, pages of one entry | 226,531 | counter, shelf, whole chapters, completeness of a finished download, no silent stall, refinement of `OfflineLibrary`; no answer of one comic changes the other, and a truncated listing leaves a chapter short, never mixed |
| `account_safe` | 2 users (one registered, with an avatar), 2 requests at once | 3,083,495 | memory, Realm and server agree with the login |
| `account_live` | 1 user, with fairness | 586,781 | the requests end |
| `likes` | 2 users, 2 comics, 2 views, 2 rows | 1,180,000 | every like gets listed, no other does, no likes of another user |
| `history` | 2 comics, 2 rows, equal requests in flight | 1,140,000 | the history gets listed, a visit adds no second row |
| `reader` | 2 views; a downloaded comic of 2 chapters, another of 3 | 3,716,032 | the right chapter, the right neighbours by the count that `nchap` has, no index out of bounds |
| `pages_calm` | 3 chapters of 2, 1 and 3 pages, heights 1 and 2, 3 loads | 63,574 | what is seen is the chapter of the title, whole |
| `home` | 1 screen whose query finds 2 of 3 comics on 2 pages, one place, one poster too large and put off with Retry-After, attempts at both posters may fail, waits of 1 and 2, with fairness | 243,927 | places are kept to, never idle, and lost in two ways only; who is told twice; every request not put off is answered; the screen shows what it should |
| `comments` | 2 comics, 1 comment and 2 new ones, 2 requests at once, restarts | 648,155 | lists, arrays and documents agree; a tapped review opens its comic |
| `shelf` | 2 comics of 1 chapter (2 images; 1), 2 sessions, 2 chains of reloads, with fairness | 303,059 | the table follows the download, the reloads end, a download settles |
| `passwords` | 2 users, 2 passwords, 1 form, 2 requests at once, with fairness | 612,070 | what a form says is what happened; Auth's user is the app's |
| `download_order` | 1 comic of 3 chapters | until found | the finding below |

Most properties are conditional, and the condition is what the model is about:

* `RecordIsOwn`, `AccountIsOwn`, `NoTrap` and `LoginSurvives` hold *until* an answer is
  used after the session that asked for it has ended (`overtaken`). They fail without
  that condition, see "Known defects". `account_safe` and `account_live` stop a process
  there (`Beyond = FALSE`); so does `passwords` when sign-ins overlap.
* `ReaderRight` and `NoTrap` of `Reader` speak of views that alone used the
  globals since their comic was opened (`alone`) and under whose list or reader no listing
  has changed `nchap` (not `stale`), and of comics that have a chapter and that Realm, if it has them, has
  all of (`Agrees`). Of a comic without a chapter the reader is titled "Chap 1" all the
  same, and if it is downloaded `listChap[0]` ends the process
  (`InfoViewController.swift:29-31`, `ChapterViewController.swift:108`; only the chapter
  list looks for this case, `ShowChapViewController.swift:18-20`): the proof of
  `ReaderRight` showed that the condition is needed. Such a reader shows the chapter of its
  title and of the tap, and its previous button is right. Its next button goes by `nchap`
  (`ChapterViewController.swift:132`), and `ReaderRight` says that it is the comic's own
  neighbour only if the comic is in Realm or has been `listed` since it was opened: a comic that is
  not downloaded, read before its listing arrives or after it failed, has the number of chapters of
  the comic before. A listing
  that arrives under the chapter list makes a row open another chapter than its label
  says (`ShowChapViewController.swift:56, 64`). `NoTrap` also excepts the unwrapping of
  `nchap` by the first tap on a comic's page, before any listing has arrived.
* `SeenIsTitled` and `ChapterWhole` speak of a chapter that was opened when the one
  before had settled (`calm`). They hold for every order of arrival, so they do *not* say
  that pages are in the order of their names: they are not, the code lays them as they
  come.
* `LikesListed` and `HistoryListed` need that no request of the session failed:
  nothing is retried. `LikesListed` is one-sided: a like taken back before its poster
  has come keeps a row, since the tap finds nothing to remove yet. `LikesExact` is the
  other side, for sessions in which nobody acts while a request is in flight.
* `DownloadSettles` needs that no request failed, no folder is empty and no other
  session fills the same record (which may also leave a part of the size as the size of
  the whole, `Comic.swift:164`): each of these leaves the counter raised. `PollingEnds`
  has the same exceptions: the shelf then reloads four times a second for the life of
  the process.
* `ShelfKeepsUp` is about the Download segment when the shelf was entered while that
  segment was selected: choosing the segment later starts no chain of reloads.
* `FetchesDrain` excludes a logged-in user without an avatar: for such a user
  `setAccount` and `downAccount` request the document in an endless loop as long as
  `isDownAvatar` is set.
* `SlotLimit` counts a fetch that was cancelled only if the service's list has it: a
  cancellation beside a retry can take the fetcher off that list when it has begun again.
* `SlotsReturned` says in which two ways a place is lost: the fetcher ends before the thread
  that began it has saved its host, or after the late end of a cancellation's
  `fetcherDidStop` has cleared the host that a retry had saved again.
* `OneAnswer` excepts the owner of a download that was cancelled, who may hear of every
  cancellation and of the completion beside them; of success once at most even then. `ScreenComplete`
  allows the poster of such a download on the screen though it failed as well.
* `RequestsAnswered` excepts requests that the server puts off with Retry-After (`PutOff`),
  which may be tried again for ever, and processes in which a place was lost (`LostSlots`) or is
  held by a fetcher without a host (`Hostless`), whose retries never give it up. Requests
  behind one that is put off are answered: each retry gives its place away.
* `AuthIsOwn`, `ChangedAsAsked`, `SuccessIsTrue` and `SendIsAnswered` all except sign-ins of
  two people that overlapped (`overlap`). `ChangedAsAsked` also excepts a field that was
  edited while the answer was due (`sure`), `SendIsAnswered` a form that was left and an
  Auth without a user.
* `SuccessIsTrue` says what a form asked for only if that is certain (`asked`): not after a
  second `Send` with another password before the first is answered, nor after a `Send`
  while a form that was left before still waits. The form left behind updates the password of the same user, perhaps after the
  new form said "Successful!" (`ChangePasswordViewController.swift:60`). The run has one
  form in memory; the invariant was checked with two as well (4,552,728 states), and the
  theorem is about any number.
* `AttachedToItsComic` and `RowOpensItsComic` of `Comments` carry in each request whether
  `Comic.id`, or the list, has changed since it was sent; `ListFollowsComic` needs
  that nobody acted while a request was in flight. `CommentsListed` excepts comments
  that were being sent when the process ended, and needs no such calm.

Only `download_safe` spends a run on `TypeOK`. That of the other modules, `HomeTypeOK`,
`ShelfTypeOK` and `PagesTypeOK` are proved (section 4); a line in a `.cfg` checks them again.

### Findings and known defects

`download_order` is a violation: the reader titles `listChap[i]` "Chap i+1"
(`ChapterViewController.swift:140-142`), but chapters are stored in the order in which their last image
arrives (`Comic.swift:155-160`).

The conditions above stand for defects of the code, which the models have in full:

* A document that arrives after the logout ("delete old account",
  `LoginViewController.swift:31`) writes an `LUser` with the uid "" back
  (`User.swift:186`); every later launch aborts on `document("")`
  (`Pods/FirebaseFirestore/.../document_reference.cc:62`).
* The next button leads past the stored chapters of a downloaded comic that has grown on
  the server (`ChapterViewController.swift:108, 132`; Realm's `RLMManagedArray.mm:134`
  throws "Index is out of bounds").
* A late page of the chapter before is laid over the chapter of the title
  (`ChapterViewController.swift:91`, title at `:140`).
* The next button of a comic that is not downloaded goes by the count of the comic before
  until its own folders are listed (`ChapterViewController.swift:132`).
* A fetcher that was put off and is started, and stopped, by other threads before it has
  saved its host keeps its place for ever
  (`GTMSessionFetcherService.m:363-369`). So does one that is cancelled while it is retried: the
  cancellation clears its host after it has begun again (`:518-525`), or takes it off the
  running list while it runs (`:455, 476`).
* The owner of a download that is too large can be told several times: each progress report
  cancels it once more, and a cancellation does not remove the observers
  (`FIRStorageReference.m:275-288`, `FIRStorageDownloadTask.m:155-163`). It can also be told
  of success and of failure, when a cancellation comes between the completion's fire and its
  removal of the observers (`FIRStorageDownloadTask.m:135-136`).
* A server that keeps answering 503 with Retry-After is asked for ever
  (`GTMSessionFetcher.m:3136-3156`).
* `isPasswordValid` refuses special characters that the message of the forms asks for
  (`Utilities.swift:64`).

### Bounds

* Two actors of each kind (views, sessions, users, comics) are what the code's
  hazards need: all of them are between an answer and one other actor. No action
  counts actors except through `isDowloading` and the places of a host, which the
  proofs treat in general.
* Chapters of 1 to 3 images and comics of 1 to 3 chapters contain the cases the code
  distinguishes: the first and the last image, the last chapter, one that overtakes
  another, an empty folder.
* `PageSize`: 1 (any listing of two images may be cut short) where safety is checked, 2
  and 3 (none is) for liveness and in `download_order`.
* `Slots` (2): requests in flight in `AccountSession`, `Comments` and `Authentication`.
  An action that would exceed it waits; the races are between one answer and one other
  step.
* `Limit` (1; the code has 10) with the pages, folders and posters of one screen, so that most of
  them are put off; `MinInterval` and `MaxInterval` (1 and 2) give one retry by the doubling wait
  and any number by Retry-After, with waits of 0 to 2. `MaxReports` (1): progress reports of one
  download that are under way at a time, one more at its completion; their number over time
  is not bounded.
* `MaxRows` (2), `MaxCopies`, `MaxLists` (2), `MaxLoads` (3), `MaxTimers` (2), `MaxViews`
  (1 or 2), `Depth` (1): lengths of lists, equal requests in flight, views and chains of
  reloads; with 2 comics they allow a duplicate row and a stale copy beside a fresh one.
* Symmetry: request slots and new ids of `Comments`, slots of `AccountSession`, sessions of
  `download_safe`, comics and users of `LikeList`, comics of `HistoryList`; nothing in those modules tells the members apart,
  and no run with a liveness property uses it.

### Fairness

* `ComicDownload`, `AccountSession`: the Firebase SDK runs the callback of each request,
  with a result or an error (weak fairness of the answers of each session or slot;
  *which* answer is not assumed), and the monitor's handler, once called, runs to its
  end.
* `ShelfView` (`FairShelfSpec`): the same, and a closure given to `asyncAfter` runs.
* `HomeScreen` (`FairSpec`): a queue that is in the midst of a block goes on
  (weak fairness of each thread's `Continues`), something happens to each request for
  which something can (weak fairness of its `Proceeds`: the token comes or fails, an attempt ends,
  by the session's timeout if not before, the timer fires, the blocks on its queues run), and each
  screen's callbacks run. Which of an attempt's ends it is, and how often it is tried again,
  is not assumed.
* `Authentication` (`FairSpec`): each request gets some answer, and the main queue runs
  the callbacks it holds.

Nothing is assumed of the user, of what the network answers or of a relaunch: liveness is therefore about
behaviours in which those are silent from some time on. Deadlock is checked everywhere
but in `ChapterPages`, where a view that may not load again (`MaxLoads`) and has no
request left is at rest, and in `HomeScreen`, where a screen that is filled is.

## 4. What is proved

### ComicDownloadProofs

For any set of comics, any number of views, any finite set of sessions, any numbers of
chapters and images and any page size:

| Theorem | Property |
|---|---|
| `TypeCorrect` | `[]TypeOK` |
| `ShelfMirrors` | `[]ShelfMirrorsRealm`: shelf rows and Realm records agree, restarts included |
| `CounterCorrect` | `[]CounterExact`: `isDowloading` counts the sessions not finished |
| `ChaptersStoredWhole` | `[]StoredChaptersWhole`: a stored chapter has distinct images of one chapter of its own comic, all of them unless the listing was truncated |

The only assumption is `ConstantsAssumption` of `ComicDownload`, which TLC evaluates on
each run. `TypeOK` is not inductive: `ImageArrives` may append to `listChap` of
`First(comic)` only if there is such a record, and counts `tmp` down only if the
image is one the listing named. So the invariant is

    Inv == TypeOK /\ ViewsSetId /\ StageOK

where `StageOK` says of each request in flight that its session has reached the
stage that sends it (its comic is in Realm, its chapter exists, its image was
listed and has not arrived). Beside it, `CountdownOK` says that `tmp` is the
number of listed images not in `list` yet: that makes `tmp = 0` mean that *all*
have arrived, whatever their order, hence `StoredChaptersWhole`. `CounterExact` is
proved from cardinalities of the set of running sessions, with the further fact
that only a running session receives the answer that finishes it: a finished one's
record has all its chapters (`FinishedMeansFull`) and the count of chapters never
decreases, so it cannot equal `totalChap` twice.

What comes of a download, with any number of chains of reloads and of views of the shelf:

| Theorem | Property |
|---|---|
| `LibraryImplemented` | `LibraryRefined`: every step of the download is a step of `OfflineLibrary`, or a stutter |
| `FinishedComplete` | `[]FinishedIsComplete`: an undisturbed session that finished has stored each chapter once and whole |
| `NothingStalls` | `[]NoSilentStall`: an undisturbed session that runs still waits for an answer |
| `ShelfImplementsDownload` | `ShelfSpec => Spec`: the shelf only watches the download, so all of the above holds of it |
| `ShelfTypeCorrect` | `[]ShelfTypeOK` |
| `ShelfStaysFresh` | `[]ShelfKeepsUp`: a table that lags behind the download has a chain of reloads to come, or the shelf was entered in a way that starts none |
| `RowsOpenTheirComics` | `[]RowOpensItsComic`: rows are only added at the end, so the row of a loaded table still names its comic |

The refinement follows from what a step can do to Realm: nothing, a record without
chapters at the end, or a chapter at the end of the first record of a comic. Each of them
leaves what a reader finds of every comic alone or adds one chapter to it. Completeness
and the absence of stalls rest on one further invariant, `RowsOK /\ ProgressOK`: each
chapter of an undisturbed session is stored, or is being filled by requests that are in
flight (`Working`, `BeforePoster`, `Filling`, `Stores`), or is lost by a failure. A session
that has all its chapters has therefore nothing in flight, and one that has not has.

`ShelfStaysFresh` needs the counter: a chain ends when `isDowloading` is 0, and
that nothing more can be added to the list then follows from `CounterCorrect`. Its
invariant adds `EarlyRuns` (a session that has not reached the shelf is still running)
and `Chained`.

### FetcherServiceProofs

For any finite set of fetchers and any limit, and for any number of screens, queries,
pages and posters:

| Theorem | Property |
|---|---|
| `ServiceTypeCorrect`, `HomeTypeCorrect` | the types |
| `SlotLimitHolds` | `[]SlotLimit`: never more fetchers are listed than the limit, and only a cancelled one runs off the list |
| `NoSlotIdles` | `[]NoIdleSlot`: a fetcher waits only while all places are taken |
| `SlotsAreReturned` | `SlotsReturned`: a place is lost only by who ends without a host, and there are two ways to be without |
| `OneAnswerOnly` | `[]OneAnswer`: only who owns a cancelled download is told more than one end, and success never twice |
| `HomeImplementsService` | the home screen's behaviours are the service's, so these hold of it |
| `PostersAreRight` | `[]PostersRight`: each poster once, under its own title, matching the query |
| `ScreensAreComplete` | `[]ScreenComplete`: a screen at rest shows all it found in the pages listed, but for what failed (a cancelled poster may be shown as well) |

The invariants are

    ServiceInv == TypeOK /\ PlacesRight /\ JobsRight /\ AnswersRight /\ CancelledRight
    HomeInv    == ServiceInv /\ HomeLists /\ Wanted /\ Shown

`PlacesRight` is `NoIdleSlot` with the limit on the running list, that each fetcher which waits
is queued once and does not run (`Placed`), and that a fetch under way which nobody has cancelled is in
the running list (`HoldsPlace`). `JobsRight` says of each thread that it is in the midst of one
block at most, and of each step of a block what its fetcher can be doing meanwhile: this is what
two threads in `fetcherDidStop` of one fetcher leave certain. `AnswersRight` says that no end
is due while an uncancelled fetch is on its way and that none has been told while one is due,
`CancelledRight` that only downloads that are too large and have begun are cancelled.
`HomeLists`, `Wanted` and `Shown` tie the lists of a screen and its requests to the listings they
come from.

`SlotsReturned` is about steps: its proof goes through all of them and asks which can lose a
place (`LostKnown`) and which can leave a listed fetcher without a host (`HostlessKnown`).

`ScreensAreComplete` has an invariant of its own, `ListInv`: pages are asked for one after
the other and up to the one that is on its way or failed (`PagesInTurn`, `PagesRead`,
`Frontier`); what a listing named is listed and its folders asked for (`FoldersAsked`,
`FoldersListed`); and each folder that was read has asked for its poster, each poster
that came is shown (`PostersAsked`, `PostersShown`), with `failed` the requests whose owner
was told of a failure (`FailedTold`).

### AccountSessionProofs

For any set of users, registered or not, with or without avatars, and any number of
requests in flight:

| Theorem | Property |
|---|---|
| `AccountTypeCorrect` | the types |
| `RecordOwned` | `[]RecordIsOwn`: Realm's record is the logged-in user's |
| `AccountOwned` | `[]AccountIsOwn`: so is the account in memory |
| `NothingTraps` | `[]NoTrap`: no callback unwraps a nil uid |
| `LoginKept` | `[]LoginSurvives`: a login whose data has arrived is in Realm |

All but the types hold until an answer is used after its session had ended
(`overtaken`), and the invariant, `Typed /\ SessionOwn`, says why: until then every
request that is not stale and every value the monitor's handler has read are the
logged-in user's (`RequestsOwn`, `MonitorOwn`), edits are of an account whose owner is
known (`EditKnown`), and what is known is saved or about to be (`KnownSaved`). None of the
four is inductive without the others: the handler on its own thread writes what it read
several steps before.

### LikeListProofs, HistoryListProofs

For any users, comics, views, rows and equal requests in flight:

| Theorem | Property |
|---|---|
| `LikeTypeCorrect`, `HistoryTypeCorrect` | the types |
| `OwnLikes` | `[]OwnLikesOnly`: only the user's own likes are shown |
| `LikesShown` | `[]LikesListed`: at rest every like is on the shelf |
| `LikesCounted` | `[]LikesExact`: for who waits, each like once and nothing else |
| `HistoryShown` | `[]HistoryListed`: at rest the user's history is on the shelf |
| `VisitedOnce` | `[]VisitsOnce`: visits add no second row |

A list at rest is complete because before that, whatever the server has and the shelf has
not is on its way: the invariant `Listed` of either module gives for each such comic a
request of this session that will bring it, the download of the array or the row itself.
`LikesExact` needs the exact count (`Exact`): while the user waits, each liked comic is
shown or awaited, once and not both.

### ReadingProofs

For any comics, any numbers of chapters on the server and in Realm, and any depth of the
stack; for any chapters of any number of pages of any height, and any number of loads:

| Theorem | Property |
|---|---|
| `ReaderTypeCorrect` | the types, and that `nchap` is set under every list and reader |
| `ReaderIsRight` | `[]ReaderRight`: the chapter asked for, with its neighbours by `nchap`, which is the comic's own count if it is in Realm or was listed |
| `NothingTraps` | `[]NoTrap` |
| `PagesTypeCorrect` | the types |
| `SeenAsTitled` | `[]SeenIsTitled`: the pages of the title's chapter are seen, whole |
| `ChapterIsWhole` | `[]ChapterWhole`: all of them, once nothing is awaited |

The invariant of `Reader` adds to the types that only the view on top can be undisturbed,
that then the four globals are its own (`Own`: `nchap` is one of the counts of Realm and the
server if the comic is in Realm, and the server's once the comic is `listed`; and while the view is
not `stale`, it is the number of rows of its list and its reader shows chapter `chap`, `Fits`),
and that `chap` is set under a reader (`ChapSet`).

The invariant of `ChapterPages` (`PagesInv`) follows the pages of the last load: those it
laid, those requested and those lost are the chapter's (`Whole`); those it laid follow one
another without a gap from 0 to its height (`Tiled`); and, if it began in a settled view,
they are on top of all others (`OnTop`). At each height exactly one of them is therefore
seen.

### CommentsProofs

For any comics, tabs, comments at the start, new comments and requests in flight:

| Theorem | Property |
|---|---|
| `CommentsTypeCorrect` | the types |
| `ListsFollow` | `[]ListFollowsComic`: the list of comments is that of the comic on the screen |
| `CommentsAreListed` | `[]CommentsListed`: a comment that was sent is in the world's array and in one comic's, each once |
| `RowsOpenTheirComics` | `[]RowOpensItsComic`: a tapped review opens the comic under its row |
| `CommentsAttached` | `AttachedToItsComic`: a comment joins the array of the comic it was written under |

Three questions share the invariant. What is listed is all that is on the server but the
comments being sent and those a relaunch cut short (`Listing`), and a comment being sent is
a document exactly when it is answered, under an id no other request has (`Sending`): hence
each is listed once. What the lists and the table's rows name are documents (`Known`,
`WorldKnown`), a tapped row's answer is about the comic under the row while the list has not
grown (`Tapped`), and a view that is not loaded yet will show the comic of `Comic.id`
(`Opened`). Who acts only when all is answered has one request in flight, for the comic of
`Comic.id`, and without it the list is that comic's array (`Following`).

### AuthenticationProofs

For any users, passwords, number of change forms, also of forms left behind, and requests in
flight:

| Theorem | Property |
|---|---|
| `AuthenticationTypeCorrect` | the types, and that each request has what its callback reads |
| `AuthActsForItsUser` | `[]AuthIsOwn`: while a user is logged in, Auth acts for that user or for nobody |
| `SuccessesAreTrue` | `[]SuccessIsTrue`: a form that says "Successful!" is right |
| `PasswordsChangedAsAsked` | `ChangedAsAsked`: a password becomes what its user asked for |

As long as no two people overlapped, all requests in flight are one user's, who is the one
logged in if anybody is (`OneUser`). So what Auth's queue sets, some steps before the callback
runs, cannot be another's user (`OwnAuth`), and whom an update changes is who asked for it
(`Asks`). `SuccessIsTrue` needs to follow every request of the form through two callbacks
(`Success`), and one more fact (`Tells`): when a reauthentication that succeeded finds Auth
without a user, and so ends in silence, an update that failed is behind it in the main
queue, and takes "Successful!" off the form. Two forms showed TLC that `SuccessIsTrue` was
not inductive, nor true, before `asked` took the forms left behind into account.

### Assumptions

The theorems assume of the constants what `ConstantsAssumption` of each module says, which
TLC evaluates on each run: finite counts are natural numbers, lengths positive, `Nil` is
none of the things it is told from, the change forms are none of the other screens, and the
arrays a process finds on the server list the documents it finds, each once.
`AccountSession`, `Authentication`, `Comments` and `Reader` have a
`NilAssumption` besides, that the absence of a request, an answer, a record or a crash is not
one of them: Swift's optionals tell `nil` from every value. That of `ChapterPages` is
`PagesAssumption`.

### Only model-checked

Every safety property of every passing run is proved, state invariants and action properties
alike. What is left to TLC is

* all liveness (`FetchesDrain`, `RequestsAnswered`, `PollingEnds`, `DownloadSettles`,
  `SendIsAnswered`): temporal properties under fairness, and `ENABLED`, are beyond the prover's
  backends;
* the finding of `download_order`, which is a behaviour and not a theorem.

Each inductive invariant was checked by TLC on the instance of its run before it was proved.

## 5. What is not modelled

* Of the storage requests: the check of the elapsed time against three times
  `maxInterval`, which without Retry-After ends the retries earlier (an attempt that is not
  tried again is modelled), session objects, uploads and resumption, the order in which one Storage object's
  queue serves its fetchers, and the timer that a fetcher sets on the main queue though it was cancelled
  meanwhile. The fetchers that `fetcherDidStop` starts are started in the step that holds
  the lock. Files above 7 MB are failed requests except in `home`.
* A comment's write whose answer is lost though the document was created, other than by the end of the
  process: Firestore sends a write again until it is acknowledged, and an error means it was refused.
  A tapped review whose row is beyond the list, if a download of the list has shortened it
  since the table was loaded, where the code would trap (`Comments.TapReview`).
* The account's fields other than the avatar are copied as one (`owner`).
* Of Firebase Auth: tokens, the task queue of each user, errors of the keychain
  (each is a failed request). `Send` before the account's document has arrived uses
  "guest@gmail.com"; that is modelled, and fails.
* A second sign-in, as another user, that answers late is in `Authentication` and
  `AccountSession` only: in `LikeList` and `HistoryList` a form signs in one user.
* The documents' contents: a Users, Comic or Comment document without its arrays, or a
  comic without poster path, which the code unwraps by force (`Comic.swift:35`,
  `Comment.swift:28`). The models take the server's documents to have the fields the app
  itself writes. What a cell of a table shows, and the table of one comic's comments, are
  left out.
* The data race proper of the monitor's thread on a Swift `String?` (a torn read); the
  interleavings of whole reads and writes are modelled.
* The synchronous branch of `ChapterViewController` that lays out a stored chapter: which
  chapter it reads, and whether the index is in bounds, is in `Reader`.
* Pure helpers (`fixTypeSize`, `setHeightFixKey`, colours, fonts), `AppDelegate`,
  `SceneDelegate`, layout and keyboard handling: no state of interest.
* The other pods (gRPC, BoringSSL, Firestore, Realm, leveldb and the rest) are third-party
  code, modelled by what the app sees of them. They are nearly all of the repository's
  650,000 lines of C, C++ and Objective-C, so the modelled share of *those* lines stays
  very small.

## 6. Plan

1. Uploads of `EditAccountViewController` over `FetcherService`, as the home screen's
   downloads are.
2. The order of one Storage object's queue, with two screens at once.
3. A second user signing in late over `LikeList` and `HistoryList`, as in `AccountSession`.
