----------------------------- MODULE PuzzleReview -----------------------------
(***************************************************************************)
(* Reviews of puzzles and their moderation.  A request reads a review,     *)
(* changes its copy and saves it; authors, readers, moderators and the     *)
(* automatic moderation do so side by side, over the same rows and without *)
(* a lock.  A save reads the row again, and then writes the columns in     *)
(* which the copy differs.                                                 *)
(*                                                                         *)
(* Texts are abstracted to versions: every submission or edit is a new     *)
(* version, numbered as it is written.                                     *)
(***************************************************************************)
EXTENDS Naturals, FiniteSets, Functions

CONSTANTS
    Reviews,        \* ids of the reviews ever created
    Requests,       \* requests that are served at the same time
    MaxVersions,    \* bound on the texts ever written
    FlagThreshold,  \* reports that flag an approved review (3)
    AutoFlagCount,  \* reports the automatic moderation looks for (5)
    Ratings         \* the ratings given

Texts   == 1 .. MaxVersions
Actions == {"approve", "reject", "delete", "flag", "unflag", "edit"}

ASSUME ReviewAssumption ==
    /\ Reviews # {} /\ MaxVersions \in Nat /\ Ratings \subseteq 1 .. 5
    /\ FlagThreshold \in Nat /\ AutoFlagCount \in Nat /\ FlagThreshold <= AutoFlagCount

VARIABLES
    reviews,        \* the table; status "none" while the id is not used
    request,        \* what each request does: the copy it has read or, at its
                    \* write, the columns it has changed
    texts,          \* number of texts written so far
    approvals,      \* history: <<review, text>> that somebody approved
    torn            \* history: reviews written while another save stood
                    \* between its comparison and its write

reviewVars == <<reviews, request, texts, approvals, torn>>

Status == {"none", "pending", "approved", "rejected", "flagged", "deleted"}
ReviewRow == [status : Status, text : 0 .. MaxVersions, rating : 1 .. 5,
              reasons : BOOLEAN, reports : 0 .. AutoFlagCount]

NoReview == [status |-> "none", text |-> 0, rating |-> 1, reasons |-> FALSE, reports |-> 0]
Idle == [step |-> "idle", review |-> CHOOSE r \in Reviews : TRUE, copy |-> NoReview,
         changes |-> << >>]

ReviewInit ==
    /\ reviews = [r \in Reviews |-> NoReview]
    /\ request = [t \in Requests |-> Idle]
    /\ texts = 0 /\ approvals = {} /\ torn = {}

-----------------------------------------------------------------------------
(* Authors and readers. *)

Approve(r, row) == approvals' = approvals \cup {<<r, row.text>>}

(* createReview.  A text without flagged words and a rating of at least 2  *)
(* is published at once.                                                   *)
CreateReview(r, rating, flagged) ==
    LET row == [status |-> IF ~flagged /\ rating >= 2 THEN "approved" ELSE "pending",
                text |-> texts + 1, rating |-> rating, reasons |-> flagged, reports |-> 0]
    IN  /\ reviews[r].status = "none"
        /\ texts < MaxVersions
        /\ texts' = texts + 1
        /\ reviews' = [reviews EXCEPT ![r] = row]
        /\ IF row.status = "approved" THEN Approve(r, row) ELSE UNCHANGED approvals
        /\ UNCHANGED <<request, torn>>

(* Every request but a creation begins by reading the row.  What it is for *)
(* makes no difference before it saves its copy.                           *)
ReadReview(t, r) ==
    /\ request[t].step = "idle"
    /\ reviews[r].status # "none"
    /\ request' = [request EXCEPT ![t] = [Idle EXCEPT !.step = "read", !.review = r,
                                                      !.copy = reviews[r]]]
    /\ UNCHANGED <<reviews, texts, approvals, torn>>

(* save: the first half compares the changed copy with the row ... *)
SaveReview(t, row) ==
    LET dirty == {c \in DOMAIN row : row[c] # reviews[request[t].review][c]} IN
    /\ request[t].step = "read"
    /\ request' = [request EXCEPT ![t].step = "write", ![t].copy = NoReview,
                                ![t].changes = Restrict(row, dirty)]
    /\ UNCHANGED <<reviews, torn>>

Merged(changes, row) == [c \in DOMAIN row |-> IF c \in DOMAIN changes THEN changes[c] ELSE row[c]]

(* ... and the second half writes the columns that differed. *)
WriteReview(t) ==
    LET r == request[t].review IN
    /\ request[t].step = "write"
    /\ reviews' = [reviews EXCEPT ![r] = Merged(request[t].changes, @)]
    /\ torn' = IF \E s \in Requests \ {t} : request[s].step = "write" /\ request[s].review = r
               THEN torn \cup {r} ELSE torn
    /\ request' = [request EXCEPT ![t] = Idle]
    /\ UNCHANGED <<texts, approvals>>

(* A slip: an edit leaves the status as it is. *)
UpdateReviewInPlace(t) ==
    /\ texts < MaxVersions
    /\ texts' = texts + 1
    /\ \E rating \in Ratings :
          SaveReview(t, [request[t].copy EXCEPT !.text = texts + 1, !.rating = rating])
    /\ UNCHANGED approvals

(* updateReview.  The validation insists on a rating, so that every edit   *)
(* that gets here resets the status.  Flagged words are not looked at.     *)
UpdateReview(t) ==
    /\ texts < MaxVersions
    /\ texts' = texts + 1
    /\ \E rating \in Ratings :
          SaveReview(t, [request[t].copy EXCEPT !.text = texts + 1, !.rating = rating,
                                                !.status = "pending"])
    /\ UNCHANGED approvals

DeleteReview(t) ==
    /\ SaveReview(t, [request[t].copy EXCEPT !.status = "deleted"])
    /\ UNCHANGED <<texts, approvals>>

(* markReviewHelpful saves the copy as it was read, but for its counter.   *)
MarkReviewHelpful(t) ==
    /\ SaveReview(t, request[t].copy)
    /\ UNCHANGED <<texts, approvals>>

(* reportReview.  Counts past AutoFlagCount make no difference any more.   *)
ReportReview(t) ==
    LET copy == request[t].copy
        n    == copy.reports + 1
    IN  /\ copy.reports < AutoFlagCount
        /\ SaveReview(t, IF n >= FlagThreshold /\ copy.status = "approved"
                         THEN [copy EXCEPT !.reports = n, !.status = "flagged", !.reasons = TRUE]
                         ELSE [copy EXCEPT !.reports = n])
        /\ UNCHANGED <<texts, approvals>>

-----------------------------------------------------------------------------
(* Moderators. *)

StatusAfter(action, status) ==
    CASE action \in {"approve", "unflag"} -> "approved"
      [] action = "reject" -> "rejected"
      [] action = "delete" -> "deleted"
      [] action = "flag"   -> "flagged"
      [] action = "edit"   -> status

(* moderateReview.  The moderation record and the audit record, which no   *)
(* code below reads, follow the row in statements of their own.            *)
Moderate(t, action) ==
    LET copy == request[t].copy
        row  == [copy EXCEPT !.status = StatusAfter(action, copy.status)]
    IN  /\ SaveReview(t, row)
        /\ IF action \in {"approve", "unflag"}
           THEN Approve(request[t].review, row) ELSE UNCHANGED approvals
        /\ UNCHANGED texts

(* autoModerateReviews, for one review of the lists it has read: pending   *)
(* reviews of rating 4 without reasons are approved, and approved ones     *)
(* with exactly AutoFlagCount reports are flagged.                         *)
AutoApprove(t) ==
    LET copy == request[t].copy
        row  == [copy EXCEPT !.status = "approved"]
    IN  /\ copy.status = "pending" /\ copy.rating = 4 /\ ~copy.reasons
        /\ SaveReview(t, row)
        /\ Approve(request[t].review, row)
        /\ UNCHANGED texts

AutoFlag(t) ==
    LET copy == request[t].copy
        row  == [copy EXCEPT !.status = "flagged", !.reasons = TRUE]
    IN  /\ copy.status = "approved" /\ copy.reports = AutoFlagCount
        /\ SaveReview(t, row)
        /\ UNCHANGED <<texts, approvals>>

(* The review is in neither list, or the request fails before it saves.    *)
GiveUp(t) ==
    /\ request[t].step # "idle"
    /\ request' = [request EXCEPT ![t] = Idle]
    /\ UNCHANGED <<reviews, texts, approvals, torn>>

-----------------------------------------------------------------------------

ReviewNext ==
    \/ \E r \in Reviews, rating \in Ratings, flagged \in BOOLEAN : CreateReview(r, rating, flagged)
    \/ \E t \in Requests :
          \/ \E r \in Reviews : ReadReview(t, r)
          \/ UpdateReview(t) \/ DeleteReview(t) \/ MarkReviewHelpful(t) \/ ReportReview(t)
          \/ \E action \in Actions : Moderate(t, action)
          \/ AutoApprove(t) \/ AutoFlag(t)
          \/ WriteReview(t) \/ GiveUp(t)

ReviewSpec == ReviewInit /\ [][ReviewNext]_reviewVars

-----------------------------------------------------------------------------
(* Properties. *)

ReviewTypeOK ==
    /\ reviews \in [Reviews -> ReviewRow]
    /\ \A t \in Requests :
          /\ request[t].step \in {"idle", "read", "write"} /\ request[t].review \in Reviews
          /\ request[t].copy \in ReviewRow
          /\ Merged(request[t].changes, NoReview) \in ReviewRow
    /\ texts \in 0 .. MaxVersions
    /\ approvals \subseteq Reviews \X Texts /\ torn \subseteq Reviews

(* What readers see was approved as it stands: a published text is the     *)
(* very version that a moderator, the automatic moderation or the check at *)
(* creation approved, however old the copies are that edits, votes,        *)
(* reports and moderators save over each other's rows.  It takes two saves *)
(* that interleave statement by statement to publish anything else.        *)
PublishedTextWasApproved ==
    \A r \in Reviews \ torn :
        reviews[r].status = "approved" => <<r, reviews[r].text>> \in approvals
=============================================================================
