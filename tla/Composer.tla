------------------------------ MODULE Composer ------------------------------
(***************************************************************************)
(* The input bar of ChatViewController: a text goes to                     *)
(* createNewConversation or to sendMessage, a picture is uploaded, its URL *)
(* fetched, and the message with the URL sent.  The calls themselves are   *)
(* those of ChatDatabase; the storage is StorageManager's.                 *)
(***************************************************************************)
EXTENDS Naturals, FiniteSets

CONSTANTS
    MaxTexts, MaxPictures, MaxSeconds

ASSUME ComposerConstants ==
    MaxTexts \in Nat /\ MaxPictures \in Nat /\ MaxSeconds \in Nat \ {0}

VARIABLES
    open,              \* is the screen there?
    hasId,             \* conversationid # nil
    isNewConversation,
    texts,             \* the number of texts that were sent off
    creating, sending, \* calls without an answer
    second,            \* the date of createMessageId
    pictures,          \* the number of pictures picked, which names the last
    pickedAt,          \* pickedAt[p]: the second in which p was picked, or 0
    uploads,           \* pictures on their way: [picture, file, step]
    files,             \* files[f]: the picture that the storage has as f, or 0
    photos             \* messages given to sendMessage: [picture, file]

composerVars == <<open, hasId, isNewConversation, texts, creating, sending,
                  second, pictures, pickedAt, uploads, files, photos>>

ComposerInit ==
    /\ open = TRUE
    /\ hasId \in BOOLEAN
    /\ isNewConversation = ~hasId   \* didSelectRowAt, createNewConverSation
    /\ texts = 0
    /\ creating = 0 /\ sending = 0
    /\ second = 1
    /\ pictures = 0 /\ pickedAt = [p \in 1..MaxPictures |-> 0]
    /\ uploads = {} /\ photos = {}
    /\ files = [f \in 0..MaxSeconds |-> 0]

ClockTicks ==
    /\ second < MaxSeconds
    /\ second' = second + 1
    /\ UNCHANGED <<open, hasId, isNewConversation, texts, creating, sending,
                   pictures, pickedAt, uploads, files, photos>>

\* inputBar(didPressSendButtonWith:).  The bar stays enabled while a creation
\* has no answer: another text starts another one.  Without an id and after a
\* creation, the text is dropped.
PressSend ==
    /\ open
    /\ texts < MaxTexts
    /\ texts' = texts + 1
    /\ creating' = IF isNewConversation THEN creating + 1 ELSE creating
    /\ sending' = IF ~isNewConversation /\ hasId THEN sending + 1 ELSE sending
    /\ UNCHANGED <<open, hasId, isNewConversation, second, pictures, pickedAt,
                   uploads, files, photos>>

\* Mutant: a creation calls its completion once more
CreationEndsAgain(success) ==
    /\ creating' = creating - 1
    /\ isNewConversation' = (isNewConversation /\ ~(success /\ open))
    /\ UNCHANGED <<open, hasId, texts, sending, second, pictures, pickedAt,
                   uploads, files, photos>>

\* The completion of createNewConversation, with self weak
CreationEnds(success) ==
    /\ creating > 0
    /\ creating' = creating - 1
    /\ isNewConversation' = (isNewConversation /\ ~(success /\ open))
    /\ UNCHANGED <<open, hasId, texts, sending, second, pictures, pickedAt,
                   uploads, files, photos>>

\* The completion of sendMessage only prints
SendEnds ==
    /\ sending > 0
    /\ sending' = sending - 1
    /\ UNCHANGED <<open, hasId, isNewConversation, texts, creating,
                   second, pictures, pickedAt, uploads, files, photos>>

\* Mutant: a name that all pictures of the conversation share
FileNameWithoutDate(date) == 0

\* "photo_message_" and the message id: for one screen, its date
FileName(date) == date

\* imagePickerController(didFinishPickingMediaWithInfo:): dropped without an id
PickPicture ==
    /\ open
    /\ pictures < MaxPictures
    /\ pictures' = pictures + 1
    /\ pickedAt' = [pickedAt EXCEPT ![pictures'] = second]
    /\ uploads' = IF hasId
                  THEN uploads \cup {[picture |-> pictures', file |-> FileName(second),
                                      step |-> "upload"]}
                  ELSE uploads
    /\ UNCHANGED <<open, hasId, isNewConversation, texts, creating, sending,
                   second, files, photos>>

\* The completion of putData: the download URL is asked for, or it is over
UploadEnds(u, success) ==
    /\ u.step = "upload"
    /\ files' = IF success THEN [files EXCEPT ![u.file] = u.picture] ELSE files
    /\ uploads' = (uploads \ {u}) \cup
                  (IF success THEN {[u EXCEPT !.step = "url"]} ELSE {})
    /\ UNCHANGED <<open, hasId, isNewConversation, texts, creating, sending,
                   second, pictures, pickedAt, photos>>

\* The completion of downloadURL: the message is sent, unless there is no URL
\* or the screen is gone
UrlArrives(u, success) ==
    /\ u.step = "url"
    /\ uploads' = uploads \ {u}
    /\ IF success /\ open
       THEN /\ photos' = photos \cup {[picture |-> u.picture, file |-> u.file]}
            /\ sending' = sending + 1
       ELSE UNCHANGED <<photos, sending>>
    /\ UNCHANGED <<open, hasId, isNewConversation, texts, creating,
                   second, pictures, pickedAt, files>>

\* Back to the list
Close ==
    /\ open
    /\ open' = FALSE
    /\ UNCHANGED <<hasId, isNewConversation, texts, creating, sending,
                   second, pictures, pickedAt, uploads, files, photos>>

ComposerNext ==
    \/ ClockTicks \/ PressSend \/ SendEnds \/ PickPicture \/ Close
    \/ \E success \in BOOLEAN :
           \/ CreationEnds(success)
           \/ \E u \in uploads : UploadEnds(u, success) \/ UrlArrives(u, success)

ComposerSpec == ComposerInit /\ [][ComposerNext]_composerVars

----------------------------------------------------------------------------

Picking == [picture : 1..MaxPictures, file : 0..MaxSeconds, step : {"upload", "url"}]

ComposerTypeOK ==
    /\ open \in BOOLEAN /\ hasId \in BOOLEAN /\ isNewConversation \in BOOLEAN
    /\ texts \in 0..MaxTexts
    /\ creating \in Nat /\ sending \in Nat
    /\ second \in 1..MaxSeconds
    /\ pictures \in 0..MaxPictures
    /\ pickedAt \in [1..MaxPictures -> 0..MaxSeconds]
    /\ uploads \subseteq Picking
    /\ files \in [0..MaxSeconds -> 0..MaxPictures]
    /\ photos \subseteq [picture : 1..MaxPictures, file : 0..MaxSeconds]

\* Whatever uploads overlap, fail or end after the next picture was picked, the
\* link in a picture's message leads to that picture, or to another one that
\* was picked within the same second, which shares its file (line 213): never
\* to a picture of another second, and never to nothing.
PictureIsItsOwn ==
    \A p \in photos :
        LET there == files[p.file] IN
        there # 0 /\ pickedAt[there] = pickedAt[p.picture]
=============================================================================
