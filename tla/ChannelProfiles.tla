--------------------------- MODULE ChannelProfiles ---------------------------
(***************************************************************************)
(* The saved channel profiles of one workspace                             *)
(* (apps/adapter/src/channel-profiles.ts): the form that saves one, the    *)
(* mark of the preferred one, and what a node reads of them.               *)
(*                                                                         *)
(* Requests interleave between their statements.  A save reads the row and *)
(* writes it later; applying a profile is a transaction of two updates     *)
(* that lock the rows they touch one after the other until the commit, and *)
(* PostgreSQL aborts one of two transactions that wait for each other.     *)
(* Of the values of a profile only those are kept that decide where a      *)
(* reply goes; of the others, which ones are there.                        *)
(***************************************************************************)
EXTENDS BlankText, FiniteSets, Naturals

CONSTANTS ProfileIds, Callers,
          Forms              \* what is entered: [template, type, target, given]

VARIABLES rows,              \* the stored profiles; template Blank where there is none
          calls,             \* what every request under way has read and locked
          grown              \* whether a profile appeared while one was being applied

profileVars == <<rows, calls, grown>>

Template(channelType, defaults, config, secrets, required) ==
    [channelType |-> channelType, defaults |-> defaults, config |-> config, secrets |-> secrets,
     required |-> required]

WhatsappWeb ==
    Template("whatsapp", {"dmPolicy", "allowFrom", "welcomeMessage"},
             {"dmPolicy", "allowFrom", "welcomeMessage"}, {}, {})
WhatsappCloud ==
    Template("whatsapp", {"dmPolicy", "allowFrom"},
             {"phoneNumberId", "businessAccountId", "dmPolicy", "allowFrom"},
             {"accessToken", "verifyToken"}, {"phoneNumberId", "accessToken"})
TelegramBot ==
    Template("telegram", {"allowFrom"}, {"defaultChatId", "allowFrom"}, {"botToken"}, {"botToken"})
SlackBot ==
    Template("slack", {}, {"defaultChannelId"}, {"botToken", "appToken"}, {"botToken"})
DiscordBot ==
    Template("discord", {}, {"guildId", "defaultChannelId"}, {"botToken"}, {"botToken"})
YouTubeDataApi ==
    Template("youtube", {"maxResults", "includeStatistics"},
             {"channelIds", "maxResults", "includeStatistics"}, {"apiKey"}, {"apiKey"})
CustomChannel == Template("custom", {"notes"}, {"notes"}, {}, {})
TranscriptApi ==
    Template("transcriptapi", {"baseUrl"}, {"baseUrl"}, {"apiKey"}, {"apiKey"})

CHANNEL_PROFILE_TEMPLATES ==
    [id \in {"whatsapp-web", "whatsapp-cloud", "telegram-bot", "slack-bot", "discord-bot",
             "youtube-data-api", "custom-channel", "transcript-api"} |->
        CASE id = "whatsapp-web"     -> WhatsappWeb
          [] id = "whatsapp-cloud"   -> WhatsappCloud
          [] id = "telegram-bot"     -> TelegramBot
          [] id = "slack-bot"        -> SlackBot
          [] id = "discord-bot"      -> DiscordBot
          [] id = "youtube-data-api" -> YouTubeDataApi
          [] id = "custom-channel"   -> CustomChannel
          [] id = "transcript-api"   -> TranscriptApi]

\* A form is that of a template, and an id is not blank.
ASSUME FormsAssumption == \A f \in Forms : f.template \in DOMAIN CHANNEL_PROFILE_TEMPLATES
ASSUME ProfilesAssumption == Blank \notin ProfileIds

NoProfile == [template |-> Blank, channelType |-> Blank, target |-> Blank, secrets |-> {},
              applied |-> FALSE]
IdleCall == [op |-> "idle", id |-> Blank, row |-> NoProfile, left |-> {}, locked |-> {}]

Stored == {id \in ProfileIds : rows[id].template # Blank}
Free(id, c) == \A d \in Callers \ {c} : id \notin calls[d].locked

ResolveStoredChannelType(form) ==
    IF CHANNEL_PROFILE_TEMPLATES[form.template].channelType = "custom"
    THEN form.type
    ELSE CHANNEL_PROFILE_TEMPLATES[form.template].channelType

-----------------------------------------------------------------------------
\* Saving.  The secrets that were stored are kept, also those of another
\* template; the rest is what the form says now.
ProfileOf(form, stored) ==
    [template |-> form.template, channelType |-> ResolveStoredChannelType(form),
     target |-> form.target, applied |-> FALSE,
     secrets |-> stored.secrets \cup (form.given \cap CHANNEL_PROFILE_TEMPLATES[form.template].secrets)]

\* Mutant: an existing profile is not checked for its secrets again.
CompleteWhenNew(form, stored) ==
    LET template == CHANNEL_PROFILE_TEMPLATES[form.template]
    IN /\ template.required \cap template.config \subseteq template.defaults \cup form.given
       /\ stored.template # Blank \/ template.required \cap template.secrets \subseteq form.given
       /\ ResolveStoredChannelType(form) # Blank

SanitizeProfilePayload(form, stored) ==
    LET template == CHANNEL_PROFILE_TEMPLATES[form.template]
    IN /\ template.required \cap template.config \subseteq template.defaults \cup form.given
       /\ template.required \cap template.secrets \subseteq form.given \cup stored.secrets
       /\ ResolveStoredChannelType(form) # Blank

\* An id that is not stored, or a form that is not complete, is an error.
StartSave(c, id, form) ==
    LET stored == IF id = Blank THEN NoProfile ELSE rows[id]
    IN /\ calls[c] = IdleCall
       /\ id \in Stored \cup {Blank}
       /\ SanitizeProfilePayload(form, stored)
       /\ calls' = [calls EXCEPT ![c] = [IdleCall EXCEPT !.op = "save", !.id = id,
                                                         !.row = ProfileOf(form, stored)]]
       /\ UNCHANGED <<rows, grown>>

InsertProfile(c) ==
    /\ calls[c].op = "save" /\ calls[c].id = Blank
    /\ \E id \in ProfileIds \ Stored : rows' = [rows EXCEPT ![id] = calls[c].row]
    /\ grown' = (grown \/ \E d \in Callers : calls[d].op = "apply")
    /\ calls' = [calls EXCEPT ![c] = IdleCall]

\* A row that was deleted meanwhile makes the save fail.
UpdateProfile(c) ==
    LET id == calls[c].id
    IN /\ calls[c].op = "save" /\ id # Blank /\ Free(id, c)
       /\ rows' = IF id \in Stored
                  THEN [rows EXCEPT ![id] = [calls[c].row EXCEPT !.applied = rows[id].applied]]
                  ELSE rows
       /\ calls' = [calls EXCEPT ![c] = IdleCall]
       /\ UNCHANGED grown

DeleteChannelProfile(id) ==
    /\ id \in Stored
    /\ \A c \in Callers : id \notin calls[c].locked
    /\ rows' = [rows EXCEPT ![id] = NoProfile]
    /\ UNCHANGED <<calls, grown>>

-----------------------------------------------------------------------------
\* Applying: first every other profile is cleared, then this one is marked.
StartApply(c, id) ==
    /\ calls[c] = IdleCall
    /\ calls' = [calls EXCEPT ![c] = [IdleCall EXCEPT !.op = "apply", !.id = id,
                                                      !.left = Stored \ {id}]]
    /\ UNCHANGED <<rows, grown>>

\* Mutant: each update is committed at once.
ClearAtOnce(c, id) ==
    /\ calls[c].op = "apply" /\ id \in calls[c].left
    /\ rows' = [rows EXCEPT ![id].applied = FALSE]
    /\ calls' = [calls EXCEPT ![c].left = @ \ {id}]
    /\ UNCHANGED grown

ClearOther(c, id) ==
    /\ calls[c].op = "apply" /\ id \in calls[c].left /\ Free(id, c)
    /\ calls' = [calls EXCEPT ![c].left = @ \ {id}, ![c].locked = @ \cup {id}]
    /\ UNCHANGED <<rows, grown>>

\* The commit makes both updates visible, the first one also when the profile
\* to be marked does not exist.
FinishApply(c) ==
    LET id == calls[c].id
    IN /\ calls[c].op = "apply" /\ calls[c].left = {} /\ Free(id, c)
       /\ rows' = [p \in ProfileIds |->
                     IF p \in calls[c].locked \cup ({id} \cap Stored)
                     THEN [rows[p] EXCEPT !.applied = (p = id)]
                     ELSE rows[p]]
       /\ calls' = [calls EXCEPT ![c] = IdleCall]
       /\ UNCHANGED grown

\* What a request still has to lock, and whether all of it is taken.
Wanted(c) ==
    CASE calls[c].op = "apply" /\ calls[c].left # {} -> calls[c].left
      [] calls[c].op = "apply" /\ calls[c].left = {} -> {calls[c].id}
      [] OTHER                                       -> {}
Stuck(c) == Wanted(c) # {} /\ \A id \in Wanted(c) : ~Free(id, c)

\* A transaction of a cycle is aborted: nothing of it has been seen.
AbortApply(c) ==
    /\ Stuck(c)
    /\ \E d \in Callers \ {c} : Stuck(d) /\ Wanted(c) \cap calls[d].locked # {}
    /\ calls' = [calls EXCEPT ![c] = IdleCall]
    /\ UNCHANGED <<rows, grown>>

-----------------------------------------------------------------------------
\* Reading.  Profiles that were never applied come before the applied one,
\* since a descending order puts the missing dates first.
FirstListed(ids) ==
    IF \E id \in ids : ~rows[id].applied THEN {id \in ids : ~rows[id].applied} ELSE ids

PreferredProfileIds == FirstListed(Stored)

GetChannelExecutionProfile(id) == IF id \in Stored THEN rows[id] ELSE NoProfile

\* The profiles a transcript step may get its key from.
LoadTranscriptApiProfileSettings(id) ==
    LET transcripts == {p \in Stored : rows[p].template = "transcript-api"}
        found       == IF id # Blank THEN transcripts \cap {id} ELSE FirstListed(transcripts)
    IN {p \in found : "apiKey" \in rows[p].secrets}

ProfilesInit ==
    /\ rows \in [ProfileIds -> {NoProfile} \cup
                   {ProfileOf(form, NoProfile) :
                      form \in {f \in Forms : SanitizeProfilePayload(f, NoProfile)}}]
    /\ calls = [c \in Callers |-> IdleCall]
    /\ grown = FALSE

ProfilesNext ==
    \/ \E c \in Callers :
         \/ \E id \in ProfileIds \cup {Blank}, form \in Forms : StartSave(c, id, form)
         \/ InsertProfile(c)
         \/ UpdateProfile(c)
         \/ \E id \in ProfileIds : StartApply(c, id)
         \/ \E id \in ProfileIds : ClearOther(c, id)
         \/ FinishApply(c)
         \/ AbortApply(c)
    \/ \E id \in ProfileIds : DeleteChannelProfile(id)

-----------------------------------------------------------------------------
\* However requests interleave, at most one profile is the preferred one,
\* unless a profile was created while another was being applied (the update
\* that clears the others does not see it).
AtMostOnePreferred == grown \/ Cardinality({id \in Stored : rows[id].applied}) <= 1

\* A stored profile has every secret its template requires, also after a
\* change of template and after saves that overlapped: the error "key is
\* missing from the selected profile" is not reached by saving profiles.
RequiredKept ==
    \A id \in Stored :
        LET template == CHANNEL_PROFILE_TEMPLATES[rows[id].template]
        IN template.required \cap template.secrets \subseteq rows[id].secrets
=============================================================================
