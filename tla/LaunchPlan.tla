----------------------------- MODULE LaunchPlan -----------------------------
(***************************************************************************)
(* What the launch commands of the bot create in the guild: the tables of  *)
(* modules/discordbot/rolesync.go, guildsync.go and automod.go, and the    *)
(* channels refreshChannels (bot.go) looks up.  Colours, permissions,      *)
(* topics, keywords and emoji are left out.                                *)
(***************************************************************************)
EXTENDS Naturals, FiniteSets, SequencesExt

launchRoles ==
    <<"Platform Administrator", "Developer", "Operations Lead", "Intermediary Lead",
      "Intermediary", "Dispute & Compliance", "Security & Fraud", "Finance & Risk",
      "Support & Verification", "Regional & Translation", "Moderator",
      "Seller", "Buyer", "User", "Under Review", "Suspended", "Blacklisted",
      "English", "Bahasa Indonesia">>

(* The roles every AutoMod rule exempts. *)
autoModStaffRoles ==
    {"Platform Administrator", "Security & Fraud", "Operations Lead", "Moderator"}

(* Their names without the prefix they share. *)
autoModRules ==
    <<[name |-> "Credential Leak", trigger |-> "keyword"],
      [name |-> "Impersonation Profile", trigger |-> "member profile"],
      [name |-> "Invite Link", trigger |-> "keyword"],
      [name |-> "Mention Raid", trigger |-> "mention spam"]>>

launchLayout ==
    <<[key |-> "start-here", channels |-> <<"welcome", "goodbye", "rules", "how-it-works",
         "verification", "faq", "service-status", "security-notices", "roles-and-languages">>],
      [key |-> "transaction-support", channels |-> <<"open-a-ticket", "discount-campaign",
         "affiliate", "transaction-guidelines", "payment-guidelines", "delivery-confirmation",
         "refund-and-cancellation", "disputes", "ticket-archive">>],
      [key |-> "seller-area", channels |-> <<"seller-general", "seller-application",
         "seller-guidelines", "seller-resources", "seller-support", "seller-updates",
         "seller-withdraw">>],
      [key |-> "buyer-area", channels |-> <<"buyer-general", "buyer-help",
         "buyer-guidelines", "buyer-updates">>],
      [key |-> "languages", channels |-> <<"english", "bahasa-indonesia">>],
      [key |-> "internal", channels |-> <<"staff-log", "audit-log">>]>>

(* The channels the bot itself posts to and asks permissions about. *)
channelKeys ==
    {"welcome", "rules", "how-it-works", "verification", "open-a-ticket",
     "roles-and-languages", "staff-log", "audit-log", "goodbye"}

-----------------------------------------------------------------------------
RuleNames == {autoModRules[i].name : i \in DOMAIN autoModRules}

Categories == {launchLayout[i].key : i \in DOMAIN launchLayout}

(* A category and then its channels, category by category. *)
LayoutOrder == FlattenSeq([i \in DOMAIN launchLayout |->
                             <<launchLayout[i].key>> \o launchLayout[i].channels])

ParentOf(channel) ==
    CHOOSE key \in Categories :
        \E i \in DOMAIN launchLayout :
            /\ launchLayout[i].key = key
            /\ channel \in ToSet(launchLayout[i].channels)

(* What each command goes through, in its order. *)
FullPlan(cmd) ==
    CASE cmd = "rolesync"    -> launchRoles
      [] cmd = "automodsync" -> [i \in DOMAIN autoModRules |-> autoModRules[i].name]
      [] cmd = "guildsync"   -> LayoutOrder

-----------------------------------------------------------------------------
RulesOfTrigger(trigger) ==
    {i \in DOMAIN autoModRules : autoModRules[i].trigger = trigger}

(* The tables fit together: the three commands need each other's names.    *)
(* Every role a rule exempts is one /rolesync creates, every channel the   *)
(* bot posts to one /guildsync creates, no name is empty or occurs twice   *)
(* (the second would silently be skipped), no rule is called like one of   *)
(* the bot's channels, and "Discord limits KEYWORD rules to 6 per guild,   *)
(* MEMBER_PROFILE to 1, and MENTION_SPAM to 1" (automod.go).               *)
ASSUME TablesFit ==
    /\ autoModStaffRoles \subseteq ToSet(launchRoles)
    /\ channelKeys \subseteq ToSet(LayoutOrder)
    /\ \A cmd \in {"rolesync", "automodsync", "guildsync"} :
          FullPlan(cmd) \in Seq(STRING \ {""}) /\ IsInjective(FullPlan(cmd))
    /\ RuleNames \cap channelKeys = {}
    /\ Cardinality(RulesOfTrigger("keyword")) <= 6
    /\ Cardinality(RulesOfTrigger("member profile")) <= 1
    /\ Cardinality(RulesOfTrigger("mention spam")) <= 1

=============================================================================
