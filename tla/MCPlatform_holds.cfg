SPECIFICATION Spec
CONSTANTS
    Workers = {w1, w2}
    Users = {"u1"}
    MaxRequests = 4
    Subjects = {"s1"}
    AccessPlans = {"starter"}
    PlanLimit <- LimitOfPlan
    OverrideLimits = {3}
    AccessQuantities = {1, 2}
    AccessKeys = {"", "k1"}
    Periods = 2
    Channels = {"email", "push"}
    PushChannel = "push"
    Reasons = {"bounce", "complaint"}
    NoticeKeys = {"", "n1"}
    DeliveryModes = {"log", "disabled"}
    Rules = {"burst", "flood"}
    RuleScope <- ScopeOfRule
    Threshold <- ThresholdOfRule
    RiskOrgs = {"o1"}
    RiskScores = {5}
    Assets = {"a1"}
    RetentionPolicies = {"p1"}
    Staff = {"s1", "s2"}
    ExternalIds = {"x1"}
    Abilities = {TRUE, FALSE}
    PasskeyIds = {"k1"}
    DeviceIds = {"d1"}
    Triggers = {"billing_change"}
    Methods = {"totp"}
    Holders = {"u1", "u2"}
    OAuthScopes = {"openid", "email"}
SYMMETRY Symmetry
CHECK_DEADLOCK FALSE
PROPERTIES
    HoldsBlockRetention
